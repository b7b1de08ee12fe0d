------------------------------ MODULE RateWindow ------------------------------
(***************************************************************************)
(* The token bucket watched through a window of time, which is moved to    *)
(* any moment at which no caller waits: how much does Acquire let through  *)
(* from then on?                                                           *)
(***************************************************************************)
EXTENDS RateLimiter

CONSTANT MaxLimit   \* no limit is higher

ASSUME MaxLimitAssumption ==
  MaxLimit \in Nat /\ FirstLimit <= MaxLimit /\ \A l \in Limits : l <= MaxLimit

VARIABLE window   \* its beginning: the time, and the bytes let through until then

bucketVars == <<vars, window>>

Watch ==
  /\ \A c \in Callers : call[c].at # "wait"
  /\ window' = [time |-> now, granted |-> granted]
  /\ UNCHANGED vars

WindowInit == Init /\ window = [time |-> 0, granted |-> 0]

WindowNext == (Next /\ UNCHANGED window) \/ Watch

WindowSpec == WindowInit /\ [][WindowNext]_bucketVars

-----------------------------------------------------------------------------
(* What Acquire does guarantee.  Its callers wait side by side, and the time
   a caller waits refills the bucket all the same, so that k callers get at
   most k + 1 times the limit, on top of one burst, over any time.         *)
GrantBound ==
  (granted - window.granted) * Ticks
    <= MaxLimit * Ticks + (Cardinality(Callers) + 1) * MaxLimit * (now - window.time)

(* However the limit is changed and however many callers wait: no more than a
   second's worth is ever saved up, and the rate has a bound.              *)
LimiterBounds == BurstWithinLimit /\ GrantBound
=============================================================================
