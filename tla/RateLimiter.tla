----------------------------- MODULE RateLimiter -----------------------------
(***************************************************************************)
(* The token bucket of internal/engine/ratelimit.go that all connections   *)
(* of a download share (--limit-rate).                                     *)
(*                                                                         *)
(* Time is counted in ticks, Ticks of them to a second.  Acquire is two or *)
(* three steps: it looks at the limit without the lock, it takes what it   *)
(* can under the lock, and if that is not enough it waits without the      *)
(* lock, for a time it computed from the limit of that moment.             *)
(***************************************************************************)
EXTENDS Integers, FiniteSets

CONSTANTS
  Callers,     \* the goroutines that call Acquire
  FirstLimit,  \* the bytes per second of NewRateLimiter
  Limits,      \* the limits SetLimit may be called with
  Sizes,       \* the numbers of bytes Acquire may be called for
  Ticks,       \* ticks of the clock in a second
  MaxTime      \* bound: the clock stops there

ASSUME RateLimiterAssumption ==
  /\ IsFiniteSet(Callers)
  /\ FirstLimit \in Nat \ {0} /\ Limits \subseteq Nat
  /\ Sizes \subseteq Nat \ {0}
  /\ Ticks \in Nat \ {0} /\ MaxTime \in Nat

VARIABLES
  now,         \* the clock
  limit,       \* bytesPerSecond, and maxTokens, which always equals it
  tokens,      \* the bytes that may be taken at once
  lastUpdate,  \* when the bucket was last refilled
  call,        \* the call of Acquire each goroutine is in
  cancelled,   \* whether the context of the callers is cancelled
  granted      \* the bytes Acquire has let through under a limit so far

vars == <<now, limit, tokens, lastUpdate, call, cancelled, granted>>

-----------------------------------------------------------------------------
Idle == [at |-> "idle", n |-> 0, needed |-> 0, since |-> 0, rate |-> 0]

SmallerOf(x, y) == IF x <= y THEN x ELSE y

(* The tokens after a refill: a fraction of a byte is lost, and so is what
   would be more than a second's worth.                                    *)
Refill(elapsed) == SmallerOf(tokens + (elapsed * limit) \div Ticks, limit)

(* A limit of zero lets everything through. *)
Call(c, n) ==
  /\ call[c].at = "idle"
  /\ limit > 0
  /\ call' = [call EXCEPT ![c] = [Idle EXCEPT !.at = "lock", !.n = n]]
  /\ UNCHANGED <<now, limit, tokens, lastUpdate, cancelled, granted>>

(* Mutant: a caller that must wait leaves the tokens it takes in the bucket. *)
TakeKeepingTokens(c) ==
  /\ call[c].at = "lock"
  /\ lastUpdate' = now
  /\ LET available == Refill(now - lastUpdate)
         n         == call[c].n
     IN IF available >= n
        THEN /\ tokens' = available - n
             /\ granted' = granted + n
             /\ call' = [call EXCEPT ![c] = Idle]
        ELSE /\ tokens' = available
             /\ call' = [call EXCEPT ![c] = [at |-> "wait", n |-> n,
                                             needed |-> n - available,
                                             since |-> now, rate |-> limit]]
             /\ UNCHANGED granted
  /\ UNCHANGED <<now, limit, cancelled>>

(* Acquire under the lock. *)
Take(c) ==
  /\ call[c].at = "lock"
  /\ lastUpdate' = now
  /\ LET available == Refill(now - lastUpdate)
         n         == call[c].n
     IN IF available >= n
        THEN /\ tokens' = available - n
             /\ granted' = granted + n
             /\ call' = [call EXCEPT ![c] = Idle]
        ELSE /\ tokens' = 0
             /\ call' = [call EXCEPT ![c] = [at |-> "wait", n |-> n,
                                             needed |-> n - available,
                                             since |-> now, rate |-> limit]]
             /\ UNCHANGED granted
  /\ UNCHANGED <<now, limit, cancelled>>

(* The timer of a waiting caller fires; nothing is taken from the bucket for
   the time it waited.  If the limit had become zero after Call looked at
   it, the wait is needed / 0, an infinity whose conversion to a Duration is
   up to the processor: the timer fires at once or never.                  *)
Wake(c) ==
  /\ call[c].at = "wait"
  /\ \/ call[c].rate = 0
     \/ (now - call[c].since) * call[c].rate >= call[c].needed * Ticks
  /\ granted' = IF call[c].rate = 0 THEN granted ELSE granted + call[c].n
  /\ call' = [call EXCEPT ![c] = Idle]
  /\ UNCHANGED <<now, limit, tokens, lastUpdate, cancelled>>

(* The wait ends with the context's error; the tokens taken are gone. *)
GiveUp(c) ==
  /\ call[c].at = "wait" /\ cancelled
  /\ call' = [call EXCEPT ![c] = Idle]
  /\ UNCHANGED <<now, limit, tokens, lastUpdate, cancelled, granted>>

SetLimit(l) ==
  /\ limit' = l
  /\ tokens' = SmallerOf(tokens, l)
  /\ UNCHANGED <<now, lastUpdate, call, cancelled, granted>>

Cancel ==
  /\ ~cancelled
  /\ cancelled' = TRUE
  /\ UNCHANGED <<now, limit, tokens, lastUpdate, call, granted>>

Tick ==
  /\ now < MaxTime
  /\ now' = now + 1
  /\ UNCHANGED <<limit, tokens, lastUpdate, call, cancelled, granted>>

(* NewRateLimiter: the bucket starts full. *)
Init ==
  /\ now = 0
  /\ limit = FirstLimit /\ tokens = FirstLimit
  /\ lastUpdate = 0
  /\ call = [c \in Callers |-> Idle]
  /\ cancelled = FALSE
  /\ granted = 0

Next ==
  \/ \E c \in Callers :
       \/ \E n \in Sizes : Call(c, n)
       \/ Take(c) \/ Wake(c) \/ GiveUp(c)
  \/ \E l \in Limits : SetLimit(l)
  \/ Cancel
  \/ Tick

Spec == Init /\ [][Next]_vars

-----------------------------------------------------------------------------
(* The type invariant of the limiter. *)
TypeOK ==
  /\ now \in Nat /\ lastUpdate \in 0 .. now
  /\ limit \in Limits \cup {FirstLimit}
  /\ tokens \in Nat
  /\ call \in [Callers -> [at : {"idle", "lock", "wait"}, n : Sizes \cup {0},
                           needed : Nat, since : 0 .. now,
                           rate : Limits \cup {FirstLimit, 0}]]
  /\ cancelled \in BOOLEAN /\ granted \in Nat

(* "Allow burst of up to 1 second worth of bytes": whatever was saved up
   under a higher limit, no more than a second of the present one can be
   taken at once.                                                          *)
BurstWithinLimit == tokens <= limit
=============================================================================
