------------------------------- MODULE Retrier -------------------------------
(***************************************************************************)
(* The retries of internal/engine/retry.go, as functions of what happens:  *)
(* a script has the outcome of each call of the function, "ok" or the kind *)
(* of its error, and the wait during which the context is done, 0 if none. *)
(* Durations are whole numbers, factors too; jitter is in percent.         *)
(***************************************************************************)
EXTENDS Integers, FiniteSetsExt

(* isNetworkError; an error that is only wrapped in a RetryableError is none. *)
isNetworkError(err) == err \in {"network", "timeout"}

(* Mutant: a deadline is retried like another timeout. *)
shouldRetryDeadline(config, err) ==
  /\ err # "cancelled"
  /\ IF config.errors # {} THEN err \in config.errors ELSE isNetworkError(err) \/ err = "deadline"

shouldRetry(config, err) ==
  /\ err \notin {"cancelled", "deadline"}
  /\ IF config.errors # {} THEN err \in config.errors ELSE isNetworkError(err)

(* Do: the calls made, and the error, "none" if nil.  An attempt is the last
   when it succeeds, when its error is not to be retried, when there are no
   more retries, or when the context is done during the wait after it.
   When retries are a negative number nothing is called and nothing fails. *)
Do(config, script) ==
  LET Ends(a) == \/ script.outcomes[a + 1] = "ok"
                 \/ ~shouldRetry(config, script.outcomes[a + 1])
                 \/ a >= config.maxRetries
                 \/ script.doneAt = a + 1
      last == Min({a \in 0 .. config.maxRetries : Ends(a)})
      err  == script.outcomes[last + 1]
  IN IF config.maxRetries < 0 THEN [calls |-> 0, error |-> "none"]
     ELSE [calls |-> last + 1,
           error |-> IF err = "ok" THEN "none"
                     ELSE IF ~shouldRetry(config, err) \/ last >= config.maxRetries THEN err
                     ELSE "cancelled"]

-----------------------------------------------------------------------------
SmallestOf(x, y) == IF x <= y THEN x ELSE y

(* math.Pow of a number and a number of times. *)
Pow(x, n) ==
  LET power[k \in Nat] == IF k = 0 THEN 1 ELSE x * power[k - 1] IN power[n]

BaseDelay(config, attempt) ==
  SmallestOf(config.initial * Pow(config.multiplier, attempt), config.maxDelay)

(* calculateDelay: the delays there may be before the next attempt. *)
calculateDelay(config, attempt) ==
  LET base   == BaseDelay(config, attempt)
      jitter == (base * config.jitter) \div 100
  IN base - jitter .. base + jitter
=============================================================================
