------------------------------ MODULE MirrorList ------------------------------
(***************************************************************************)
(* The list of mirrors and MirrorDownloader.Download of                    *)
(* internal/engine/mirror.go: several downloads that share one list.  One  *)
(* step is one call of a method of the list, which holds its lock, or one  *)
(* download from a mirror.                                                 *)
(***************************************************************************)
EXTENDS Integers, FiniteSets, Sequences

CONSTANTS
  Priority,      \* the mirrors, in order, by their priority
  Strategies,    \* the strategies a list may be made with
  Clients,       \* the MirrorDownloaders that share the list
  MaxRetries,    \* MirrorDownloader.maxRetries
  MaxDownloads   \* bound: the downloads of one client

ASSUME MirrorAssumption ==
  /\ Priority \in Seq(Int) /\ Priority # <<>>
  /\ Strategies \subseteq {"failover", "random", "fastest", "roundrobin"}
  /\ MaxRetries \in Nat \ {0} /\ MaxDownloads \in Nat

VARIABLES
  strategy,    \* MirrorList.strategy
  mirror,      \* per mirror: Healthy as a name, FailCount, LastLatency (0: none yet)
  current,     \* MirrorList.current, which Next only uses modulo a length
  client       \* the Download each client is in, and what it saw

mirrorVars == <<strategy, mirror, current, client>>

-----------------------------------------------------------------------------
Mirrors == DOMAIN Priority

Fresh == [health |-> "up", fails |-> 0, latency |-> 0]

getHealthyMirrors == {i \in Mirrors : mirror[i].health = "up"}

(* What Next chooses from: the healthy mirrors, or all after a reset. *)
Choice == IF getHealthyMirrors = {} THEN Mirrors ELSE getHealthyMirrors

First(S) == {i \in S : \A j \in S : i <= j}

(* The first mirror of the highest priority. *)
selectByPriority(S) ==
  First({i \in S : \A j \in S : Priority[j] <= Priority[i]})

(* The first of those that answered fastest, or the first if none has. *)
selectFastest(S) ==
  LET timed == {i \in S : mirror[i].latency > 0}
  IN IF timed = {} THEN First(S)
     ELSE First({i \in timed : \A j \in timed : mirror[i].latency <= mirror[j].latency})

(* The turn goes by the place among the mirrors there are to choose from. *)
selectRoundRobin(S) ==
  {i \in S : Cardinality({j \in S : j < i}) = current % Cardinality(S)}

(* The mirrors Next may return. *)
Picks(S) ==
  CASE strategy = "random"     -> S
    [] strategy = "fastest"    -> selectFastest(S)
    [] strategy = "failover"   -> selectByPriority(S)
    [] strategy = "roundrobin" -> selectRoundRobin(S)

(* resetHealth, when no mirror is healthy. *)
Reset ==
  IF getHealthyMirrors = {}
  THEN [i \in Mirrors |-> [mirror[i] EXCEPT !.health = "up", !.fails = 0]]
  ELSE mirror

(* Mutant: the failures before a success are not forgotten. *)
ForgiveHealth(i, latency) ==
  mirror' = [mirror EXCEPT ![i].health = "up", ![i].latency = latency]

MarkSuccess(i, latency) ==
  mirror' = [mirror EXCEPT ![i] = [health |-> "up", fails |-> 0, latency |-> latency]]

MarkFailed(i) ==
  LET m     == mirror[i]
      fails == m.fails + 1
  IN mirror' = [mirror EXCEPT ![i] = [m EXCEPT !.fails = fails,
                                               !.health = IF fails >= 3 THEN "down" ELSE m.health]]

-----------------------------------------------------------------------------
(* A client before, or after, a download.  The fields due and alone are
   history: the mirrors that were healthy when the download began, and
   whether nobody else used the list since.                                *)
Resting(n, result) ==
  [at |-> "rest", count |-> n, result |-> result, attempt |-> 0,
   tried |-> {}, pick |-> 0, due |-> {}, alone |-> TRUE]

Ends(c, result) ==
  client' = [client EXCEPT ![c].at = "rest", ![c].result = result, ![c].pick = 0]

Begin(c) ==
  /\ client[c].at = "rest" /\ client[c].count < MaxDownloads
  /\ client' = [d \in Clients |->
       IF d = c THEN [Resting(client[c].count + 1, "none") EXCEPT
                        !.at = "loop", !.due = getHealthyMirrors,
                        !.alone = \A e \in Clients \ {c} : client[e].at = "rest"]
       ELSE [client[d] EXCEPT !.alone = IF client[d].at = "rest" THEN @ ELSE FALSE]]
  /\ UNCHANGED <<strategy, mirror, current>>

(* Mutant: the turn is not passed on. *)
AttemptInPlace(c) ==
  /\ client[c].at = "loop"
  /\ client[c].attempt < Len(Priority) * MaxRetries
  /\ mirror' = Reset
  /\ \E i \in Picks(Choice) :
       client' = IF i \in client[c].tried
                 THEN [client EXCEPT ![c].attempt = @ + 1]
                 ELSE [client EXCEPT ![c].at = "download", ![c].pick = i]
  /\ UNCHANGED <<strategy, current>>

(* Mutant: one round too many. *)
AttemptOnceMore(c) ==
  /\ client[c].at = "loop"
  /\ client[c].attempt <= Len(Priority) * MaxRetries
  /\ mirror' = Reset
  /\ current' = IF strategy = "roundrobin" THEN current + 1 ELSE current
  /\ \E i \in Picks(Choice) :
       client' = IF i \in client[c].tried
                 THEN [client EXCEPT ![c].attempt = @ + 1]
                 ELSE [client EXCEPT ![c].at = "download", ![c].pick = i]
  /\ UNCHANGED strategy

(* One round of the loop up to the download: a mirror that was tried already
   uses up the round.                                                      *)
Attempt(c) ==
  /\ client[c].at = "loop"
  /\ client[c].attempt < Len(Priority) * MaxRetries
  /\ mirror' = Reset
  /\ current' = IF strategy = "roundrobin" THEN current + 1 ELSE current
  /\ \E i \in Picks(Choice) :
       client' = IF i \in client[c].tried
                 THEN [client EXCEPT ![c].attempt = @ + 1]
                 ELSE [client EXCEPT ![c].at = "download", ![c].pick = i]
  /\ UNCHANGED strategy

(* The rounds are used up. *)
GiveUpMirrors(c) ==
  /\ client[c].at = "loop"
  /\ client[c].attempt = Len(Priority) * MaxRetries
  /\ Ends(c, "failed")
  /\ UNCHANGED <<strategy, mirror, current>>

(* The context is done at the head of the loop. *)
Cancelled(c) ==
  /\ client[c].at = "loop"
  /\ Ends(c, "cancelled")
  /\ UNCHANGED <<strategy, mirror, current>>

Succeed(c) ==
  /\ client[c].at = "download"
  /\ \E latency \in {1, 2} : MarkSuccess(client[c].pick, latency)
  /\ Ends(c, "ok")
  /\ UNCHANGED <<strategy, current>>

Fail(c) ==
  /\ client[c].at = "download"
  /\ MarkFailed(client[c].pick)
  /\ client' = [client EXCEPT ![c].at = "loop", ![c].pick = 0, ![c].attempt = @ + 1,
                              ![c].tried = @ \cup {client[c].pick}]
  /\ UNCHANGED <<strategy, current>>

MirrorInit ==
  /\ strategy \in Strategies
  /\ mirror = [i \in Mirrors |-> Fresh]
  /\ current = 0
  /\ client = [c \in Clients |-> Resting(0, "none")]

MirrorNext ==
  \E c \in Clients : Begin(c) \/ Attempt(c) \/ GiveUpMirrors(c) \/ Cancelled(c)
                   \/ Succeed(c) \/ Fail(c)

MirrorSpec == MirrorInit /\ [][MirrorNext]_mirrorVars

-----------------------------------------------------------------------------
(* The type invariant of the list. *)
MirrorTypeOK ==
  /\ mirror \in [Mirrors -> [health : {"up", "down"}, fails : Nat, latency : 0 .. 2]]
  /\ current \in Nat
  /\ \A c \in Clients :
       /\ client[c].at \in {"rest", "loop", "download"}
       /\ client[c].result \in {"none", "ok", "failed", "cancelled"}
       /\ client[c].attempt \in 0 .. Len(Priority) * MaxRetries
       /\ client[c].tried \subseteq Mirrors
       /\ client[c].pick \in Mirrors \cup {0}

(* Three failures without a success in between, and only they, take a mirror
   out, whichever downloads report them and however resets fall between.   *)
HealthIsFailures == \A i \in Mirrors : (mirror[i].health = "up") <=> mirror[i].fails < 3

(* A download that fails has tried something: "all mirrors exhausted", the
   error without a cause, never comes back.                                *)
FailureHasCause ==
  \A c \in Clients : client[c].result = "failed" => client[c].tried # {}

(* What the list says of its mirrors, and a download of its failure, is what
   the attempts of all downloads came to.                                  *)
ListIsTrue == HealthIsFailures /\ FailureHasCause

(* Each mirror that goes down on the way shifts the turn past another one, so
   that N mirrors may take (N + 1)^2 / 4 rounds; the default of three retries
   is enough for ten mirrors, not for eleven.                              *)
RoundsForAll ==
  ((Len(Priority) + 1) * (Len(Priority) + 1)) \div 4 <= Len(Priority) * MaxRetries

(* Round robin: if the rounds are enough, a download that fails, with nobody
   else on the list, has tried every mirror that was healthy when it began. *)
RotationIsComplete ==
  RoundsForAll =>
    \A c \in Clients :
      (strategy = "roundrobin" /\ client[c].result = "failed" /\ client[c].alone)
        => client[c].due \subseteq client[c].tried
=============================================================================
