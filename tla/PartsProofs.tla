----------------------------- MODULE PartsProofs -----------------------------
(***************************************************************************)
(* The parts that keep state.  The health of the mirrors and the rounds of  *)
(* the downloads, for every list, every strategy and any number of          *)
(* downloads that share the list, and how many rounds the rotation needs    *)
(* to come to every mirror.  The token bucket, for every number of callers, *)
(* every limit and every clock: that no more than a second of the present   *)
(* limit is ever saved up, and what it lets through in any window of time.  *)
(* The table of buckets, for any hosts, patterns and limits: which limit is *)
(* in force.  And the types of all of them.                                 *)
(***************************************************************************)
EXTENDS MCParts, FiniteSetTheorems, TLAPS

MirrorState == [health : {"up", "down"}, fails : Nat, latency : 0 .. 2]

(* What a step needs to know of the steps before it. *)
CountsAgree ==
  \A i \in Mirrors : /\ mirror[i].fails \in Nat
                     /\ (mirror[i].health = "up") <=> mirror[i].fails < 3

ClientState ==
  [at : {"rest", "loop", "download"}, count : Nat,
   result : {"none", "ok", "failed", "cancelled"}, attempt : Nat,
   tried : SUBSET Mirrors, pick : Mirrors \cup {0},
   due : SUBSET Mirrors, alone : BOOLEAN]

Rounds == Len(Priority) * MaxRetries

(* A round is used up by a mirror that was tried, or that was tried before:
   no round passes without one.                                            *)
RoundsHaveCause(c) ==
  /\ client[c].attempt > 0 => client[c].tried # {}
  /\ client[c].result = "failed" => client[c].tried # {}
  /\ client[c].at = "download" => client[c].pick \in Mirrors
  /\ client[c].attempt <= Rounds
  /\ client[c].at = "download" => client[c].attempt < Rounds

ListInv ==
  /\ strategy \in Strategies /\ current \in Nat
  /\ mirror \in [Mirrors -> MirrorState]
  /\ CountsAgree
  /\ client \in [Clients -> ClientState]
  /\ \A c \in Clients : RoundsHaveCause(c)

-----------------------------------------------------------------------------
LEMMA MirrorsExist == Len(Priority) \in Nat \ {0} /\ Mirrors = 1 .. Len(Priority)
  BY MirrorAssumption DEF Mirrors

LEMMA RoundsExist == Rounds \in Nat \ {0}
<1>1. \A m, n \in Nat \ {0} : m * n \in Nat \ {0}
  OBVIOUS
<1>2. MaxRetries \in Nat \ {0}
  BY MirrorAssumption
<1>3. QED  BY <1>1, <1>2, MirrorsExist DEF Rounds

(* Next returns one of the mirrors, under every strategy. *)
LEMMA PicksAreMirrors ==
  ASSUME ListInv
  PROVE  Picks(Choice) \subseteq Mirrors
<1>1. Choice \subseteq Mirrors
  BY DEF Choice, getHealthyMirrors
<1>2. \A S : First(S) \subseteq S
  BY DEF First
<1>3. \A S : selectByPriority(S) \subseteq S
  BY <1>2 DEF selectByPriority
<1>4. \A S : selectFastest(S) \subseteq S
  BY <1>2 DEF selectFastest
<1>5. \A S : selectRoundRobin(S) \subseteq S
  BY DEF selectRoundRobin
<1>6. strategy \in {"failover", "random", "fastest", "roundrobin"}
  BY MirrorAssumption DEF ListInv
<1>7. QED
  BY <1>1, <1>3, <1>4, <1>5, <1>6 DEF Picks

LEMMA ListInit == MirrorInit => ListInv
<1> SUFFICES ASSUME MirrorInit PROVE ListInv
  OBVIOUS
<1>1. Fresh \in MirrorState /\ Fresh.fails = 0 /\ Fresh.health = "up"
  BY DEF Fresh, MirrorState
<1>2. /\ Resting(0, "none") \in ClientState
      /\ Resting(0, "none").attempt = 0
      /\ Resting(0, "none").result = "none" /\ Resting(0, "none").at = "rest"
  BY DEF Resting, ClientState
<1>3. mirror \in [Mirrors -> MirrorState] /\ CountsAgree
  BY <1>1 DEF MirrorInit, CountsAgree
<1>4. client \in [Clients -> ClientState] /\ \A c \in Clients : RoundsHaveCause(c)
  BY <1>2, RoundsExist DEF MirrorInit, RoundsHaveCause
<1>5. QED
  BY <1>3, <1>4 DEF MirrorInit, ListInv

(* A reset takes away the failures of all mirrors, or of none. *)
LEMMA ResetKeepsCounts ==
  ASSUME ListInv, mirror' = Reset
  PROVE  mirror' \in [Mirrors -> MirrorState] /\ CountsAgree'
<1>1. CASE getHealthyMirrors = {}
  <2>1. mirror' = [i \in Mirrors |-> [mirror[i] EXCEPT !.health = "up", !.fails = 0]]
    BY <1>1 DEF Reset
  <2>2. /\ mirror' \in [Mirrors -> MirrorState]
        /\ \A i \in Mirrors : mirror'[i].health = "up" /\ mirror'[i].fails = 0
    <3>1. mirror \in [Mirrors -> MirrorState]
      BY DEF ListInv
    <3>2. QED
      BY ONLY <2>1, <3>1 DEF MirrorState
  <2>3. QED
    BY <2>2 DEF CountsAgree, Mirrors
<1>2. CASE getHealthyMirrors # {}
  BY <1>2 DEF Reset, ListInv, CountsAgree
<1>3. QED
  BY <1>1, <1>2

LEMMA SuccessKeepsCounts ==
  ASSUME ListInv, NEW i \in Mirrors, NEW latency \in {1, 2}, MarkSuccess(i, latency)
  PROVE  mirror' \in [Mirrors -> MirrorState] /\ CountsAgree'
  BY DEF MarkSuccess, ListInv, CountsAgree, MirrorState

LEMMA FailureKeepsCounts ==
  ASSUME ListInv, NEW i \in Mirrors, MarkFailed(i)
  PROVE  mirror' \in [Mirrors -> MirrorState] /\ CountsAgree'
<1> DEFINE fails == mirror[i].fails + 1
           m == [mirror[i] EXCEPT !.fails = fails,
                                  !.health = IF fails >= 3 THEN "down" ELSE mirror[i].health]
<1>1. mirror[i] \in MirrorState
  BY DEF ListInv
<1>2. fails \in Nat
  BY <1>1 DEF MirrorState
<1>3. (mirror[i].health = "up") <=> mirror[i].fails < 3
  BY DEF ListInv, CountsAgree
<1>4. mirror' = [mirror EXCEPT ![i] = m]
  BY DEF MarkFailed
<1>5. m \in MirrorState /\ ((m.health = "up") <=> m.fails < 3)
  <2>1. m \in MirrorState
    BY <1>1, <1>2 DEF MirrorState
  <2>2. m.health = IF fails >= 3 THEN "down" ELSE mirror[i].health
    BY <1>1 DEF MirrorState
  <2>3. m.fails = fails
    BY <1>1 DEF MirrorState
  <2> HIDE DEF m
  <2>4. (m.health = "up") <=> fails < 3
    <3>1. CASE fails >= 3
      <4>1. m.health = "down"
        BY <3>1, <2>2
      <4>2. ~(fails < 3)
        BY <1>2, <3>1
      <4>3. QED  BY <4>1, <4>2
    <3>2. CASE ~(fails >= 3)
      <4>1. mirror[i].fails < 3
        BY <1>1, <3>2 DEF MirrorState
      <4> HIDE DEF fails
      <4>2. QED
        BY ONLY <1>2, <1>3, <2>2, <3>2, <4>1
    <3>3. QED  BY <3>1, <3>2
  <2>5. QED  BY <2>1, <2>3, <2>4
<1>6. m.fails \in Nat
  BY <1>5 DEF MirrorState
<1> HIDE DEF m
<1>7. mirror' \in [Mirrors -> MirrorState]
  BY <1>4, <1>5 DEF ListInv
<1>8. CountsAgree'
  <2>1. mirror'[i] = m /\ \A j \in Mirrors \ {i} : mirror'[j] = mirror[j]
    BY <1>4 DEF ListInv
  <2>2. QED
    BY <1>5, <1>6, <2>1 DEF ListInv, CountsAgree, Mirrors
<1>9. QED  BY <1>7, <1>8

(* A download that has ended keeps what it tried. *)
LEMMA EndKeepsClients ==
  ASSUME ListInv, NEW c \in Clients, NEW result \in {"ok", "failed", "cancelled"},
         Ends(c, result), result = "failed" => client[c].tried # {}
  PROVE  client' \in [Clients -> ClientState] /\ \A d \in Clients : RoundsHaveCause(d)'
<1>1. client[c] \in ClientState
  BY DEF ListInv
<1>2. [client[c] EXCEPT !.at = "rest", !.result = result, !.pick = 0] \in ClientState
  BY <1>1 DEF ClientState
<1>3. client' = [client EXCEPT ![c] = [client[c] EXCEPT !.at = "rest", !.result = result, !.pick = 0]]
  BY <1>1 DEF Ends, ListInv
<1>4. client' \in [Clients -> ClientState]
  BY <1>2, <1>3 DEF ListInv
<1>5. \A d \in Clients : RoundsHaveCause(d)'
  BY <1>1, <1>3 DEF ListInv, RoundsHaveCause, ClientState
<1>6. QED  BY <1>4, <1>5

LEMMA BeginKeepsInv ==
  ASSUME ListInv, NEW c \in Clients, Begin(c)
  PROVE  ListInv'
<1> DEFINE begun == [Resting(client[c].count + 1, "none") EXCEPT
                        !.at = "loop", !.due = getHealthyMirrors,
                        !.alone = \A e \in Clients \ {c} : client[e].at = "rest"]
           other(d) == [client[d] EXCEPT !.alone = IF client[d].at = "rest" THEN @ ELSE FALSE]
<1>1. client' = [d \in Clients |-> IF d = c THEN begun ELSE other(d)]
  BY DEF Begin
<1>2. \A d \in Clients : client[d] \in ClientState
  BY DEF ListInv
<1>3. begun \in ClientState
  <2>1. client[c].count + 1 \in Nat /\ getHealthyMirrors \subseteq Mirrors
    BY <1>2 DEF ClientState, getHealthyMirrors
  <2>2. (\A e \in Clients \ {c} : client[e].at = "rest") \in BOOLEAN
    OBVIOUS
  <2>3. QED
    BY <2>1, <2>2 DEF ClientState, Resting
<1>4. \A d \in Clients : other(d) \in ClientState
  BY <1>2 DEF ClientState
<1>5. begun.attempt = 0 /\ begun.result = "none" /\ begun.at = "loop"
  BY DEF Resting
<1>6. \A d \in Clients : /\ other(d).attempt = client[d].attempt
                         /\ other(d).tried = client[d].tried
                         /\ other(d).result = client[d].result
                         /\ other(d).at = client[d].at
                         /\ other(d).pick = client[d].pick
  BY <1>2 DEF ClientState
<1> HIDE DEF begun, other
<1>7. client' \in [Clients -> ClientState]
  BY <1>1, <1>3, <1>4
<1>8. \A d \in Clients : RoundsHaveCause(d)'
  BY <1>1, <1>5, <1>6, RoundsExist DEF ListInv, RoundsHaveCause
<1>9. mirror' = mirror /\ strategy' = strategy /\ current' = current
  BY DEF Begin
<1>10. QED
  BY <1>7, <1>8, <1>9 DEF ListInv, CountsAgree

LEMMA AttemptKeepsInv ==
  ASSUME ListInv, NEW c \in Clients, Attempt(c)
  PROVE  ListInv'
<1>1. client[c] \in ClientState
  BY DEF ListInv
<1>2. PICK i \in Picks(Choice) :
        client' = IF i \in client[c].tried
                  THEN [client EXCEPT ![c].attempt = @ + 1]
                  ELSE [client EXCEPT ![c].at = "download", ![c].pick = i]
  BY DEF Attempt
<1>3. i \in Mirrors
  BY PicksAreMirrors
<1>4. /\ mirror' \in [Mirrors -> MirrorState]
      /\ CountsAgree'
  BY ResetKeepsCounts DEF Attempt
<1>5. strategy' = strategy /\ current' \in Nat
  BY DEF Attempt, ListInv
<1>6. client' \in [Clients -> ClientState] /\ \A d \in Clients : RoundsHaveCause(d)'
  <2>1. CASE i \in client[c].tried
    <3>1. client' = [client EXCEPT ![c].attempt = @ + 1]
      BY <1>2, <2>1
    <3>2. client[c].attempt + 1 \in Nat /\ client[c].tried # {}
      BY <1>1, <2>1 DEF ClientState
    <3>3. client[c].attempt + 1 <= Rounds /\ client[c].at # "download"
      BY <1>1, RoundsExist DEF Attempt, Rounds, ClientState
    <3>4. QED
      BY <1>1, <3>1, <3>2, <3>3 DEF ListInv, RoundsHaveCause, ClientState
  <2>2. CASE i \notin client[c].tried
    <3>1. client' = [client EXCEPT ![c].at = "download", ![c].pick = i]
      BY <1>2, <2>2
    <3>2. client[c].attempt < Rounds
      BY DEF Attempt, Rounds
    <3>3. QED
      BY <1>1, <1>3, <3>1, <3>2 DEF ListInv, RoundsHaveCause, ClientState
  <2>3. QED  BY <2>1, <2>2
<1>7. QED
  BY <1>4, <1>5, <1>6 DEF ListInv

LEMMA FailKeepsInv ==
  ASSUME ListInv, NEW c \in Clients, Fail(c)
  PROVE  ListInv'
<1>1. client[c] \in ClientState /\ client[c].pick \in Mirrors
  BY DEF ListInv, RoundsHaveCause, Fail
<1>2. /\ mirror' \in [Mirrors -> MirrorState]
      /\ CountsAgree'
  BY <1>1, FailureKeepsCounts DEF Fail
<1>3. client' = [client EXCEPT ![c].at = "loop", ![c].pick = 0, ![c].attempt = @ + 1,
                              ![c].tried = @ \cup {client[c].pick}]
  BY DEF Fail
<1>4. client[c].attempt + 1 \in Nat /\ client[c].attempt + 1 <= Rounds
  BY <1>1, RoundsExist DEF Fail, ListInv, RoundsHaveCause, ClientState
<1>5. client' \in [Clients -> ClientState] /\ \A d \in Clients : RoundsHaveCause(d)'
  BY <1>1, <1>3, <1>4 DEF ListInv, RoundsHaveCause, ClientState
<1>6. QED
  BY <1>2, <1>5 DEF ListInv, Fail

LEMMA ListStep == ListInv /\ [MirrorNext]_mirrorVars => ListInv'
<1> SUFFICES ASSUME ListInv, [MirrorNext]_mirrorVars PROVE ListInv'
  OBVIOUS
<1>1. CASE \E c \in Clients : Begin(c)
  BY <1>1, BeginKeepsInv
<1>2. CASE \E c \in Clients : Attempt(c)
  BY <1>2, AttemptKeepsInv
<1>3. CASE \E c \in Clients : GiveUpMirrors(c)
  <2>1. PICK c \in Clients : GiveUpMirrors(c)
    BY <1>3
  <2>2. client[c].attempt > 0
    BY <2>1, RoundsExist DEF GiveUpMirrors, Rounds
  <2>3. client[c].tried # {}
    BY <2>2 DEF ListInv, RoundsHaveCause
  <2>4. client' \in [Clients -> ClientState] /\ \A d \in Clients : RoundsHaveCause(d)'
    BY <2>1, <2>3, EndKeepsClients DEF GiveUpMirrors
  <2>5. QED
    BY <2>1, <2>4 DEF GiveUpMirrors, ListInv, CountsAgree
<1>4. CASE \E c \in Clients : Cancelled(c)
  <2>1. PICK c \in Clients : Cancelled(c)
    BY <1>4
  <2>2. client' \in [Clients -> ClientState] /\ \A d \in Clients : RoundsHaveCause(d)'
    BY <2>1, EndKeepsClients DEF Cancelled
  <2>3. QED
    BY <2>1, <2>2 DEF Cancelled, ListInv, CountsAgree
<1>5. CASE \E c \in Clients : Succeed(c)
  <2>1. PICK c \in Clients : Succeed(c)
    BY <1>5
  <2>2. client[c].pick \in Mirrors
    BY <2>1 DEF Succeed, ListInv, RoundsHaveCause
  <2>3. client' \in [Clients -> ClientState] /\ \A d \in Clients : RoundsHaveCause(d)'
    BY <2>1, EndKeepsClients DEF Succeed
  <2>4. /\ mirror' \in [Mirrors -> MirrorState]
        /\ CountsAgree'
    BY <2>1, <2>2, SuccessKeepsCounts DEF Succeed
  <2>5. QED
    BY <2>1, <2>3, <2>4 DEF Succeed, ListInv
<1>6. CASE \E c \in Clients : Fail(c)
  BY <1>6, FailKeepsInv
<1>7. CASE UNCHANGED mirrorVars
  BY <1>7 DEF mirrorVars, ListInv, CountsAgree, RoundsHaveCause
<1>8. QED
  BY <1>1, <1>2, <1>3, <1>4, <1>5, <1>6, <1>7 DEF MirrorNext

LEMMA ListAlways == MirrorSpec => []ListInv
  BY ListInit, ListStep, PTL DEF MirrorSpec

(* The types of the list, and that no download takes more rounds than there
   are mirrors and retries.                                                *)
THEOREM MirrorTypeCorrect == MirrorSpec => []MirrorTypeOK
<1>1. ListInv => MirrorTypeOK
  <2> SUFFICES ASSUME ListInv PROVE MirrorTypeOK
    OBVIOUS
  <2>1. \A c \in Clients : client[c].attempt \in 0 .. Rounds
    BY RoundsExist DEF ListInv, RoundsHaveCause, ClientState
  <2>2. QED
    BY <2>1 DEF ListInv, MirrorTypeOK, MirrorState, ClientState, Rounds
<1>2. QED  BY <1>1, ListAlways, PTL

(* A mirror is out of use after three failures in a row and only then, for
   any number of mirrors and of downloads that report them.                *)
THEOREM HealthCounted == MirrorSpec => []HealthIsFailures
<1>1. ListInv => HealthIsFailures
  BY DEF ListInv, CountsAgree, HealthIsFailures
<1>2. QED  BY <1>1, ListAlways, PTL

(* A download that used up its rounds has tried a mirror and has an error to
   report, whatever list, strategy and number of retries.                  *)
THEOREM FailuresHaveCause == MirrorSpec => []FailureHasCause
<1>1. ListInv => FailureHasCause
  BY DEF ListInv, RoundsHaveCause, FailureHasCause
<1>2. QED  BY <1>1, ListAlways, PTL

(* The health of the mirrors and the failure of a download are what the
   attempts of all downloads came to, for every list and strategy.         *)
THEOREM ListAlwaysTrue == MirrorSpec => []ListIsTrue
<1>1. HealthIsFailures /\ FailureHasCause => ListIsTrue
  BY DEF ListIsTrue
<1>2. QED  BY <1>1, HealthCounted, FailuresHaveCause, PTL

-----------------------------------------------------------------------------
(* The place of a mirror among the healthy ones. *)
Place(i) == Cardinality({j \in getHealthyMirrors : j < i})

(* A download that nobody disturbs, and the turns it has begun to act on. *)
Lone(c) == strategy = "roundrobin" /\ client[c].at # "rest" /\ client[c].alone
Turned(c) == IF client[c].at = "download" THEN current - 1 ELSE current

(* The mirrors that had their turn since one went down last: as many turns
   ago as there are of them, at most.                                      *)
HadTurn(c, W) ==
  \A w \in W : \E m \in 1 .. Cardinality(W), k \in Nat :
    Place(w) + m + Cardinality(getHealthyMirrors) * k = Turned(c)

(* While a mirror is left to try: each that went down cost at most a round for
   each that was tried, and one of its own.                                *)
Turning(c) ==
  LET up == getHealthyMirrors
      due == client[c].due
      tried == client[c].tried
  IN /\ up \subseteq due /\ due \ up \subseteq tried /\ tried \subseteq due
     /\ client[c].at = "download" =>
          /\ client[c].pick \in up \ tried
          /\ \E k \in Nat : Place(client[c].pick) + Cardinality(up) * k = Turned(c)
     /\ \E W \in SUBSET (tried \cap up) :
          /\ client[c].attempt <=
               Cardinality(due \ up) * (Cardinality(tried \cap up) + 1) + Cardinality(W)
          /\ HadTurn(c, W)

(* Whoever shares the list with nobody has tried all that was up when it
   began, or its turns go round.                                           *)
RotationInv ==
  /\ \A c \in Clients : client[c].at # "rest" => client[c].result = "none"
  /\ \A c \in Clients :
       Lone(c) => /\ \A d \in Clients \ {c} : client[d].at = "rest"
                  /\ client[c].due \subseteq client[c].tried \/ Turning(c)

LEMMA MirrorsCounted ==
  /\ IsFiniteSet(Mirrors) /\ Cardinality(Mirrors) = Len(Priority)
  /\ \A S \in SUBSET Mirrors : /\ IsFiniteSet(S) /\ Cardinality(S) \in Nat
                               /\ Cardinality(S) <= Len(Priority)
<1>1. PICK n \in Nat \ {0} : n = Len(Priority) /\ Mirrors = 1 .. n
  BY MirrorsExist
<1>2. IsFiniteSet(1 .. n) /\ Cardinality(1 .. n) = n
  BY FS_Interval
<1>3. IsFiniteSet(Mirrors) /\ Cardinality(Mirrors) = Len(Priority)
  BY <1>1, <1>2
<1>4. ASSUME NEW S \in SUBSET Mirrors
      PROVE  IsFiniteSet(S) /\ Cardinality(S) \in Nat /\ Cardinality(S) <= Len(Priority)
  BY <1>3, FS_Subset, FS_CardinalityType
<1>5. QED
  BY <1>3, <1>4

(* Fewer turns than there are mirrors do not come round. *)
LEMMA NotSoSoon ==
  ASSUME NEW s \in Nat, NEW m \in Nat, NEW k \in Nat, NEW q \in Nat, 1 <= m, m < s
  PROVE  s * q # m + s * k
<1>1. s * q \in Nat /\ s * k \in Nat
  OBVIOUS
<1>2. CASE q <= k
  <2>1. PICK d \in Nat : k = q + d
    BY <1>2, k - q \in Nat
  <2>2. s * k = s * q + s * d /\ s * d \in Nat
    BY <2>1
  <2>3. QED
    BY <1>1, <2>2
<1>3. CASE ~(q <= k)
  <2>1. PICK d \in Nat : q = k + 1 + d
    BY <1>3, q - k - 1 \in Nat
  <2>2. s * q = s * k + s + s * d /\ s * d \in Nat
    BY <2>1
  <2>3. QED
    BY <1>1, <2>2
<1>4. QED
  BY <1>2, <1>3

(* Of two numbers with a given sum the product is largest if they are equal. *)
LEMMA HalvesAreBest ==
  ASSUME NEW a \in Nat, NEW b \in Nat, NEW n \in Nat, a + b <= n
  PROVE  4 * (a * b) <= n * n
<1>1. PICK d \in Nat : n = a + b + d
  BY n - (a + b) \in Nat
<1>2. n * n = (a + b) * (a + b) + 2 * ((a + b) * d) + d * d
  BY <1>1
<1>3. (a + b) * (a + b) = 4 * (a * b) + (a - b) * (a - b)
  OBVIOUS
<1>4. (a - b) * (a - b) >= 0 /\ (a + b) * d \in Nat /\ d * d \in Nat /\ a * b \in Nat
  <2>1. ASSUME NEW x \in Int PROVE x * x >= 0
    OBVIOUS
  <2>2. a - b \in Int
    OBVIOUS
  <2>3. QED
    BY <2>1, <2>2
<1>5. (a - b) * (a - b) \in Int /\ n * n \in Nat /\ (a + b) * (a + b) \in Nat
  OBVIOUS
<1>6. QED
  BY <1>2, <1>3, <1>4, <1>5

LEMMA RoundsSuffice ==
  ASSUME RoundsForAll, NEW a \in Nat, NEW b \in Nat, a + b <= Len(Priority) + 1
  PROVE  a * b <= Rounds
<1>1. PICK n \in Nat : n = Len(Priority) + 1
  BY MirrorsExist
<1>2. 4 * (a * b) <= n * n
  BY <1>1, HalvesAreBest
<1>3. ASSUME NEW x \in Nat, NEW y \in Nat, 4 * x <= y PROVE x <= y \div 4
  BY <1>3
<1>4. a * b \in Nat /\ n * n \in Nat
  BY <1>1
<1>5. a * b <= (n * n) \div 4
  BY <1>2, <1>3, <1>4
<1>6. (n * n) \div 4 <= Rounds
  BY <1>1 DEF RoundsForAll, Rounds
<1>7. (n * n) \div 4 \in Nat /\ Rounds \in Nat
  BY <1>4, RoundsExist
<1>8. QED
  BY <1>4, <1>5, <1>6, <1>7

(* What is left to try is up, and more than what had its turn. *)
LEMMA FewHadTurn ==
  ASSUME ListInv, NEW c \in Clients, Turning(c), ~(client[c].due \subseteq client[c].tried),
         NEW W \in SUBSET (client[c].tried \cap getHealthyMirrors)
  PROVE  /\ getHealthyMirrors \subseteq Mirrors /\ getHealthyMirrors # {}
         /\ IsFiniteSet(getHealthyMirrors) /\ Cardinality(getHealthyMirrors) \in Nat \ {0}
         /\ IsFiniteSet(W) /\ Cardinality(W) \in Nat
         /\ Cardinality(W) <= Cardinality(client[c].tried \cap getHealthyMirrors)
         /\ Cardinality(client[c].tried \cap getHealthyMirrors) \in Nat
         /\ Cardinality(client[c].tried \cap getHealthyMirrors) < Cardinality(getHealthyMirrors)
<1> DEFINE up == getHealthyMirrors
           had == client[c].tried \cap up
<1>1. up \subseteq Mirrors
  BY DEF getHealthyMirrors
<1>2. PICK u \in client[c].due : u \notin client[c].tried
  OBVIOUS
<1>3. u \in up
  BY <1>2 DEF Turning
<1> HIDE DEF up
<1>4. had \subseteq Mirrors /\ W \subseteq Mirrors /\ had \subseteq up /\ W \subseteq had /\ had # up
  BY <1>1, <1>2, <1>3 DEF up
<1> HIDE DEF had
<1>5. /\ IsFiniteSet(up) /\ Cardinality(up) \in Nat
      /\ IsFiniteSet(had) /\ Cardinality(had) \in Nat
      /\ IsFiniteSet(W) /\ Cardinality(W) \in Nat
  BY <1>1, <1>4, MirrorsCounted
<1>6. Cardinality(W) <= Cardinality(had)
  BY <1>4, <1>5, FS_Subset
<1>7. Cardinality(had) <= Cardinality(up) /\ Cardinality(had) # Cardinality(up)
  BY <1>4, <1>5, FS_Subset
<1>8. Cardinality(had) < Cardinality(up) /\ Cardinality(up) # 0
  BY <1>5, <1>7
<1>9. QED
  BY <1>1, <1>3, <1>5, <1>6, <1>8 DEF up, had

(* Whose turn it is has not had it yet. *)
LEMMA TurnIsNew ==
  ASSUME ListInv, NEW c \in Clients, Turning(c), ~(client[c].due \subseteq client[c].tried),
         NEW W \in SUBSET (client[c].tried \cap getHealthyMirrors), HadTurn(c, W),
         NEW i \in Mirrors, NEW q \in Nat,
         Place(i) + Cardinality(getHealthyMirrors) * q = Turned(c)
  PROVE  i \notin W
<1> SUFFICES ASSUME i \in W PROVE FALSE
  OBVIOUS
<1>1. PICK m \in 1 .. Cardinality(W), k \in Nat :
        Place(i) + m + Cardinality(getHealthyMirrors) * k = Turned(c)
  BY DEF HadTurn
<1>2. /\ Cardinality(W) \in Nat /\ Cardinality(getHealthyMirrors) \in Nat
      /\ Cardinality(W) < Cardinality(getHealthyMirrors)
  <2>1. /\ Cardinality(W) \in Nat /\ Cardinality(getHealthyMirrors) \in Nat \ {0}
        /\ Cardinality(W) <= Cardinality(client[c].tried \cap getHealthyMirrors)
        /\ Cardinality(client[c].tried \cap getHealthyMirrors) \in Nat
        /\ Cardinality(client[c].tried \cap getHealthyMirrors) < Cardinality(getHealthyMirrors)
    BY FewHadTurn
  <2>2. QED
    BY <2>1
<1>3. Place(i) \in Nat
  <2>1. {j \in getHealthyMirrors : j < i} \subseteq Mirrors
    BY DEF getHealthyMirrors
  <2>2. QED
    BY <2>1, MirrorsCounted DEF Place
<1>4. PICK s \in Nat, x \in Nat, r \in Nat :
        s = Cardinality(getHealthyMirrors) /\ x = Place(i) /\ r = Cardinality(W)
  BY <1>2, <1>3
<1>5. m \in Nat /\ 1 <= m /\ m < s
  <2>1. m \in 1 .. r /\ r < s
    BY <1>2, <1>4
  <2>2. QED
    BY <2>1
<1>6. x + s * q = x + m + s * k
  BY <1>1, <1>4
<1>7. s * q \in Nat /\ s * k \in Nat
  BY <1>4
<1>8. s * q = m + s * k
  BY <1>5, <1>6, <1>7
<1>9. QED
  BY <1>5, <1>8, NotSoSoon

(* The turn passes on: what had its turn had it a turn longer ago. *)
LEMMA TurnPasses ==
  ASSUME ListInv, NEW c \in Clients, Turning(c), ~(client[c].due \subseteq client[c].tried),
         NEW W \in SUBSET (client[c].tried \cap getHealthyMirrors), HadTurn(c, W),
         NEW i \in Mirrors, NEW q \in Nat,
         Place(i) + Cardinality(getHealthyMirrors) * q = Turned(c),
         getHealthyMirrors' = getHealthyMirrors, Turned(c)' = Turned(c) + 1
  PROVE  HadTurn(c, W \cup {i})' /\ Cardinality(W \cup {i}) = Cardinality(W) + 1
<1> DEFINE up == getHealthyMirrors
           W2 == W \cup {i}
<1>1. i \notin W /\ IsFiniteSet(W) /\ Cardinality(W) \in Nat
      /\ Cardinality(up) \in Nat
  BY FewHadTurn, TurnIsNew
<1>2. Cardinality(W2) = Cardinality(W) + 1
  BY <1>1, FS_AddElement
<1>3. \A w \in Mirrors : Place(w) \in Nat /\ Place(w)' = Place(w)
  <2>1. \A w \in Mirrors : {j \in up : j < w} \subseteq Mirrors
    BY DEF getHealthyMirrors
  <2>2. QED
    BY <2>1, MirrorsCounted DEF Place
<1>4. W \subseteq Mirrors
  BY DEF getHealthyMirrors
<1> HIDE DEF W2, up
<1>5. ASSUME NEW w \in W2
      PROVE  \E m \in 1 .. Cardinality(W2), k \in Nat :
               Place(w)' + m + Cardinality(up) * k = Turned(c)'
  <2>1. CASE w = i
    <3>1. Place(w)' + 1 + Cardinality(up) * q = Turned(c)'
      <4>1. PICK y \in Nat, p \in Nat : y = Cardinality(up) * q /\ p = Place(i)
        BY <1>1, <1>3
      <4>2. p + y = Turned(c) /\ p + 1 + y = p + y + 1
        BY <4>1 DEF up
      <4>3. Turned(c)' = p + 1 + y
        BY <4>2
      <4>4. QED
        BY <1>3, <2>1, <4>1, <4>3
    <3>2. 1 \in 1 .. Cardinality(W2)
      BY <1>1, <1>2
    <3>3. QED
      BY <3>1, <3>2
  <2>2. CASE w # i
    <3>1. w \in W
      BY <2>2 DEF W2
    <3>2. PICK m \in 1 .. Cardinality(W), k \in Nat : Place(w) + m + Cardinality(up) * k = Turned(c)
      BY <3>1 DEF HadTurn, up
    <3>3. m + 1 \in 1 .. Cardinality(W2)
      BY <1>1, <1>2
    <3>4. Place(w)' + (m + 1) + Cardinality(up) * k = Turned(c)'
      <4>1. PICK y \in Nat, p \in Nat : y = Cardinality(up) * k /\ p = Place(w)
        BY <1>1, <1>3, <1>4, <3>1
      <4>2. p + m + y = Turned(c) /\ p + (m + 1) + y = p + m + y + 1
        BY <3>2, <4>1
      <4>3. Turned(c)' = p + (m + 1) + y
        BY <4>2
      <4>4. QED
        BY <1>3, <1>4, <3>1, <4>1, <4>3
    <3>5. QED
      BY <3>3, <3>4
  <2>3. QED
    BY <2>1, <2>2
<1>6. HadTurn(c, W2)'
  BY <1>5 DEF HadTurn, up
<1>7. QED
  BY <1>2, <1>6 DEF W2

(* A round for a mirror that was tried before, or up to its download. *)
LEMMA AttemptKeepsTurning ==
  ASSUME ListInv, NEW c \in Clients, strategy = "roundrobin", Turning(c), Attempt(c)
  PROVE  (client[c].due \subseteq client[c].tried \/ Turning(c))'
<1> DEFINE up == getHealthyMirrors
           due == client[c].due
           tried == client[c].tried
<1>1. client[c] \in ClientState /\ current \in Nat /\ client \in [Clients -> ClientState]
  BY DEF ListInv
<1>2. PICK i \in Picks(Choice) :
        client' = IF i \in client[c].tried
                  THEN [client EXCEPT ![c].attempt = @ + 1]
                  ELSE [client EXCEPT ![c].at = "download", ![c].pick = i]
  BY DEF Attempt
<1>3. client'[c] = IF i \in tried THEN [client[c] EXCEPT !.attempt = @ + 1]
                   ELSE [client[c] EXCEPT !.at = "download", !.pick = i]
  BY <1>1, <1>2
<1>4. client'[c].due = due /\ client'[c].tried = tried
  BY <1>1, <1>3 DEF ClientState
<1>5. CASE due \subseteq tried
  BY <1>4, <1>5
<1>6. CASE ~(due \subseteq tried)
  <2>1. PICK W \in SUBSET (tried \cap up) :
          /\ client[c].attempt <=
               Cardinality(due \ up) * (Cardinality(tried \cap up) + 1) + Cardinality(W)
          /\ HadTurn(c, W)
    BY DEF Turning
  <2>2. /\ up \subseteq Mirrors /\ up # {} /\ Cardinality(up) \in Nat \ {0}
        /\ Cardinality(W) \in Nat
    BY <1>6, FewHadTurn
  <2>3. mirror' = mirror /\ up' = up /\ current' = current + 1 /\ client[c].at = "loop"
    BY <2>2 DEF Attempt, Reset, getHealthyMirrors, Mirrors
  <2>4. i \in up /\ Place(i) = current % Cardinality(up)
    BY <2>2 DEF Picks, Choice, selectRoundRobin, Place
  <2>5. PICK q \in Nat : Place(i) + Cardinality(up) * q = Turned(c)
    <3>1. ASSUME NEW x \in Nat, NEW s \in Nat \ {0}
          PROVE  (x % s) + s * (x \div s) = x /\ x \div s \in Nat
      <4>1. x = s * (x \div s) + (x % s)
        OBVIOUS
      <4>2. x \div s \in Nat /\ x % s \in Nat
        OBVIOUS
      <4>3. s * (x \div s) \in Nat
        BY <4>2
      <4>4. QED
        BY <4>1, <4>2, <4>3
    <3>2. Turned(c) = current
      BY <2>3 DEF Turned
    <3>3. QED
      BY <1>1, <2>2, <2>4, <3>1, <3>2
  <2>6. i \in Mirrors
    BY <2>2, <2>4
  <2>7. up' \subseteq due' /\ due' \ up' \subseteq tried' /\ tried' \subseteq due'
        /\ due' = due /\ tried' = tried
    BY <1>4, <2>3 DEF Turning
  <2>8. CASE i \in tried
    <3>1. client'[c].attempt = client[c].attempt + 1 /\ client'[c].at = "loop"
      BY <1>1, <1>3, <2>3, <2>8 DEF ClientState
    <3>2. Turned(c)' = Turned(c) + 1
      BY <1>1, <2>3, <3>1 DEF Turned
    <3>3. HadTurn(c, W \cup {i})' /\ Cardinality(W \cup {i}) = Cardinality(W) + 1
      BY <1>6, <2>1, <2>3, <2>5, <2>6, <3>2, TurnPasses
    <3>4. W \cup {i} \in SUBSET (tried' \cap up')
      BY <2>3, <2>4, <2>7, <2>8
    <3>5. client'[c].attempt <=
            Cardinality(due' \ up') * (Cardinality(tried' \cap up') + 1) + Cardinality(W \cup {i})
      <4>1. PICK a \in Nat, r \in Nat, x \in Int :
              /\ a = client[c].attempt /\ r = Cardinality(W)
              /\ x = Cardinality(due \ up) * (Cardinality(tried \cap up) + 1)
        <5>1. Cardinality(due \ up) \in Nat /\ Cardinality(tried \cap up) \in Nat
          <6>1. due \ up \in SUBSET Mirrors /\ tried \cap up \in SUBSET Mirrors
            BY <1>1, <2>2 DEF ClientState
          <6>2. QED
            BY <6>1, MirrorsCounted
        <5>2. Cardinality(due \ up) * (Cardinality(tried \cap up) + 1) \in Int
          BY <5>1
        <5>3. client[c].attempt \in Nat
          BY <1>1 DEF ClientState
        <5>4. QED
          BY <2>2, <5>2, <5>3
      <4>2. a <= x + r
        BY <2>1, <4>1
      <4>3. a + 1 <= x + (r + 1)
        BY <4>2
      <4>4. QED
        BY <2>3, <2>7, <3>1, <3>3, <4>1, <4>3
    <3>6. Turning(c)'
      BY <2>7, <3>1, <3>3, <3>4, <3>5 DEF Turning
    <3>7. QED
      BY <3>6
  <2>9. CASE i \notin tried
    <3>1. /\ client'[c].attempt = client[c].attempt /\ client'[c].at = "download"
          /\ client'[c].pick = i
      BY <1>1, <1>3, <2>9 DEF ClientState
    <3>2. Turned(c)' = Turned(c)
      BY <1>1, <2>3, <3>1 DEF Turned
    <3>3. \A w : Place(w)' = Place(w)
      BY <2>3 DEF Place
    <3>4. HadTurn(c, W)'
      BY <2>1, <2>3, <3>2, <3>3 DEF HadTurn
    <3>5. client'[c].pick \in up' \ tried'
      BY <2>3, <2>4, <2>7, <2>9, <3>1
    <3>6. (Place(client[c].pick) + Cardinality(up) * q = Turned(c))'
      <4>1. Place(client[c].pick)' = Place(i)
        BY <2>3, <3>1 DEF Place
      <4>2. QED
        BY <2>3, <2>5, <3>2, <4>1
    <3>7. W \in SUBSET (tried' \cap up') /\ client'[c].attempt <=
            Cardinality(due' \ up') * (Cardinality(tried' \cap up') + 1) + Cardinality(W)
      BY <2>1, <2>3, <2>7, <3>1
    <3>8. Turning(c)'
      BY <2>7, <3>4, <3>5, <3>6, <3>7 DEF Turning
    <3>9. QED
      BY <3>8
  <2>10. QED
    BY <2>8, <2>9
<1>7. QED
  BY <1>5, <1>6

(* A mirror fails, and may go down with it. *)
LEMMA FailKeepsTurning ==
  ASSUME ListInv, NEW c \in Clients, Turning(c), Fail(c)
  PROVE  (client[c].due \subseteq client[c].tried \/ Turning(c))'
<1> DEFINE up == getHealthyMirrors
           due == client[c].due
           tried == client[c].tried
<1>0. PICK i : i = client[c].pick
  OBVIOUS
<1>1. client[c] \in ClientState /\ current \in Nat /\ client \in [Clients -> ClientState]
      /\ client[c].at = "download"
  BY DEF ListInv, Fail
<1>2. client' = [client EXCEPT ![c].at = "loop", ![c].pick = 0, ![c].attempt = @ + 1,
                              ![c].tried = @ \cup {client[c].pick}]
  BY DEF Fail
<1>3. /\ client'[c].due = due /\ client'[c].tried = tried \cup {i}
      /\ client'[c].attempt = client[c].attempt + 1 /\ client'[c].at = "loop"
  BY <1>0, <1>1, <1>2 DEF ClientState
<1>4. CASE due \subseteq tried
  BY <1>3, <1>4
<1>5. CASE ~(due \subseteq tried)
  <2>1. PICK W \in SUBSET (tried \cap up) :
          /\ client[c].attempt <=
               Cardinality(due \ up) * (Cardinality(tried \cap up) + 1) + Cardinality(W)
          /\ HadTurn(c, W)
    BY DEF Turning
  <2>2. /\ up \subseteq Mirrors /\ Cardinality(W) \in Nat
        /\ Cardinality(W) <= Cardinality(tried \cap up)
    BY <1>5, FewHadTurn
  <2>3. /\ up \subseteq due /\ due \ up \subseteq tried /\ tried \subseteq due
        /\ i \in up \ tried
    BY <1>0, <1>1 DEF Turning
  <2>4. PICK q \in Nat : Place(i) + Cardinality(up) * q = Turned(c)
    BY <1>0, <1>1 DEF Turning
  <2>5. i \in Mirrors
    BY <2>2, <2>3
  <2>6. Turned(c)' = Turned(c) + 1
    BY <1>1, <1>3 DEF Turned, Fail
  <2>7. /\ due \ up \in SUBSET Mirrors /\ tried \cap up \in SUBSET Mirrors
    BY <1>1, <2>2 DEF ClientState
  <2>8. /\ IsFiniteSet(due \ up) /\ Cardinality(due \ up) \in Nat
        /\ IsFiniteSet(tried \cap up) /\ Cardinality(tried \cap up) \in Nat
    BY <2>7, MirrorsCounted
  <2>9. up' = up \/ up' = up \ {i}
    <3>1. PICK f, h : mirror' = [mirror EXCEPT ![i] = [mirror[i] EXCEPT !.fails = f, !.health = h]]
                      /\ h \in {"down", mirror[i].health}
      <4>1. MarkFailed(i)
        BY <1>0 DEF Fail
      <4>2. mirror[i].health = "up"
        BY <2>3 DEF getHealthyMirrors
      <4>3. \E h : h = IF mirror[i].fails + 1 >= 3 THEN "down" ELSE mirror[i].health
        OBVIOUS
      <4>4. QED
        BY <4>1, <4>3 DEF MarkFailed
    <3>2. mirror[i].health = "up" /\ mirror \in [Mirrors -> MirrorState]
      BY <2>3 DEF getHealthyMirrors, ListInv
    <3>3. \A j \in Mirrors \ {i} : mirror'[j] = mirror[j]
      BY <3>1, <3>2
    <3>4. mirror'[i].health \in {"up", "down"}
      BY <2>5, <3>1, <3>2 DEF MirrorState
    <3>5. QED
      BY <2>5, <3>2, <3>3, <3>4 DEF getHealthyMirrors, Mirrors
  <2>10. PICK a \in Nat, d \in Nat, t \in Nat, r \in Nat :
           /\ a = client[c].attempt /\ d = Cardinality(due \ up)
           /\ t = Cardinality(tried \cap up) /\ r = Cardinality(W)
    BY <1>1, <2>2, <2>8 DEF ClientState
  <2>11. a <= d * (t + 1) + r /\ r <= t
    BY <2>1, <2>2, <2>10
  <2>12. d * (t + 1) \in Nat /\ d * (t + 2) = d * (t + 1) + d /\ (d + 1) * (t + 1) = d * (t + 1) + t + 1
    OBVIOUS
  <2>13. CASE up' = up
    <3>1. HadTurn(c, W \cup {i})' /\ Cardinality(W \cup {i}) = Cardinality(W) + 1
      BY <1>5, <2>1, <2>4, <2>5, <2>6, <2>13, TurnPasses
    <3>2. W \cup {i} \in SUBSET (client'[c].tried \cap up')
      BY <1>3, <2>3, <2>13
    <3>3. client'[c].tried \cap up' = (tried \cap up) \cup {i} /\ i \notin tried \cap up
      BY <1>3, <2>3, <2>13
    <3>4. Cardinality(client'[c].tried \cap up') = t + 1
      <4>1. PICK had : had = tried \cap up
        OBVIOUS
      <4>2. IsFiniteSet(had) /\ Cardinality(had) = t /\ i \notin had
        BY <2>8, <2>10, <3>3, <4>1
      <4>3. Cardinality(had \cup {i}) = t + 1
        BY <4>2, FS_AddElement
      <4>4. QED
        BY <3>3, <4>1, <4>3
    <3>5. client'[c].attempt <=
            Cardinality(client'[c].due \ up') * (Cardinality(client'[c].tried \cap up') + 1)
              + Cardinality(W \cup {i})
      <4>1. a + 1 <= d * (t + 2) + (r + 1)
        BY <2>11, <2>12
      <4>2. d * (t + 2) = d * ((t + 1) + 1)
        OBVIOUS
      <4>3. QED
        BY <1>3, <2>10, <2>13, <3>1, <3>4, <4>1, <4>2
    <3>6. /\ up' \subseteq client'[c].due /\ client'[c].due \ up' \subseteq client'[c].tried
          /\ client'[c].tried \subseteq client'[c].due
      BY <1>3, <2>3, <2>13
    <3>7. Turning(c)'
      BY <1>3, <3>1, <3>2, <3>5, <3>6 DEF Turning
    <3>8. QED
      BY <3>7
  <2>14. CASE up' = up \ {i}
    <3>1. client'[c].tried \cap up' = tried \cap up
      BY <1>3, <2>3, <2>14
    <3>2. client'[c].due \ up' = (due \ up) \cup {i} /\ i \notin due \ up
      BY <1>3, <2>3, <2>14
    <3>3. Cardinality(client'[c].due \ up') = d + 1
      BY <2>8, <2>10, <3>2, FS_AddElement
    <3>4. Cardinality({}) = 0
      BY FS_EmptySet
    <3>5. client'[c].attempt <=
            Cardinality(client'[c].due \ up') * (Cardinality(client'[c].tried \cap up') + 1)
              + Cardinality({})
      <4>1. a + 1 <= (d + 1) * (t + 1) + 0
        BY <2>11, <2>12
      <4>2. QED
        BY <1>3, <2>10, <3>1, <3>3, <3>4, <4>1
    <3>6. HadTurn(c, {})'
      BY DEF HadTurn
    <3>7. /\ up' \subseteq client'[c].due /\ client'[c].due \ up' \subseteq client'[c].tried
          /\ client'[c].tried \subseteq client'[c].due
      BY <1>3, <2>3, <2>14
    <3>8. {} \in SUBSET (client'[c].tried \cap up')
      OBVIOUS
    <3>9. Turning(c)'
      BY <1>3, <3>5, <3>6, <3>7, <3>8 DEF Turning
    <3>10. QED
      BY <3>9
  <2>15. QED
    BY <2>9, <2>13, <2>14
<1>6. QED
  BY <1>4, <1>5

(* Before the rounds are used up, if they are enough, every mirror had a turn. *)
LEMMA AllHadTurn ==
  ASSUME ListInv, NEW c \in Clients, Turning(c), RoundsForAll, client[c].attempt = Rounds
  PROVE  client[c].due \subseteq client[c].tried
<1> DEFINE up == getHealthyMirrors
           due == client[c].due
           tried == client[c].tried
<1> SUFFICES ASSUME ~(due \subseteq tried) PROVE FALSE
  OBVIOUS
<1>1. PICK W \in SUBSET (tried \cap up) :
        client[c].attempt <=
          Cardinality(due \ up) * (Cardinality(tried \cap up) + 1) + Cardinality(W)
  BY DEF Turning
<1>2. /\ up \subseteq Mirrors /\ Cardinality(W) \in Nat /\ Cardinality(up) \in Nat
      /\ Cardinality(W) <= Cardinality(tried \cap up)
      /\ Cardinality(tried \cap up) \in Nat /\ Cardinality(tried \cap up) < Cardinality(up)
  BY FewHadTurn
<1>3. client[c] \in ClientState
  BY DEF ListInv
<1>4. due \in SUBSET Mirrors /\ up \subseteq due
  BY <1>3 DEF ClientState, Turning
<1>5. /\ IsFiniteSet(due) /\ Cardinality(due) \in Nat /\ Cardinality(due) <= Len(Priority)
      /\ Cardinality(due \ up) = Cardinality(due) - Cardinality(up)
      /\ Cardinality(due \ up) \in Nat
  <2>1. IsFiniteSet(due) /\ Cardinality(due) \in Nat /\ Cardinality(due) <= Len(Priority)
    BY <1>4, MirrorsCounted
  <2>2. due \cap up = up /\ due \ up \in SUBSET Mirrors
    BY <1>4
  <2>3. Cardinality(due \ up) = Cardinality(due) - Cardinality(up)
    <3>1. Cardinality(due \ up) = Cardinality(due) - Cardinality(due \cap up)
      BY <2>1, FS_Difference
    <3>2. QED
      BY <2>2, <3>1
  <2>4. Cardinality(due \ up) \in Nat
    BY <2>2, MirrorsCounted
  <2>5. QED
    BY <2>1, <2>3, <2>4
<1>6. PICK d \in Nat, t \in Nat, r \in Nat, n \in Nat :
        /\ d = Cardinality(due \ up) /\ t = Cardinality(tried \cap up)
        /\ r = Cardinality(W) /\ n = Len(Priority)
  BY <1>2, <1>5, MirrorsExist
<1>7. d + t < n /\ r <= t
  BY <1>2, <1>5, <1>6
<1>8. (d + 1) * (t + 1) <= Rounds
  <2>1. PICK x \in Nat, y \in Nat : x = d + 1 /\ y = t + 1
    OBVIOUS
  <2>2. x + y <= Len(Priority) + 1
    <3>1. x + y <= n + 1
      BY <1>7, <2>1
    <3>2. QED
      BY <1>6, <3>1
  <2>3. x * y <= Rounds
    BY <2>2, RoundsSuffice
  <2>4. QED
    BY <2>1, <2>3
<1>9. Rounds <= d * (t + 1) + r
  BY <1>1, <1>6
<1>10. (d + 1) * (t + 1) = d * (t + 1) + t + 1 /\ d * (t + 1) \in Nat
  OBVIOUS
<1>11. Rounds \in Nat
  BY RoundsExist
<1>12. QED
  BY <1>7, <1>8, <1>9, <1>10, <1>11

(* RotationIsComplete for one client. *)
RotatesRight(c) ==
  RoundsForAll /\ strategy = "roundrobin" /\ client[c].result = "failed" /\ client[c].alone
    => client[c].due \subseteq client[c].tried

LEMMA RotationByClient == RotationIsComplete <=> \A c \in Clients : RotatesRight(c)
  BY DEF RotationIsComplete, RotatesRight

(* A step of a download concerns no other: none is undisturbed. *)
LEMMA StepOfOne ==
  ASSUME ListInv, RotationInv, RotationIsComplete, NEW d \in Clients, client[d].at # "rest",
         NEW r, client' = [client EXCEPT ![d] = r], strategy' = strategy,
         r.alone = client[d].alone, r.at # "rest" => r.result = "none",
         Lone(d) /\ r.at # "rest" => (client[d].due \subseteq client[d].tried \/ Turning(d))',
         RotatesRight(d)'
  PROVE  RotationInv' /\ RotationIsComplete'
<1>1. client \in [Clients -> ClientState]
  BY DEF ListInv
<1>2. client'[d] = r /\ \A c \in Clients \ {d} : client'[c] = client[c]
  BY <1>1
<1>3. \A c \in Clients : client'[c].at # "rest" => client'[c].result = "none"
  BY <1>2 DEF RotationInv
<1>4. ASSUME NEW c \in Clients, Lone(c)'
      PROVE  /\ \A e \in Clients \ {c} : client'[e].at = "rest"
             /\ (client[c].due \subseteq client[c].tried \/ Turning(c))'
  <2>1. c = d
    BY <1>2, <1>4 DEF RotationInv, Lone
  <2>2. Lone(d) /\ r.at # "rest"
    BY <1>2, <1>4, <2>1 DEF Lone
  <2>3. \A e \in Clients \ {d} : client[e].at = "rest"
    BY <2>2 DEF RotationInv
  <2>4. QED
    BY <1>2, <2>1, <2>2, <2>3
<1>5. \A c \in Clients : RotatesRight(c)'
  BY <1>2, RotationByClient DEF RotatesRight
<1>6. RotationIsComplete'
  BY <1>5 DEF RotationIsComplete, RotatesRight
<1>7. QED
  BY <1>3, <1>4, <1>6 DEF RotationInv

LEMMA BeginKeepsRotation ==
  ASSUME ListInv, RotationInv, RotationIsComplete, NEW d \in Clients, Begin(d)
  PROVE  RotationInv' /\ RotationIsComplete'
<1> DEFINE begun == [Resting(client[d].count + 1, "none") EXCEPT
                        !.at = "loop", !.due = getHealthyMirrors,
                        !.alone = \A e \in Clients \ {d} : client[e].at = "rest"]
           other(e) == [client[e] EXCEPT !.alone = IF client[e].at = "rest" THEN @ ELSE FALSE]
<1>1. client' = [e \in Clients |-> IF e = d THEN begun ELSE other(e)]
  BY DEF Begin
<1>2. /\ begun.at = "loop" /\ begun.result = "none" /\ begun.attempt = 0
      /\ begun.due = getHealthyMirrors /\ begun.tried = {}
      /\ begun.alone = TRUE => \A e \in Clients \ {d} : client[e].at = "rest"
  <2>1. PICK quiet : quiet = (\A e \in Clients \ {d} : client[e].at = "rest")
    OBVIOUS
  <2>2. begun = [Resting(client[d].count + 1, "none") EXCEPT
                        !.at = "loop", !.due = getHealthyMirrors, !.alone = quiet]
    BY <2>1
  <2> HIDE DEF begun
  <2>3. /\ begun.at = "loop" /\ begun.result = "none" /\ begun.attempt = 0
        /\ begun.due = getHealthyMirrors /\ begun.tried = {} /\ begun.alone = quiet
    BY <2>2 DEF Resting
  <2>4. QED
    BY <2>1, <2>3
<1>3. ASSUME NEW e \in Clients
      PROVE  /\ other(e).at = client[e].at /\ other(e).result = client[e].result
             /\ other(e).due = client[e].due /\ other(e).tried = client[e].tried
             /\ client[e].at = "rest" => other(e).alone = client[e].alone
             /\ client[e].at # "rest" => other(e).alone = FALSE
  <2>1. client[e] \in ClientState
    BY DEF ListInv
  <2>2. QED
    BY <2>1 DEF ClientState
<1>4. mirror' = mirror /\ strategy' = strategy /\ current' = current
  BY DEF Begin
<1> HIDE DEF begun, other
<1>5. client'[d] = begun /\ \A e \in Clients \ {d} : client'[e] = other(e)
  BY <1>1
<1>6. ASSUME NEW e \in Clients, client'[e].at # "rest" PROVE client'[e].result = "none"
  <2>1. CASE e = d
    BY <1>2, <1>5, <2>1
  <2>2. CASE e # d
    <3>1. client'[e].at = client[e].at /\ client'[e].result = client[e].result
      BY <1>3, <1>5, <2>2
    <3>2. QED
      BY <1>6, <3>1 DEF RotationInv
  <2>3. QED
    BY <2>1, <2>2
<1>7. getHealthyMirrors' = getHealthyMirrors /\ getHealthyMirrors \subseteq Mirrors
  BY <1>4 DEF getHealthyMirrors
<1>8. Turning(d)'
  <2>1. /\ getHealthyMirrors' = client'[d].due /\ client'[d].tried = {}
        /\ client'[d].at = "loop" /\ client'[d].attempt = 0
    BY <1>2, <1>5, <1>7
  <2>2. Cardinality({}) = 0
    BY FS_EmptySet
  <2>3. client'[d].due \ getHealthyMirrors' = {} /\ client'[d].tried \cap getHealthyMirrors' = {}
    BY <2>1
  <2>4. client'[d].attempt <=
          Cardinality(client'[d].due \ getHealthyMirrors')
            * (Cardinality(client'[d].tried \cap getHealthyMirrors') + 1) + Cardinality({})
    <3>1. 0 <= 0 * (0 + 1) + 0
      OBVIOUS
    <3>2. QED
      BY <2>1, <2>2, <2>3, <3>1
  <2>5. HadTurn(d, {})'
    BY DEF HadTurn
  <2>6. {} \in SUBSET (client'[d].tried \cap getHealthyMirrors')
    OBVIOUS
  <2>7. QED
    BY <2>1, <2>3, <2>4, <2>5, <2>6 DEF Turning
<1>9. ASSUME NEW c \in Clients, Lone(c)'
      PROVE  /\ \A e \in Clients \ {c} : client'[e].at = "rest"
             /\ (client[c].due \subseteq client[c].tried \/ Turning(c))'
  <2>1. c = d
    BY <1>3, <1>5, <1>9 DEF Lone
  <2>2. \A e \in Clients \ {d} : client[e].at = "rest"
    BY <1>2, <1>5, <1>9, <2>1 DEF Lone
  <2>3. \A e \in Clients \ {d} : client'[e].at = "rest"
    BY <1>3, <1>5, <2>2
  <2>4. QED
    BY <1>8, <2>1, <2>3
<1>10. \A c \in Clients : RotatesRight(c)'
  <2>1. ASSUME NEW c \in Clients, c # d PROVE RotatesRight(c)'
    <3>1. client'[c] = other(c)
      BY <1>5, <2>1
    <3>2. CASE client[c].at = "rest"
      BY <1>3, <1>4, <3>1, <3>2, RotationByClient DEF RotatesRight
    <3>3. CASE client[c].at # "rest"
      BY <1>3, <3>1, <3>3 DEF RotatesRight
    <3>4. QED
      BY <3>2, <3>3
  <2>2. RotatesRight(d)'
    BY <1>2, <1>5 DEF RotatesRight
  <2>3. QED
    BY <2>1, <2>2
<1>11. RotationIsComplete'
  BY <1>10 DEF RotationIsComplete, RotatesRight
<1>12. QED
  BY <1>6, <1>9, <1>11 DEF RotationInv

(* A download ends: as failed, when its rounds are used up. *)
LEMMA EndKeepsRotation ==
  ASSUME ListInv, RotationInv, RotationIsComplete, NEW d \in Clients, client[d].at # "rest",
         NEW result, Ends(d, result), strategy' = strategy,
         result = "failed" => client[d].attempt = Rounds
  PROVE  RotationInv' /\ RotationIsComplete'
<1> DEFINE r == [client[d] EXCEPT !.at = "rest", !.result = result, !.pick = 0]
<1>1. client[d] \in ClientState /\ client \in [Clients -> ClientState]
  BY DEF ListInv
<1>2. client' = [client EXCEPT ![d] = r]
  BY <1>1 DEF Ends
<1>3. /\ r.at = "rest" /\ r.result = result /\ r.alone = client[d].alone
      /\ r.due = client[d].due /\ r.tried = client[d].tried
  BY <1>1 DEF ClientState
<1> HIDE DEF r
<1>4. client'[d] = r
  BY <1>1, <1>2
<1>5. RotatesRight(d)'
  <2> SUFFICES ASSUME RoundsForAll, strategy = "roundrobin", result = "failed", client[d].alone
               PROVE  client[d].due \subseteq client[d].tried
    BY <1>3, <1>4 DEF RotatesRight
  <2>1. client[d].due \subseteq client[d].tried \/ Turning(d)
    BY DEF RotationInv, Lone
  <2>2. QED
    BY <2>1, AllHadTurn
<1>6. QED
  BY <1>2, <1>3, <1>5, StepOfOne

LEMMA RotationStep ==
  ListInv /\ RotationInv /\ RotationIsComplete /\ [MirrorNext]_mirrorVars
    => RotationInv' /\ RotationIsComplete'
<1> SUFFICES ASSUME ListInv, RotationInv, RotationIsComplete, [MirrorNext]_mirrorVars
             PROVE  RotationInv' /\ RotationIsComplete'
  OBVIOUS
<1>0. client \in [Clients -> ClientState]
  BY DEF ListInv
<1>1. CASE \E d \in Clients : Begin(d)
  BY <1>1, BeginKeepsRotation
<1>2. ASSUME NEW d \in Clients, Attempt(d) PROVE RotationInv' /\ RotationIsComplete'
  <2>1. PICK i : client' = IF i \in client[d].tried
                           THEN [client EXCEPT ![d].attempt = @ + 1]
                           ELSE [client EXCEPT ![d].at = "download", ![d].pick = i]
    BY <1>2 DEF Attempt
  <2>2. PICK r : r = IF i \in client[d].tried THEN [client[d] EXCEPT !.attempt = @ + 1]
                     ELSE [client[d] EXCEPT !.at = "download", !.pick = i]
    OBVIOUS
  <2>3. client' = [client EXCEPT ![d] = r]
    BY <1>0, <2>1, <2>2
  <2>4. /\ client[d].at = "loop" /\ strategy' = strategy /\ client[d].result = "none"
    BY <1>2 DEF Attempt, RotationInv
  <2>5. r.at # "rest" /\ r.result = "none" /\ r.alone = client[d].alone
    BY <1>0, <2>2, <2>4 DEF ClientState
  <2>6. Lone(d) => (client[d].due \subseteq client[d].tried \/ Turning(d))'
    <3>1. CASE client[d].due \subseteq client[d].tried
      <4>1. client'[d].due = client[d].due /\ client'[d].tried = client[d].tried
        BY <1>0, <2>2, <2>3 DEF ClientState
      <4>2. QED
        BY <3>1, <4>1
    <3>2. CASE Turning(d)
      BY <1>2, <3>2, AttemptKeepsTurning DEF Lone
    <3>3. QED
      BY <3>1, <3>2 DEF RotationInv
  <2>7. RotatesRight(d)'
    BY <1>0, <2>3, <2>5 DEF RotatesRight
  <2>8. QED
    BY <2>3, <2>4, <2>5, <2>6, <2>7, StepOfOne
<1>3. ASSUME NEW d \in Clients, Fail(d) PROVE RotationInv' /\ RotationIsComplete'
  <2>1. PICK r : r = [client[d] EXCEPT !.at = "loop", !.pick = 0, !.attempt = @ + 1,
                                       !.tried = @ \cup {client[d].pick}]
    OBVIOUS
  <2>2. client' = [client EXCEPT ![d] = r]
    BY <1>0, <1>3, <2>1 DEF Fail
  <2>3. client[d].at = "download" /\ strategy' = strategy /\ client[d].result = "none"
    BY <1>3 DEF Fail, RotationInv
  <2>4. r.at # "rest" /\ r.result = "none" /\ r.alone = client[d].alone
        /\ r.due = client[d].due /\ client[d].tried \subseteq r.tried
    BY <1>0, <2>1, <2>3 DEF ClientState
  <2>5. Lone(d) => (client[d].due \subseteq client[d].tried \/ Turning(d))'
    <3>1. CASE client[d].due \subseteq client[d].tried
      BY <1>0, <2>2, <2>4, <3>1
    <3>2. CASE Turning(d)
      BY <1>3, <3>2, FailKeepsTurning
    <3>3. QED
      BY <3>1, <3>2 DEF RotationInv
  <2>6. RotatesRight(d)'
    BY <1>0, <2>2, <2>4 DEF RotatesRight
  <2>7. QED
    BY <2>2, <2>3, <2>4, <2>5, <2>6, StepOfOne
<1>4. CASE \E d \in Clients : GiveUpMirrors(d)
  <2>1. PICK d \in Clients : GiveUpMirrors(d)
    BY <1>4
  <2>2. /\ client[d].at # "rest" /\ Ends(d, "failed") /\ strategy' = strategy
        /\ client[d].attempt = Rounds
    BY <2>1 DEF GiveUpMirrors, Rounds
  <2>3. QED
    BY <2>2, EndKeepsRotation
<1>5. CASE \E d \in Clients : Cancelled(d)
  <2>1. PICK d \in Clients : Cancelled(d)
    BY <1>5
  <2>2. client[d].at # "rest" /\ Ends(d, "cancelled") /\ strategy' = strategy
    BY <2>1 DEF Cancelled
  <2>3. QED
    BY <2>2, EndKeepsRotation
<1>6. CASE \E d \in Clients : Succeed(d)
  <2>1. PICK d \in Clients : Succeed(d)
    BY <1>6
  <2>2. client[d].at # "rest" /\ Ends(d, "ok") /\ strategy' = strategy
    BY <2>1 DEF Succeed
  <2>3. QED
    BY <2>2, EndKeepsRotation
<1>7. CASE UNCHANGED mirrorVars
  <2>1. /\ client' = client /\ strategy' = strategy /\ current' = current
        /\ getHealthyMirrors' = getHealthyMirrors
    BY <1>7 DEF mirrorVars, getHealthyMirrors
  <2>2. \A i : Place(i)' = Place(i)
    BY <2>1 DEF Place
  <2>3. ASSUME NEW c \in Clients, Turning(c) PROVE Turning(c)'
    <3>1. Turned(c)' = Turned(c)
      BY <2>1 DEF Turned
    <3>2. \A W : HadTurn(c, W) => HadTurn(c, W)'
      BY <2>1, <2>2, <3>1 DEF HadTurn
    <3>3. Place(client[c].pick)' = Place(client[c].pick)
      BY <2>1 DEF Place
    <3>4. QED
      BY <2>1, <2>3, <3>1, <3>2, <3>3 DEF Turning
  <2>4. QED
    BY <2>1, <2>3 DEF RotationInv, RotationIsComplete, Lone
<1>8. QED
  BY <1>1, <1>2, <1>3, <1>4, <1>5, <1>6, <1>7 DEF MirrorNext

(* With (N + 1)^2 / 4 rounds or more for N mirrors, a download by round robin
   that nobody disturbs and that gives up has tried every mirror that was up
   when it began, whatever failures the mirrors came with.                 *)
THEOREM RotationAlwaysComplete == MirrorSpec => []RotationIsComplete
<1>1. MirrorInit => RotationInv /\ RotationIsComplete
  BY DEF MirrorInit, Resting, RotationInv, RotationIsComplete, Lone
<1>2. MirrorSpec => [](RotationInv /\ RotationIsComplete)
  BY <1>1, RotationStep, ListAlways, PTL DEF MirrorSpec
<1>3. QED
  BY <1>2, PTL

-----------------------------------------------------------------------------
Bucket == TypeOK /\ BurstWithinLimit

LEMMA RefillBounds ==
  ASSUME Bucket, NEW e \in Nat
  PROVE  Refill(e) \in Nat /\ Refill(e) <= limit
<1>1. limit \in Nat /\ tokens \in Nat /\ Ticks \in Nat \ {0}
  BY RateLimiterAssumption DEF Bucket, TypeOK
<1>2. e * limit \in Nat
  BY <1>1
<1>3. (e * limit) \div Ticks \in Nat
  BY <1>1, <1>2
<1>4. QED
  BY <1>1, <1>3 DEF Refill, SmallerOf

(* The records a call may be, given the time; TypeOK says so of each. *)
CallRecord(time) ==
  [at : {"idle", "lock", "wait"}, n : Sizes \cup {0}, needed : Nat,
   since : 0 .. time, rate : Limits \cup {FirstLimit, 0}]

LEMMA IdleIsCall == ASSUME NEW time \in Nat PROVE Idle \in CallRecord(time)
  BY DEF Idle, CallRecord

LEMMA TypeOKByCall ==
  TypeOK <=> /\ now \in Nat /\ lastUpdate \in 0 .. now
             /\ limit \in Limits \cup {FirstLimit}
             /\ tokens \in Nat
             /\ call \in [Callers -> CallRecord(now)]
             /\ cancelled \in BOOLEAN /\ granted \in Nat
  BY DEF TypeOK, CallRecord

LEMMA SizesAreBytes ==
  ASSUME Bucket, NEW c \in Callers
  PROVE  call[c].n \in Nat /\ call[c].n \in Sizes \cup {0}
<1>1. call[c] \in CallRecord(now)
  BY TypeOKByCall DEF Bucket
<1>2. call[c].n \in Sizes \cup {0}
  BY <1>1 DEF CallRecord
<1>3. \A s \in Sizes \cup {0} : s \in Nat
  BY RateLimiterAssumption
<1>4. QED
  BY <1>2, <1>3

LEMMA BucketInit == Init => Bucket
<1> SUFFICES ASSUME Init PROVE Bucket
  OBVIOUS
<1>1. call \in [Callers -> CallRecord(now)]
  BY IdleIsCall DEF Init
<1>2. FirstLimit \in Nat /\ 0 \in 0 .. 0
  BY RateLimiterAssumption
<1>3. TypeOK
  BY <1>1, <1>2, TypeOKByCall DEF Init
<1>4. QED
  BY <1>3, RateLimiterAssumption DEF Init, Bucket, BurstWithinLimit

LEMMA CallKeepsBucket ==
  ASSUME Bucket, NEW c \in Callers, NEW n \in Sizes, Call(c, n)
  PROVE  Bucket'
<1>1. [Idle EXCEPT !.at = "lock", !.n = n] \in CallRecord(now)
  BY IdleIsCall DEF Idle, CallRecord, Bucket, TypeOK
<1>2. call' \in [Callers -> CallRecord(now)]
  BY <1>1, TypeOKByCall DEF Call, Bucket
<1>3. now' = now
  BY DEF Call
<1>4. call' \in [Callers -> CallRecord(now)']
  BY <1>2, <1>3 DEF CallRecord
<1>5. QED
  BY <1>4, TypeOKByCall DEF Call, Bucket, BurstWithinLimit, TypeOK, CallRecord

LEMMA TakeKeepsBucket ==
  ASSUME Bucket, NEW c \in Callers, Take(c)
  PROVE  Bucket'
<1> DEFINE available == Refill(now - lastUpdate)
           n == call[c].n
<1>1. now \in Nat /\ lastUpdate \in Nat /\ now - lastUpdate \in Nat
  BY DEF Bucket, TypeOK
<1>2. available \in Nat /\ available <= limit
  BY <1>1, RefillBounds
<1>3. n \in Nat /\ n \in Sizes \cup {0}
  BY SizesAreBytes
<1>4. now' = now /\ limit' = limit /\ lastUpdate' = now /\ cancelled' = cancelled
  BY DEF Take
<1>5. limit \in Nat /\ limit \in Limits \cup {FirstLimit}
  BY RateLimiterAssumption DEF Bucket, TypeOK
<1>6. CASE available >= n
  <2>1. /\ tokens' = available - n /\ granted' = granted + n
        /\ call' = [call EXCEPT ![c] = Idle]
    BY <1>6 DEF Take
  <2>2. tokens' \in Nat /\ tokens' <= limit /\ granted' \in Nat
    BY <1>2, <1>3, <1>5, <1>6, <2>1 DEF Bucket, TypeOK
  <2> HIDE DEF available, n
  <2>3. QED
    BY <1>1, <1>4, <1>5, <2>1, <2>2 DEF Bucket, TypeOK, BurstWithinLimit, Idle
<1>7. CASE ~(available >= n)
  <2>1. /\ tokens' = 0 /\ granted' = granted
        /\ call' = [call EXCEPT ![c] = [at |-> "wait", n |-> n, needed |-> n - available,
                                        since |-> now, rate |-> limit]]
    BY <1>7 DEF Take
  <2>2. n - available \in Nat
    BY <1>2, <1>3, <1>7
  <2>3. n \in Sizes \cup {0}
    BY <1>3
  <2> HIDE DEF available, n
  <2>4. call' \in [Callers -> [at : {"idle", "lock", "wait"}, n : Sizes \cup {0},
                               needed : Nat, since : 0 .. now',
                               rate : Limits \cup {FirstLimit, 0}]]
    BY <1>1, <1>4, <1>5, <2>1, <2>2, <2>3 DEF Bucket, TypeOK
  <2>5. QED
    BY <1>1, <1>4, <1>5, <2>1, <2>4 DEF Bucket, TypeOK, BurstWithinLimit
<1>8. QED
  BY <1>6, <1>7

LEMMA WakeKeepsBucket ==
  ASSUME Bucket, NEW c \in Callers, Wake(c)
  PROVE  Bucket'
<1>1. call[c].n \in Nat
  BY SizesAreBytes
<1>2. granted' \in Nat
  BY <1>1 DEF Wake, Bucket, TypeOK
<1>3. QED
  BY <1>2 DEF Wake, Bucket, TypeOK, BurstWithinLimit, Idle

LEMMA TickKeepsBucket ==
  ASSUME Bucket, Tick
  PROVE  Bucket'
<1>1. now' \in Nat /\ 0 .. now \subseteq 0 .. now'
  BY RateLimiterAssumption DEF Tick, Bucket, TypeOK
<1>2. call' \in [Callers -> [at : {"idle", "lock", "wait"}, n : Sizes \cup {0},
                             needed : Nat, since : 0 .. now',
                             rate : Limits \cup {FirstLimit, 0}]]
  BY <1>1 DEF Tick, Bucket, TypeOK
<1>3. QED
  BY <1>1, <1>2 DEF Tick, Bucket, TypeOK, BurstWithinLimit

LEMMA BucketStep == Bucket /\ [Next]_vars => Bucket'
<1> SUFFICES ASSUME Bucket, [Next]_vars PROVE Bucket'
  OBVIOUS
<1>1. CASE \E c \in Callers, n \in Sizes : Call(c, n)
  BY <1>1, CallKeepsBucket
<1>2. CASE \E c \in Callers : Take(c)
  BY <1>2, TakeKeepsBucket
<1>3. CASE \E c \in Callers : Wake(c)
  BY <1>3, WakeKeepsBucket
<1>4. CASE \E c \in Callers : GiveUp(c)
  BY <1>4 DEF GiveUp, Bucket, TypeOK, BurstWithinLimit, Idle
<1>5. CASE \E l \in Limits : SetLimit(l)
  <2>1. PICK l \in Limits : SetLimit(l)
    BY <1>5
  <2>2. l \in Nat /\ tokens \in Nat
    BY RateLimiterAssumption DEF Bucket, TypeOK
  <2>3. tokens' \in Nat /\ tokens' <= l
    BY <2>1, <2>2 DEF SetLimit, SmallerOf
  <2>4. QED
    BY <2>1, <2>3 DEF SetLimit, Bucket, TypeOK, BurstWithinLimit
<1>6. CASE Cancel
  BY <1>6 DEF Cancel, Bucket, TypeOK, BurstWithinLimit
<1>7. CASE Tick
  BY <1>7, TickKeepsBucket
<1>8. CASE UNCHANGED vars
  BY <1>8 DEF vars, Bucket, TypeOK, BurstWithinLimit
<1>9. QED
  BY <1>1, <1>2, <1>3, <1>4, <1>5, <1>6, <1>7, <1>8 DEF Next

(* The types of the bucket: no step leaves it with fewer than no tokens. *)
THEOREM LimiterTypeCorrect == Spec => []TypeOK
<1>1. Spec => []Bucket
  BY BucketInit, BucketStep, PTL DEF Spec
<1>2. Bucket => TypeOK
  BY DEF Bucket
<1>3. QED  BY <1>1, <1>2, PTL

(* The burst never passes a second of the limit in force (ratelimit.go:28,
   "Allow burst of up to 1 second worth of bytes"), however the limit is
   changed and by however many callers the bucket is used.                 *)
THEOREM BurstBounded == Spec => []BurstWithinLimit
<1>1. Spec => []Bucket
  BY BucketInit, BucketStep, PTL DEF Spec
<1>2. Bucket => BurstWithinLimit
  BY DEF Bucket
<1>3. QED  BY <1>1, <1>2, PTL

-----------------------------------------------------------------------------
(* Sums over the callers, as the number of units there are. *)
Units(f) == {p \in Callers \X Nat : 1 <= p[2] /\ p[2] <= f[p[1]]}
Total(f) == Cardinality(Units(f))

LEMMA CallersCounted == IsFiniteSet(Callers) /\ Cardinality(Callers) \in Nat
  BY RateLimiterAssumption, FS_CardinalityType

LEMMA TotalBound ==
  ASSUME NEW f \in [Callers -> Nat], NEW b \in Nat, \A c \in Callers : f[c] <= b
  PROVE  /\ IsFiniteSet(Units(f)) /\ Total(f) \in Nat
         /\ Total(f) <= Cardinality(Callers) * b
<1> DEFINE box == Callers \X (1 .. b)
<1>1. Units(f) \subseteq box
  <2> SUFFICES ASSUME NEW p \in Units(f) PROVE p \in box
    OBVIOUS
  <2>1. p \in Callers \X Nat /\ 1 <= p[2] /\ p[2] <= f[p[1]]
    BY DEF Units
  <2>2. p[1] \in Callers /\ p[2] \in Nat /\ f[p[1]] \in Nat /\ p[2] <= b
    BY <2>1
  <2>3. p = <<p[1], p[2]>> /\ p[2] \in 1 .. b
    BY <2>1, <2>2
  <2>4. QED
    BY <2>2, <2>3
<1>2. IsFiniteSet(1 .. b) /\ Cardinality(1 .. b) = b
  BY FS_Interval
<1>3. IsFiniteSet(box) /\ Cardinality(box) = Cardinality(Callers) * b
  BY <1>2, CallersCounted, FS_Product
<1> HIDE DEF box
<1>4. IsFiniteSet(Units(f)) /\ Total(f) <= Cardinality(box)
  BY <1>1, <1>3, FS_Subset DEF Total
<1>5. QED
  BY <1>3, <1>4, FS_CardinalityType DEF Total

LEMMA TotalOfNothing ==
  ASSUME NEW f \in [Callers -> Nat], \A c \in Callers : f[c] = 0
  PROVE  Total(f) = 0
<1>1. Units(f) = {}
  <2> SUFFICES ASSUME NEW p \in Units(f) PROVE FALSE
    OBVIOUS
  <2>1. p[1] \in Callers /\ p[2] \in Nat /\ 1 <= p[2] /\ p[2] <= f[p[1]]
    BY DEF Units
  <2>2. QED
    BY <2>1
<1>2. QED
  BY <1>1, FS_EmptySet DEF Total

(* One caller's share grows by d, and so does the sum. *)
LEMMA TotalGrows ==
  ASSUME NEW f \in [Callers -> Nat], IsFiniteSet(Units(f)), NEW c \in Callers, NEW d \in Nat
  PROVE  /\ IsFiniteSet(Units([f EXCEPT ![c] = f[c] + d]))
         /\ Total([f EXCEPT ![c] = f[c] + d]) = Total(f) + d
<1> DEFINE g == [f EXCEPT ![c] = f[c] + d]
           more == {c} \X (f[c] + 1 .. f[c] + d)
<1>0. f[c] \in Nat /\ g \in [Callers -> Nat] /\ g[c] = f[c] + d /\ \A e \in Callers \ {c} : g[e] = f[e]
  OBVIOUS
<1>1. Units(g) = Units(f) \cup more
  <2>1. ASSUME NEW p \in Units(g) PROVE p \in Units(f) \cup more
    <3>1. p \in Callers \X Nat /\ p[1] \in Callers /\ p[2] \in Nat /\ 1 <= p[2] /\ p[2] <= g[p[1]]
      BY <2>1 DEF Units
    <3>2. CASE p[1] = c /\ p[2] > f[c]
      <4>1. p = <<c, p[2]>> /\ p[2] \in f[c] + 1 .. f[c] + d
        BY <1>0, <3>1, <3>2
      <4>2. QED
        BY <4>1
    <3>3. CASE ~(p[1] = c /\ p[2] > f[c])
      <4>1. p[2] <= f[p[1]]
        BY <1>0, <3>1, <3>3
      <4>2. QED
        BY <3>1, <4>1 DEF Units
    <3>4. QED
      BY <3>2, <3>3
  <2>2. ASSUME NEW p \in Units(f) PROVE p \in Units(g)
    <3>1. p \in Callers \X Nat /\ p[1] \in Callers /\ p[2] \in Nat /\ 1 <= p[2] /\ p[2] <= f[p[1]]
      BY <2>2 DEF Units
    <3>2. f[p[1]] <= g[p[1]] /\ f[p[1]] \in Nat /\ g[p[1]] \in Nat
      BY <1>0, <3>1
    <3>3. p[2] <= g[p[1]]
      BY <3>1, <3>2
    <3>4. QED
      BY <3>1, <3>3 DEF Units
  <2>3. ASSUME NEW p \in more PROVE p \in Units(g)
    <3>1. p[1] = c /\ p[2] \in f[c] + 1 .. f[c] + d /\ p = <<p[1], p[2]>>
      BY <2>3
    <3>2. p[2] \in Nat /\ 1 <= p[2] /\ p[2] <= g[c]
      BY <1>0, <3>1
    <3>3. QED
      BY <3>1, <3>2 DEF Units
  <2> HIDE DEF more, g
  <2>4. QED
    BY <2>1, <2>2, <2>3
<1>2. Units(f) \cap more = {}
  <2> SUFFICES ASSUME NEW p \in Units(f), p \in more PROVE FALSE
    OBVIOUS
  <2>1. p[1] = c /\ p[2] \in f[c] + 1 .. f[c] + d
    OBVIOUS
  <2>2. p[2] <= f[c]
    BY <2>1 DEF Units
  <2>3. QED
    BY <1>0, <2>1, <2>2
<1>3. IsFiniteSet(more) /\ Cardinality(more) = d
  <2>1. IsFiniteSet({c}) /\ Cardinality({c}) = 1
    BY FS_Singleton
  <2>2. IsFiniteSet(f[c] + 1 .. f[c] + d) /\ Cardinality(f[c] + 1 .. f[c] + d) = d
    <3>1. PICK low \in Int, high \in Int : low = f[c] + 1 /\ high = f[c] + d
      BY <1>0
    <3>2. /\ IsFiniteSet(low .. high)
          /\ Cardinality(low .. high) = IF low > high THEN 0 ELSE high - low + 1
      BY FS_Interval
    <3>3. (IF low > high THEN 0 ELSE high - low + 1) = d
      BY <1>0, <3>1
    <3>4. QED
      BY <3>1, <3>2, <3>3
  <2> DEFINE interval == f[c] + 1 .. f[c] + d
  <2> HIDE DEF interval
  <2>3. /\ IsFiniteSet({c} \X interval)
        /\ Cardinality({c} \X interval) = Cardinality({c}) * Cardinality(interval)
    BY <2>1, <2>2, FS_Product DEF interval
  <2>4. QED
    BY <2>1, <2>2, <2>3 DEF interval
<1> HIDE DEF more, g
<1>4. /\ IsFiniteSet(Units(g))
      /\ Cardinality(Units(g)) = Cardinality(Units(f)) + d - Cardinality({})
  BY <1>1, <1>2, <1>3, FS_Union
<1>5. Cardinality(Units(g)) = Cardinality(Units(f)) + d
  BY <1>4, FS_EmptySet, FS_CardinalityType
<1>6. QED
  BY <1>4, <1>5 DEF Total, g

LEMMA TotalShrinks ==
  ASSUME NEW f \in [Callers -> Nat], IsFiniteSet(Units(f)), NEW c \in Callers,
         NEW v \in Nat, v <= f[c]
  PROVE  Total(f) = Total([f EXCEPT ![c] = v]) + (f[c] - v)
<1> DEFINE g == [f EXCEPT ![c] = v]
<1>1. g \in [Callers -> Nat] /\ g[c] = v /\ f[c] - v \in Nat /\ f[c] \in Nat
  OBVIOUS
<1>2. f = [g EXCEPT ![c] = g[c] + (f[c] - v)]
  <2>1. g[c] + (f[c] - v) = f[c]
    BY <1>1
  <2>2. f = [g EXCEPT ![c] = f[c]]
    OBVIOUS
  <2> HIDE DEF g
  <2>3. QED
    BY <2>1, <2>2
<1>3. Units(g) \subseteq Units(f)
  <2> SUFFICES ASSUME NEW p \in Units(g) PROVE p \in Units(f)
    OBVIOUS
  <2>1. p \in Callers \X Nat /\ p[1] \in Callers /\ p[2] \in Nat /\ 1 <= p[2] /\ p[2] <= g[p[1]]
    BY DEF Units
  <2>2. g[p[1]] <= f[p[1]] /\ f[p[1]] \in Nat /\ g[p[1]] \in Nat
    BY <1>1, <2>1
  <2>3. QED
    BY <2>1, <2>2 DEF Units
<1>4. IsFiniteSet(Units(g))
  BY <1>3, FS_Subset
<1> HIDE DEF g
<1>5. Total([g EXCEPT ![c] = g[c] + (f[c] - v)]) = Total(g) + (f[c] - v)
  BY <1>1, <1>4, TotalGrows
<1>6. QED
  BY <1>2, <1>5 DEF g

LEMMA TotalChanges ==
  ASSUME NEW f \in [Callers -> Nat], IsFiniteSet(Units(f)), NEW c \in Callers, NEW v \in Nat
  PROVE  /\ IsFiniteSet(Units([f EXCEPT ![c] = v]))
         /\ Total([f EXCEPT ![c] = v]) \in Nat
         /\ Total([f EXCEPT ![c] = v]) = Total(f) - f[c] + v
<1>1. f[c] \in Nat /\ Total(f) \in Nat
  BY FS_CardinalityType DEF Total
<1>2. CASE v <= f[c]
  <2> DEFINE g == [f EXCEPT ![c] = v]
  <2>1. Units(g) \subseteq Units(f)
    <3> SUFFICES ASSUME NEW p \in Units(g) PROVE p \in Units(f)
      OBVIOUS
    <3>1. p \in Callers \X Nat /\ p[1] \in Callers /\ p[2] \in Nat /\ 1 <= p[2] /\ p[2] <= g[p[1]]
      BY DEF Units
    <3>2. g[p[1]] <= f[p[1]] /\ f[p[1]] \in Nat /\ g[p[1]] \in Nat
      BY <1>1, <1>2, <3>1
    <3>3. QED
      BY <3>1, <3>2 DEF Units
  <2>2. IsFiniteSet(Units(g)) /\ Total(g) \in Nat
    BY <2>1, FS_Subset, FS_CardinalityType DEF Total
  <2>3. Total(f) = Total(g) + (f[c] - v)
    BY <1>2, TotalShrinks
  <2> HIDE DEF g
  <2>4. Total(g) = Total(f) - f[c] + v
    BY <1>1, <2>2, <2>3
  <2>5. QED
    BY <2>2, <2>4 DEF g
<1>3. CASE ~(v <= f[c])
  <2>1. PICK d \in Nat : v = f[c] + d
    <3>1. v - f[c] \in Nat /\ v = f[c] + (v - f[c])
      BY <1>1, <1>3
    <3>2. QED
      BY <3>1
  <2>2. /\ IsFiniteSet(Units([f EXCEPT ![c] = f[c] + d]))
        /\ Total([f EXCEPT ![c] = f[c] + d]) = Total(f) + d
    BY TotalGrows
  <2>3. [f EXCEPT ![c] = v] = [f EXCEPT ![c] = f[c] + d]
    BY <2>1
  <2>4. /\ IsFiniteSet(Units([f EXCEPT ![c] = v]))
        /\ Total([f EXCEPT ![c] = v]) = Total(f) + d
    BY <2>2, <2>3
  <2>5. Total(f) + d = Total(f) - f[c] + v
    BY <1>1, <2>1
  <2>6. Total(f) + d \in Nat
    BY <1>1
  <2>7. QED
    BY <2>4, <2>5, <2>6
<1>4. QED
  BY <1>2, <1>3

LEMMA TotalMonotone ==
  ASSUME NEW f \in [Callers -> Nat], NEW g \in [Callers -> Nat], IsFiniteSet(Units(g)),
         \A c \in Callers : f[c] <= g[c]
  PROVE  IsFiniteSet(Units(f)) /\ Total(f) <= Total(g)
<1>1. Units(f) \subseteq Units(g)
  <2> SUFFICES ASSUME NEW p \in Units(f) PROVE p \in Units(g)
    OBVIOUS
  <2>1. p \in Callers \X Nat /\ p[1] \in Callers /\ p[2] \in Nat /\ 1 <= p[2] /\ p[2] <= f[p[1]]
    BY DEF Units
  <2>2. f[p[1]] <= g[p[1]] /\ f[p[1]] \in Nat /\ g[p[1]] \in Nat
    BY <2>1
  <2>3. QED
    BY <2>1, <2>2 DEF Units
<1>2. QED
  BY <1>1, FS_Subset DEF Total

LEMMA ProductMonotone ==
  ASSUME NEW m \in Nat, NEW a \in Nat, NEW b \in Nat, a <= b
  PROVE  m * a \in Nat /\ m * b \in Nat /\ m * a <= m * b
<1>1. PICK d \in Nat : b = a + d
  BY b - a \in Nat
<1>2. m * b = m * a + m * d
  BY <1>1
<1>3. m * a \in Nat /\ m * d \in Nat /\ m * b \in Nat
  BY <1>1
<1>4. QED
  BY <1>2, <1>3

(* The bytes spent are within the limit: a burst, and what a time makes. *)
Paid(spent, time) == spent * Ticks <= MaxLimit * Ticks + MaxLimit * time

(* d bytes in a time of e are within the limit. *)
InTime(d, e) == d * Ticks <= MaxLimit * e

LEMMA PaidByTime ==
  ASSUME NEW s \in Nat, NEW t \in Nat, NEW s2 \in Nat, NEW t2 \in Nat,
         NEW d \in Nat, NEW e \in Nat,
         s2 <= s + d, t + e <= t2, InTime(d, e), Paid(s, t)
  PROVE  Paid(s2, t2)
<1>1. Ticks \in Nat /\ MaxLimit \in Nat
  BY RateLimiterAssumption, MaxLimitAssumption
<1>2. Ticks * s2 <= Ticks * (s + d) /\ Ticks * s2 \in Nat /\ Ticks * (s + d) \in Nat
  BY <1>1, ProductMonotone
<1>3. MaxLimit * (t + e) <= MaxLimit * t2
  BY <1>1, ProductMonotone
<1>4. Ticks * (s + d) = s * Ticks + d * Ticks /\ Ticks * s2 = s2 * Ticks
  BY <1>1
<1>5. MaxLimit * (t + e) = MaxLimit * t + MaxLimit * e
  BY <1>1
<1>6. /\ s * Ticks \in Nat /\ d * Ticks \in Nat /\ s2 * Ticks \in Nat /\ MaxLimit * Ticks \in Nat
      /\ MaxLimit * t \in Nat /\ MaxLimit * e \in Nat /\ MaxLimit * t2 \in Nat
  BY <1>1
<1>7. QED
  BY <1>2, <1>3, <1>4, <1>5, <1>6 DEF Paid, InTime

LEMMA PaidByBurst ==
  ASSUME NEW s \in Nat, NEW t \in Nat, s <= MaxLimit
  PROVE  Paid(s, t)
<1>1. Ticks \in Nat /\ MaxLimit \in Nat
  BY RateLimiterAssumption, MaxLimitAssumption
<1>2. Ticks * s <= Ticks * MaxLimit /\ Ticks * s = s * Ticks /\ Ticks * MaxLimit = MaxLimit * Ticks
  BY <1>1, ProductMonotone
<1>3. s * Ticks \in Nat /\ MaxLimit * Ticks \in Nat /\ MaxLimit * t \in Nat
  BY <1>1
<1>4. QED
  BY <1>2, <1>3 DEF Paid

-----------------------------------------------------------------------------
Waits(c) == call[c].at = "wait"

(* The tokens that a waiting caller took from the bucket. *)
Held == [c \in Callers |-> IF Waits(c) THEN call[c].n - call[c].needed ELSE 0]

(* The time of the window in which a caller has not waited for what it still
   waits for.                                                              *)
Run == [c \in Callers |-> (IF Waits(c) THEN call[c].since ELSE now) - window.time]

(* The bytes that were let through in the window, or may be at once. *)
Spent == (granted - window.granted) + tokens + Total(Held)

(* The time of the window that the bucket was refilled for. *)
Refilled == IF window.time <= lastUpdate THEN lastUpdate - window.time ELSE 0

(* A caller waits for no more than it asked for, has taken no more than the
   bucket holds, and began to wait in the window.                          *)
WaitsInWindow ==
  \A c \in Callers :
    Waits(c) => /\ call[c].needed <= call[c].n
                /\ call[c].n - call[c].needed <= MaxLimit
                /\ window.time <= call[c].since

(* Nothing was let through since the last refill, if that is older than the
   window.                                                                 *)
UntouchedSince ==
  lastUpdate < window.time =>
    granted = window.granted /\ \A c \in Callers : ~Waits(c)

(* Every byte spent was made by a time the bucket was refilled for, or that a
   caller waited: the two are bounded by the window, the one once and the
   other once for each caller.                                             *)
WindowInv ==
  /\ Bucket
  /\ window \in [time : 0 .. now, granted : 0 .. granted]
  /\ WaitsInWindow
  /\ UntouchedSince
  /\ Paid(Spent, Refilled + Total(Run))

(* The types of what is counted. *)
LEMMA WindowFacts ==
  ASSUME Bucket, window \in [time : 0 .. now, granted : 0 .. granted], WaitsInWindow
  PROVE  /\ now \in Nat /\ lastUpdate \in 0 .. now /\ tokens \in Nat /\ granted \in Nat
         /\ limit \in Nat /\ limit <= MaxLimit /\ tokens <= limit
         /\ MaxLimit \in Nat /\ Ticks \in Nat \ {0}
         /\ window.time \in 0 .. now /\ window.granted \in 0 .. granted
         /\ Held \in [Callers -> Nat] /\ IsFiniteSet(Units(Held)) /\ Total(Held) \in Nat
         /\ Run \in [Callers -> Nat] /\ IsFiniteSet(Units(Run)) /\ Total(Run) \in Nat
         /\ Total(Run) <= Cardinality(Callers) * (now - window.time)
         /\ Spent \in Nat /\ Refilled \in Nat
<1>1. /\ now \in Nat /\ lastUpdate \in 0 .. now /\ tokens \in Nat /\ granted \in Nat
      /\ limit \in Limits \cup {FirstLimit} /\ tokens <= limit
  BY DEF Bucket, TypeOK, BurstWithinLimit
<1>2. MaxLimit \in Nat /\ Ticks \in Nat \ {0}
  BY RateLimiterAssumption, MaxLimitAssumption
<1>3. limit \in Nat /\ limit <= MaxLimit
  BY <1>1, RateLimiterAssumption, MaxLimitAssumption
<1>4. window.time \in 0 .. now /\ window.granted \in 0 .. granted
  OBVIOUS
<1>5. ASSUME NEW c \in Callers
      PROVE  /\ call[c].n \in Nat /\ call[c].needed \in Nat /\ call[c].since \in 0 .. now
  <2>1. call[c] \in CallRecord(now)
    BY TypeOKByCall DEF Bucket
  <2>2. QED
    BY <2>1, SizesAreBytes DEF CallRecord
<1>6. ASSUME NEW c \in Callers
      PROVE  /\ Held[c] \in Nat /\ Held[c] <= MaxLimit
             /\ Run[c] \in Nat /\ Run[c] <= now - window.time
  <2>1. CASE Waits(c)
    <3>1. Held[c] = call[c].n - call[c].needed /\ Run[c] = call[c].since - window.time
      BY <2>1 DEF Held, Run
    <3>2. QED
      BY <1>1, <1>2, <1>4, <1>5, <2>1, <3>1 DEF WaitsInWindow
  <2>2. CASE ~Waits(c)
    BY <1>1, <1>2, <1>4, <2>2 DEF Held, Run
  <2>3. QED
    BY <2>1, <2>2
<1>7. Held \in [Callers -> Nat] /\ Run \in [Callers -> Nat]
  <2>1. Held = [c \in Callers |-> Held[c]] /\ Run = [c \in Callers |-> Run[c]]
    BY DEF Held, Run
  <2>2. QED
    BY <1>6, <2>1
<1>8. IsFiniteSet(Units(Held)) /\ Total(Held) \in Nat
  BY <1>2, <1>6, <1>7, TotalBound
<1>9. now - window.time \in Nat
  BY <1>1, <1>4
<1>10. /\ IsFiniteSet(Units(Run)) /\ Total(Run) \in Nat
       /\ Total(Run) <= Cardinality(Callers) * (now - window.time)
  BY <1>6, <1>7, <1>9, TotalBound
<1>11. Spent \in Nat /\ Refilled \in Nat
  BY <1>1, <1>4, <1>8 DEF Spent, Refilled
<1>12. QED
  BY <1>1, <1>2, <1>3, <1>4, <1>7, <1>8, <1>10, <1>11

LEMMA WindowBounds == WindowInv => LimiterBounds
<1> SUFFICES ASSUME WindowInv PROVE LimiterBounds
  OBVIOUS
<1> DEFINE k == Cardinality(Callers)
           x == now - window.time
           g == granted - window.granted
<1>1. /\ k \in Nat /\ x \in Nat /\ g \in Nat /\ MaxLimit \in Nat /\ Ticks \in Nat
      /\ Spent \in Nat /\ Refilled \in Nat /\ Total(Run) \in Nat
      /\ g <= Spent /\ Refilled <= x /\ Total(Run) <= k * x /\ k * x \in Nat
  <2>1. k \in Nat
    BY CallersCounted
  <2>2. k * x \in Nat /\ x \in Nat
    BY <2>1, WindowFacts DEF WindowInv
  <2>3. QED
    BY <2>1, <2>2, WindowFacts DEF WindowInv, Spent, Refilled
<1> HIDE DEF k, x, g
<1>2. Ticks * g <= Ticks * Spent /\ MaxLimit * Refilled <= MaxLimit * x
      /\ MaxLimit * Total(Run) <= MaxLimit * (k * x)
  BY <1>1, ProductMonotone
<1>3. Spent * Ticks <= MaxLimit * Ticks + MaxLimit * Refilled + MaxLimit * Total(Run)
  <2>1. Spent * Ticks <= MaxLimit * Ticks + MaxLimit * (Refilled + Total(Run))
    BY DEF WindowInv, Paid
  <2>2. MaxLimit * (Refilled + Total(Run)) = MaxLimit * Refilled + MaxLimit * Total(Run)
    BY <1>1
  <2>3. MaxLimit * Ticks \in Nat /\ MaxLimit * Refilled \in Nat /\ MaxLimit * Total(Run) \in Nat
    BY <1>1
  <2>4. QED
    BY <2>1, <2>2, <2>3
<1>4. Ticks * g = g * Ticks /\ Ticks * Spent = Spent * Ticks
      /\ (k + 1) * MaxLimit * x = MaxLimit * (k * x) + MaxLimit * x
  BY <1>1
<1>5. /\ g * Ticks \in Nat /\ Spent * Ticks \in Nat /\ MaxLimit * Ticks \in Nat
      /\ MaxLimit * Refilled \in Nat /\ MaxLimit * x \in Nat
      /\ MaxLimit * Total(Run) \in Nat /\ MaxLimit * (k * x) \in Nat
  BY <1>1
<1>6. g * Ticks <= MaxLimit * Ticks + (k + 1) * MaxLimit * x
  BY <1>2, <1>3, <1>4, <1>5
<1>7. GrantBound
  BY <1>6 DEF GrantBound, k, x, g
<1>8. QED
  BY <1>7 DEF LimiterBounds, WindowInv, Bucket

(* What one call holds, and the time it has run for. *)
HeldBy(r) == IF r.at = "wait" THEN r.n - r.needed ELSE 0
RunBy(r) == (IF r.at = "wait" THEN r.since ELSE now) - window.time

(* One caller's call changes. *)
LEMMA CallChanges ==
  ASSUME WindowInv, NEW c \in Callers, NEW r,
         call' = [call EXCEPT ![c] = r], now' = now, window' = window,
         HeldBy(r) \in Nat, RunBy(r) \in Nat
  PROVE  /\ Total(Held)' \in Nat /\ Total(Run)' \in Nat
         /\ Total(Held)' = Total(Held) - HeldBy(call[c]) + HeldBy(r)
         /\ Total(Run)' = Total(Run) - RunBy(call[c]) + RunBy(r)
<1>1. call \in [Callers -> CallRecord(now)]
  BY TypeOKByCall DEF WindowInv, Bucket
<1>2. Held' = [Held EXCEPT ![c] = HeldBy(r)] /\ Held[c] = HeldBy(call[c])
  BY <1>1 DEF Held, HeldBy, Waits
<1>3. Run' = [Run EXCEPT ![c] = RunBy(r)] /\ Run[c] = RunBy(call[c])
  BY <1>1 DEF Run, RunBy, Waits
<1>4. /\ Held \in [Callers -> Nat] /\ IsFiniteSet(Units(Held))
      /\ Run \in [Callers -> Nat] /\ IsFiniteSet(Units(Run))
  BY WindowFacts DEF WindowInv
<1>5. /\ Total([Held EXCEPT ![c] = HeldBy(r)]) \in Nat
      /\ Total([Held EXCEPT ![c] = HeldBy(r)]) = Total(Held) - Held[c] + HeldBy(r)
  BY <1>4, TotalChanges
<1>6. /\ Total([Run EXCEPT ![c] = RunBy(r)]) \in Nat
      /\ Total([Run EXCEPT ![c] = RunBy(r)]) = Total(Run) - Run[c] + RunBy(r)
  BY <1>4, TotalChanges
<1>7. QED
  BY <1>2, <1>3, <1>5, <1>6

(* A call that does not wait, before or after, or that waits no more. *)
LEMMA WaitsRemain ==
  ASSUME WindowInv, NEW c \in Callers, NEW r, r.at # "wait",
         call' = [call EXCEPT ![c] = r], window' = window
  PROVE  WaitsInWindow' /\ \A d \in Callers : ~Waits(d) => ~Waits(d)'
<1>1. call \in [Callers -> CallRecord(now)]
  BY TypeOKByCall DEF WindowInv, Bucket
<1>2. QED
  BY <1>1 DEF WindowInv, WaitsInWindow, Waits

LEMMA CallKeepsWindow ==
  ASSUME WindowInv, NEW c \in Callers, NEW n \in Sizes, Call(c, n), window' = window, Bucket'
  PROVE  WindowInv'
<1> DEFINE r == [Idle EXCEPT !.at = "lock", !.n = n]
<1>1. /\ call' = [call EXCEPT ![c] = r] /\ r.at = "lock" /\ call[c].at = "idle"
      /\ now' = now /\ granted' = granted /\ tokens' = tokens /\ lastUpdate' = lastUpdate
  BY DEF Call, Idle
<1> HIDE DEF r
<1>2. now - window.time \in Nat /\ Total(Held) \in Nat /\ Total(Run) \in Nat
  BY WindowFacts DEF WindowInv
<1>3. /\ HeldBy(r) = 0 /\ RunBy(r) = now - window.time /\ HeldBy(call[c]) = 0
      /\ RunBy(call[c]) = now - window.time
      /\ HeldBy(r) \in Nat /\ RunBy(r) \in Nat
  BY <1>1, <1>2 DEF HeldBy, RunBy
<1>4. Total(Held)' = Total(Held) /\ Total(Run)' = Total(Run)
  <2>1. /\ Total(Held)' = Total(Held) - HeldBy(call[c]) + HeldBy(r)
        /\ Total(Run)' = Total(Run) - RunBy(call[c]) + RunBy(r)
    BY <1>1, <1>3, CallChanges
  <2>2. QED
    BY <1>2, <1>3, <2>1
<1>5. Spent' = Spent /\ Refilled' = Refilled
  BY <1>1, <1>4 DEF Spent, Refilled
<1>6. Paid(Spent, Refilled + Total(Run))'
  BY <1>4, <1>5 DEF WindowInv, Paid
<1>7. WaitsInWindow' /\ UntouchedSince'
  BY <1>1, WaitsRemain DEF WindowInv, UntouchedSince
<1>8. QED
  BY <1>1, <1>6, <1>7 DEF WindowInv

(* The wait of a call ends; of what it waited for, d bytes count. *)
LEMMA WaitEnds ==
  ASSUME WindowInv, NEW c \in Callers, call[c].at = "wait", call' = [call EXCEPT ![c] = Idle],
         UNCHANGED <<now, limit, tokens, lastUpdate, cancelled, window>>,
         NEW d \in Nat, granted' \in Nat,
         \/ granted' = granted
         \/ granted' = granted + call[c].n /\ d = call[c].needed,
         InTime(d, now - call[c].since),
         Bucket'
  PROVE  WindowInv'
<1> DEFINE w == window.time
           e == now - call[c].since
<1>0. now - w \in Nat
  BY WindowFacts DEF WindowInv
<1>1. HeldBy(Idle) = 0 /\ RunBy(Idle) = now - w /\ Idle.at # "wait"
      /\ HeldBy(call[c]) = call[c].n - call[c].needed
      /\ RunBy(call[c]) = call[c].since - w
      /\ HeldBy(Idle) \in Nat /\ RunBy(Idle) \in Nat
  BY <1>0 DEF HeldBy, RunBy, Idle
<1>2. now - w \in Nat /\ Total(Held) \in Nat /\ Total(Run) \in Nat /\ now \in Nat /\ w \in Nat
      /\ tokens \in Nat /\ granted \in Nat /\ window.granted \in 0 .. granted
      /\ Spent \in Nat /\ Refilled \in Nat
  BY WindowFacts DEF WindowInv
<1>3. /\ call[c].n \in Nat /\ call[c].needed \in Nat /\ call[c].since \in 0 .. now
      /\ call[c].needed <= call[c].n /\ w <= call[c].since
  <2>1. call[c] \in CallRecord(now)
    BY TypeOKByCall DEF WindowInv, Bucket
  <2>2. QED
    BY <2>1, SizesAreBytes DEF WindowInv, CallRecord, WaitsInWindow, Waits
<1>4. /\ Total(Held)' \in Nat /\ Total(Run)' \in Nat
      /\ Total(Held)' = Total(Held) - (call[c].n - call[c].needed)
      /\ Total(Run)' = Total(Run) + e
  <2>1. /\ Total(Held)' \in Nat /\ Total(Run)' \in Nat
        /\ Total(Held)' = Total(Held) - HeldBy(call[c]) + HeldBy(Idle)
        /\ Total(Run)' = Total(Run) - RunBy(call[c]) + RunBy(Idle)
    BY <1>1, <1>2, CallChanges
  <2>2. QED
    BY <1>1, <1>2, <1>3, <2>1
<1>5. window' = window /\ granted <= granted'
  BY <1>2, <1>3
<1>6. WaitsInWindow' /\ \A x \in Callers : ~Waits(x) => ~Waits(x)'
  BY <1>1, <1>5, WaitsRemain
<1>7. window' \in [time : 0 .. now', granted : 0 .. granted']
  <2>1. window \in [time : 0 .. now, granted : 0 .. granted] /\ 0 .. granted \subseteq 0 .. granted'
    BY <1>2, <1>5 DEF WindowInv
  <2>2. QED
    BY <1>5, <2>1
<1>8. UntouchedSince'
  <2>1. ~(lastUpdate < window.time)
    BY DEF WindowInv, UntouchedSince, Waits
  <2>2. QED
    BY <1>5, <2>1 DEF UntouchedSince
<1>9. Spent' \in Nat /\ Refilled' \in Nat /\ Total(Run)' \in Nat
  BY <1>2, <1>4, <1>5 DEF Spent, Refilled
<1>10. Spent' <= Spent + d /\ Refilled' = Refilled
  <2>1. Spent' = (granted' - window.granted) + tokens + (Total(Held) - (call[c].n - call[c].needed))
    BY <1>4, <1>5 DEF Spent
  <2>2. Spent = (granted - window.granted) + tokens + Total(Held)
    BY DEF Spent
  <2>3. QED
    BY <1>2, <1>3, <1>5, <2>1, <2>2 DEF Refilled
<1>11. e \in Nat /\ Refilled + Total(Run) + e <= Refilled' + Total(Run)'
  BY <1>2, <1>3, <1>4, <1>10
<1>12. Paid(Spent', Refilled' + Total(Run)')
  <2>1. PICK s \in Nat, t \in Nat, s2 \in Nat, t2 \in Nat, x \in Nat :
          /\ s = Spent /\ t = Refilled + Total(Run)
          /\ s2 = Spent' /\ t2 = Refilled' + Total(Run)' /\ x = e
    BY <1>2, <1>9, <1>11
  <2>2. s2 <= s + d /\ t + x <= t2 /\ InTime(d, x) /\ Paid(s, t)
    BY <1>10, <1>11, <2>1 DEF WindowInv
  <2> HIDE DEF e
  <2>3. Paid(s2, t2)
    BY <2>2, PaidByTime
  <2>4. QED
    BY <2>1, <2>3
<1>13. QED
  BY <1>6, <1>7, <1>8, <1>12 DEF WindowInv, Paid

LEMMA InTimeByRate ==
  ASSUME NEW d \in Nat, NEW e \in Nat, NEW rate \in Limits \cup {FirstLimit, 0},
         d * Ticks <= e * rate
  PROVE  InTime(d, e)
<1>1. rate \in Nat /\ rate <= MaxLimit /\ MaxLimit \in Nat /\ Ticks \in Nat
  BY RateLimiterAssumption, MaxLimitAssumption
<1>2. e * rate <= e * MaxLimit
  BY <1>1, ProductMonotone
<1>3. e * MaxLimit = MaxLimit * e /\ e * rate \in Nat /\ e * MaxLimit \in Nat /\ d * Ticks \in Nat
  BY <1>1
<1>4. QED
  BY <1>2, <1>3 DEF InTime

(* What a refill adds was made by the time it is for. *)
LEMMA RefillEarns ==
  ASSUME Bucket, NEW e \in Nat
  PROVE  \E d \in Nat : Refill(e) = tokens + d /\ InTime(d, e)
<1> DEFINE q == (e * limit) \div Ticks
<1>1. /\ limit \in Nat /\ tokens \in Nat /\ Ticks \in Nat \ {0} /\ tokens <= limit
      /\ limit \in Limits \cup {FirstLimit, 0}
  BY RateLimiterAssumption DEF Bucket, TypeOK, BurstWithinLimit
<1>2. e * limit \in Nat
  BY <1>1
<1>3. q \in Nat /\ q * Ticks <= e * limit
  <2>1. ASSUME NEW x \in Nat, NEW t \in Nat \ {0} PROVE x \div t \in Nat
    OBVIOUS
  <2>2. ASSUME NEW x \in Nat, NEW t \in Nat \ {0} PROVE (x \div t) * t <= x
    OBVIOUS
  <2>3. PICK x \in Nat, t \in Nat \ {0} : x = e * limit /\ t = Ticks
    BY <1>1, <1>2
  <2>4. x \div t \in Nat /\ (x \div t) * t <= x
    BY <2>1, <2>2
  <2>5. QED
    BY <2>3, <2>4
<1>4. PICK d \in Nat : Refill(e) = tokens + d /\ d <= q
  <2>1. CASE tokens + q <= limit
    BY <1>1, <1>3, <2>1 DEF Refill, SmallerOf
  <2>2. CASE ~(tokens + q <= limit)
    <3>1. Refill(e) = limit /\ limit - tokens \in Nat /\ limit - tokens <= q
      BY <1>1, <1>3, <2>2 DEF Refill, SmallerOf
    <3>2. QED
      BY <1>1, <3>1
  <2>3. QED
    BY <2>1, <2>2
<1> HIDE DEF q
<1>5. Ticks * d <= Ticks * q /\ Ticks * d = d * Ticks /\ Ticks * q = q * Ticks
      /\ d * Ticks \in Nat /\ q * Ticks \in Nat
  BY <1>1, <1>3, <1>4, ProductMonotone
<1>6. d * Ticks <= e * limit
  BY <1>2, <1>3, <1>5
<1>7. InTime(d, e)
  BY <1>1, <1>6, InTimeByRate
<1>8. QED
  BY <1>4, <1>7

LEMMA WakeKeepsWindow ==
  ASSUME WindowInv, NEW c \in Callers, Wake(c), window' = window, Bucket'
  PROVE  WindowInv'
<1>1. /\ call[c].n \in Nat /\ call[c].needed \in Nat /\ call[c].since \in 0 .. now
      /\ call[c].rate \in Limits \cup {FirstLimit, 0}
  <2>1. call[c] \in CallRecord(now)
    BY TypeOKByCall DEF WindowInv, Bucket
  <2>2. QED
    BY <2>1, SizesAreBytes DEF WindowInv, CallRecord
<1>2. /\ call[c].at = "wait" /\ call' = [call EXCEPT ![c] = Idle] /\ granted' \in Nat
      /\ UNCHANGED <<now, limit, tokens, lastUpdate, cancelled, window>>
  BY DEF Wake, Bucket, TypeOK
<1>3. now - call[c].since \in Nat /\ Ticks \in Nat /\ MaxLimit \in Nat
  BY <1>1, WindowFacts DEF WindowInv
<1>4. CASE call[c].rate = 0
  <2>1. granted' = granted
    BY <1>4 DEF Wake
  <2>2. InTime(0, now - call[c].since)
    BY <1>3 DEF InTime
  <2>3. PICK d \in Nat : d = 0
    OBVIOUS
  <2>4. QED
    BY <1>2, <2>1, <2>2, <2>3, WaitEnds
<1>5. CASE call[c].rate # 0
  <2>1. granted' = granted + call[c].n
    BY <1>5 DEF Wake
  <2>2. PICK d \in Nat, e \in Nat, rate \in Limits \cup {FirstLimit, 0} :
          d = call[c].needed /\ e = now - call[c].since /\ rate = call[c].rate
    BY <1>1, <1>3
  <2>3. d * Ticks <= e * rate
    <3>1. rate \in Nat
      BY RateLimiterAssumption
    <3>2. e * rate \in Nat /\ d * Ticks \in Nat
      BY <1>3, <3>1
    <3>3. e * rate >= d * Ticks
      BY <1>5, <2>2 DEF Wake
    <3>4. QED
      BY <3>2, <3>3
  <2>4. InTime(d, now - call[c].since)
    BY <2>2, <2>3, InTimeByRate
  <2>5. QED
    BY <1>2, <2>1, <2>2, <2>4, WaitEnds
<1>6. QED
  BY <1>4, <1>5

LEMMA GiveUpKeepsWindow ==
  ASSUME WindowInv, NEW c \in Callers, GiveUp(c), window' = window, Bucket'
  PROVE  WindowInv'
<1>1. call[c].since \in 0 .. now
  <2>1. call[c] \in CallRecord(now)
    BY TypeOKByCall DEF WindowInv, Bucket
  <2>2. QED
    BY <2>1 DEF CallRecord
<1>2. /\ call[c].at = "wait" /\ call' = [call EXCEPT ![c] = Idle]
      /\ granted' = granted /\ granted' \in Nat
      /\ UNCHANGED <<now, limit, tokens, lastUpdate, cancelled, window>>
  BY DEF GiveUp, WindowInv, Bucket, TypeOK
<1>3. now - call[c].since \in Nat /\ Ticks \in Nat /\ MaxLimit \in Nat
  BY <1>1, WindowFacts DEF WindowInv
<1>4. PICK d \in Nat : d = 0
  OBVIOUS
<1>5. InTime(d, now - call[c].since)
  BY <1>3, <1>4 DEF InTime
<1>6. QED
  BY <1>2, <1>4, <1>5, WaitEnds

LEMMA TakeKeepsWindow ==
  ASSUME WindowInv, NEW c \in Callers, Take(c), window' = window, Bucket'
  PROVE  WindowInv'
<1> DEFINE available == Refill(now - lastUpdate)
           n == call[c].n
           w == window.time
<1>1. /\ now \in Nat /\ lastUpdate \in 0 .. now /\ now - lastUpdate \in Nat
      /\ tokens \in Nat /\ granted \in Nat /\ limit \in Nat /\ limit <= MaxLimit /\ MaxLimit \in Nat
      /\ w \in 0 .. now /\ now - w \in Nat /\ window.granted \in 0 .. granted
      /\ Total(Held) \in Nat /\ Total(Run) \in Nat /\ Spent \in Nat /\ Refilled \in Nat
  <2>1. /\ now \in Nat /\ lastUpdate \in 0 .. now
        /\ tokens \in Nat /\ granted \in Nat /\ limit \in Nat /\ limit <= MaxLimit /\ MaxLimit \in Nat
        /\ w \in 0 .. now /\ window.granted \in 0 .. granted
        /\ Total(Held) \in Nat /\ Total(Run) \in Nat /\ Spent \in Nat /\ Refilled \in Nat
    BY WindowFacts DEF WindowInv
  <2>2. QED
    BY <2>1
<1>2. PICK d \in Nat : available = tokens + d /\ InTime(d, now - lastUpdate)
  BY <1>1, RefillEarns DEF WindowInv
<1>3. available \in Nat /\ available <= limit
  BY <1>1, RefillBounds DEF WindowInv
<1>4. n \in Nat
  BY SizesAreBytes DEF WindowInv
<1>5. /\ call[c].at = "lock" /\ now' = now /\ lastUpdate' = now
      /\ HeldBy(call[c]) = 0 /\ RunBy(call[c]) = now - w
  BY DEF Take, HeldBy, RunBy
<1>6. PICK r :
        /\ call' = [call EXCEPT ![c] = r]
        /\ \/ /\ r = Idle /\ tokens' = available - n /\ granted' = granted + n /\ n <= available
           \/ /\ r = [at |-> "wait", n |-> n, needed |-> n - available,
                      since |-> now, rate |-> limit]
              /\ tokens' = 0 /\ granted' = granted /\ ~(n <= available)
  <2>1. CASE available >= n
    <3>1. n <= available
      BY <1>3, <1>4, <2>1
    <3>2. QED
      BY <2>1, <3>1 DEF Take
  <2>2. CASE ~(available >= n)
    <3>1. ~(n <= available)
      BY <1>3, <1>4, <2>2
    <3>2. QED
      BY <2>2, <3>1 DEF Take
  <2>3. QED
    BY <2>1, <2>2
<1> HIDE DEF available, n
<1>7. /\ HeldBy(r) \in Nat /\ RunBy(r) = now - w /\ RunBy(r) \in Nat
      /\ tokens' + granted' + HeldBy(r) = available + granted
      /\ tokens' \in Nat /\ granted' \in Nat /\ granted <= granted'
  <2>1. CASE r.at # "wait"
    BY <1>1, <1>3, <1>4, <1>6, <2>1 DEF HeldBy, RunBy
  <2>2. CASE r.at = "wait"
    <3>1. /\ r.n = n /\ r.needed = n - available /\ r.since = now
          /\ tokens' = 0 /\ granted' = granted
      BY <1>6, <2>2 DEF Idle
    <3>2. QED
      BY <1>1, <1>3, <1>4, <2>2, <3>1 DEF HeldBy, RunBy
  <2>3. QED
    BY <2>1, <2>2
<1>8. /\ Total(Held)' \in Nat /\ Total(Run)' \in Nat
      /\ Total(Held)' = Total(Held) + HeldBy(r) /\ Total(Run)' = Total(Run)
  <2>1. /\ Total(Held)' \in Nat /\ Total(Run)' \in Nat
        /\ Total(Held)' = Total(Held) - HeldBy(call[c]) + HeldBy(r)
        /\ Total(Run)' = Total(Run) - RunBy(call[c]) + RunBy(r)
    BY <1>5, <1>6, <1>7, CallChanges
  <2>2. QED
    BY <1>1, <1>5, <1>7, <2>1
<1>9. Spent' = Spent + d /\ Refilled' = now - w /\ Spent' \in Nat
  <2>1. Spent' = (granted' - window.granted) + tokens' + (Total(Held) + HeldBy(r))
    BY <1>8 DEF Spent
  <2>2. Spent = (granted - window.granted) + tokens + Total(Held)
    BY DEF Spent
  <2>3. Spent' = Spent + d
    BY <1>1, <1>2, <1>7, <2>1, <2>2
  <2>4. QED
    BY <1>1, <1>5, <2>3 DEF Refilled
<1>10. Paid(Spent', Refilled' + Total(Run)')
  <2>1. PICK s2 \in Nat, t2 \in Nat : s2 = Spent' /\ t2 = Refilled' + Total(Run)'
    BY <1>1, <1>8, <1>9
  <2>2. CASE w <= lastUpdate
    <3>1. PICK s \in Nat, t \in Nat, e \in Nat :
            s = Spent /\ t = Refilled + Total(Run) /\ e = now - lastUpdate
      <4>1. Spent \in Nat /\ Refilled + Total(Run) \in Nat /\ now - lastUpdate \in Nat
        BY <1>1
      <4>2. QED
        BY <4>1
    <3>2. s2 <= s + d /\ t + e <= t2 /\ InTime(d, e) /\ Paid(s, t)
      BY <1>1, <1>2, <1>8, <1>9, <2>1, <2>2, <3>1 DEF WindowInv, Refilled
    <3>3. Paid(s2, t2)
      BY <3>2, PaidByTime
    <3>4. QED
      BY <2>1, <3>3
  <2>3. CASE ~(w <= lastUpdate)
    <3>1. granted = window.granted /\ \A x \in Callers : ~Waits(x)
      BY <1>1, <2>3 DEF WindowInv, UntouchedSince
    <3>2. Total(Held) = 0
      <4>1. Held \in [Callers -> Nat] /\ \A x \in Callers : Held[x] = 0
        BY <3>1 DEF Held
      <4>2. QED
        BY <4>1, TotalOfNothing
    <3>3. s2 <= MaxLimit
      BY <1>1, <1>2, <1>3, <1>9, <2>1, <3>1, <3>2 DEF Spent
    <3>4. Paid(s2, t2)
      BY <3>3, PaidByBurst
    <3>5. QED
      BY <2>1, <3>4
  <2>4. QED
    BY <2>2, <2>3
<1>11. WaitsInWindow'
  <2>1. call \in [Callers -> CallRecord(now)]
    BY TypeOKByCall DEF WindowInv, Bucket
  <2>2. ASSUME NEW x \in Callers, Waits(x)'
        PROVE  /\ call'[x].needed <= call'[x].n /\ call'[x].n - call'[x].needed <= MaxLimit
               /\ w <= call'[x].since
    <3>1. CASE x = c
      <4>1. call'[x] = r
        BY <1>6, <2>1, <3>1
      <4>2. /\ r.n = n /\ r.needed = n - available /\ r.since = now
            /\ ~(n <= available)
        BY <1>6, <2>2, <4>1 DEF Waits, Idle
      <4>3. /\ r.needed <= r.n /\ r.n - r.needed <= MaxLimit /\ w <= r.since
        <5>1. /\ n - available <= n /\ n - (n - available) <= MaxLimit
              /\ w <= now
          BY <1>1, <1>3, <1>4, <4>2
        <5>2. QED
          BY <4>2, <5>1
      <4>4. QED
        BY <4>1, <4>3
    <3>2. CASE x # c
      BY <1>6, <2>1, <2>2, <3>2 DEF WindowInv, WaitsInWindow, Waits
    <3>3. QED
      BY <3>1, <3>2
  <2>3. QED
    BY <2>2 DEF WaitsInWindow
<1>12. UntouchedSince'
  <2>1. ~(lastUpdate' < w)
    BY <1>1, <1>5
  <2>2. QED
    BY <2>1 DEF UntouchedSince
<1>13. window' \in [time : 0 .. now', granted : 0 .. granted']
  <2>1. window \in [time : 0 .. now, granted : 0 .. granted] /\ 0 .. granted \subseteq 0 .. granted'
    BY <1>1, <1>7 DEF WindowInv
  <2>2. QED
    BY <1>5, <2>1
<1>14. QED
  BY <1>10, <1>11, <1>12, <1>13 DEF WindowInv, Paid

(* A step that grants nothing, saves nothing up and changes no call, while
   time may pass.                                                          *)
LEMMA RestKeepsWindow ==
  ASSUME WindowInv, Bucket', window' = window, call' = call, granted' = granted,
         lastUpdate' = lastUpdate, tokens' <= tokens, now <= now'
  PROVE  WindowInv'
<1>1. /\ now \in Nat /\ now' \in Nat /\ tokens \in Nat /\ tokens' \in Nat /\ granted \in Nat
      /\ window.time \in 0 .. now /\ window.granted \in 0 .. granted
      /\ Held \in [Callers -> Nat] /\ Run \in [Callers -> Nat] /\ IsFiniteSet(Units(Run))
      /\ Total(Held) \in Nat /\ Total(Run) \in Nat /\ Spent \in Nat /\ Refilled \in Nat
  BY WindowFacts DEF WindowInv, Bucket, TypeOK
<1>2. Held' = Held
  BY DEF Held, Waits
<1>3. ASSUME NEW c \in Callers
      PROVE  Run'[c] \in Nat /\ Run[c] <= Run'[c] /\ Run'[c] <= now' - window.time
  <2>1. call[c].since \in 0 .. now /\ (Waits(c) => window.time <= call[c].since)
    <3>1. call[c] \in CallRecord(now)
      BY TypeOKByCall DEF WindowInv, Bucket
    <3>2. QED
      BY <3>1 DEF CallRecord, WindowInv, WaitsInWindow
  <2>2. CASE Waits(c)
    <3>1. Run[c] = call[c].since - window.time /\ Run'[c] = call[c].since - window.time
      BY <2>2 DEF Run, Waits
    <3>2. QED
      BY <1>1, <2>1, <2>2, <3>1
  <2>3. CASE ~Waits(c)
    <3>1. Run[c] = now - window.time /\ Run'[c] = now' - window.time
      BY <2>3 DEF Run, Waits
    <3>2. QED
      BY <1>1, <3>1
  <2>4. QED
    BY <2>2, <2>3
<1>4. Run' \in [Callers -> Nat]
  <2>1. Run' = [c \in Callers |-> Run'[c]]
    BY DEF Run
  <2>2. QED
    BY <1>3, <2>1
<1>5. now' - window.time \in Nat
  BY <1>1
<1>6. IsFiniteSet(Units(Run')) /\ Total(Run') \in Nat
  BY <1>3, <1>4, <1>5, TotalBound
<1>7. Total(Run) <= Total(Run')
  BY <1>1, <1>3, <1>4, <1>6, TotalMonotone
<1>8. Spent' \in Nat /\ Spent' <= Spent /\ Refilled' = Refilled
  <2>1. Spent' = (granted - window.granted) + tokens' + Total(Held)
    BY <1>2 DEF Spent
  <2>2. Spent = (granted - window.granted) + tokens + Total(Held)
    BY DEF Spent
  <2>3. QED
    BY <1>1, <2>1, <2>2 DEF Refilled
<1>9. Paid(Spent', Refilled' + Total(Run'))
  <2>1. PICK s \in Nat, t \in Nat, s2 \in Nat, t2 \in Nat, d \in Nat, e \in Nat :
          /\ s = Spent /\ t = Refilled + Total(Run)
          /\ s2 = Spent' /\ t2 = Refilled' + Total(Run') /\ d = 0 /\ e = 0
    <3>1. /\ Spent \in Nat /\ Refilled + Total(Run) \in Nat /\ Spent' \in Nat
          /\ Refilled' + Total(Run') \in Nat /\ 0 \in Nat
      BY <1>1, <1>6, <1>8
    <3>2. QED
      BY <3>1
  <2>2. InTime(d, e)
    BY <2>1, RateLimiterAssumption, MaxLimitAssumption DEF InTime
  <2>3. s2 <= s + d /\ t + e <= t2 /\ Paid(s, t)
    BY <1>1, <1>6, <1>7, <1>8, <2>1 DEF WindowInv
  <2>4. Paid(s2, t2)
    BY <2>2, <2>3, PaidByTime
  <2>5. QED
    BY <2>1, <2>4
<1>10. WaitsInWindow' /\ UntouchedSince'
  BY DEF WindowInv, WaitsInWindow, UntouchedSince, Waits
<1>11. window' \in [time : 0 .. now', granted : 0 .. granted']
  <2>1. window \in [time : 0 .. now, granted : 0 .. granted] /\ 0 .. now \subseteq 0 .. now'
    BY <1>1 DEF WindowInv
  <2>2. QED
    BY <2>1
<1>12. QED
  BY <1>9, <1>10, <1>11 DEF WindowInv, Paid

LEMMA WindowOpens ==
  ASSUME Bucket, UNCHANGED vars, window' = [time |-> now, granted |-> granted],
         \A c \in Callers : ~Waits(c)
  PROVE  WindowInv'
<1>1. now \in Nat /\ tokens \in Nat /\ granted \in Nat /\ lastUpdate \in 0 .. now
      /\ limit \in Limits \cup {FirstLimit} /\ tokens <= limit
  BY DEF Bucket, TypeOK, BurstWithinLimit
<1>2. MaxLimit \in Nat /\ tokens <= MaxLimit
  BY <1>1, RateLimiterAssumption, MaxLimitAssumption
<1>3. Total(Held') = 0
  <2>1. Held' \in [Callers -> Nat] /\ \A c \in Callers : Held'[c] = 0
    BY DEF Held, Waits, vars
  <2>2. QED
    BY <2>1, TotalOfNothing
<1>4. Total(Run') = 0
  <2>1. Run' \in [Callers -> Nat] /\ \A c \in Callers : Run'[c] = 0
    BY <1>1 DEF Run, Waits, vars
  <2>2. QED
    BY <2>1, TotalOfNothing
<1>5. Spent' = tokens /\ Refilled' = 0
  <2>1. /\ granted' = granted /\ tokens' = tokens /\ lastUpdate' = lastUpdate
        /\ window'.granted = granted /\ window'.time = now
    BY DEF vars
  <2>2. QED
    BY <1>1, <1>3, <2>1 DEF Spent, Refilled
<1>6. Paid(Spent', Refilled' + Total(Run'))
  <2>1. PICK s \in Nat, t \in Nat : s = Spent' /\ t = Refilled' + Total(Run')
    BY <1>1, <1>4, <1>5
  <2>2. s <= MaxLimit
    BY <1>2, <1>5, <2>1
  <2>3. QED
    BY <2>1, <2>2, PaidByBurst
<1>7. window' \in [time : 0 .. now', granted : 0 .. granted']
  BY <1>1 DEF vars
<1>8. Bucket'
  BY BucketStep
<1>9. WaitsInWindow' /\ UntouchedSince'
  BY DEF WaitsInWindow, UntouchedSince, Waits, vars
<1>10. QED
  BY <1>6, <1>7, <1>8, <1>9 DEF WindowInv, Paid

LEMMA WindowStep == WindowInv /\ [WindowNext]_bucketVars => WindowInv'
<1> SUFFICES ASSUME WindowInv, [WindowNext]_bucketVars PROVE WindowInv'
  OBVIOUS
<1>1. CASE Next /\ UNCHANGED window
  <2>1. Bucket' /\ window' = window
    BY <1>1, BucketStep DEF WindowInv
  <2>2. CASE \E c \in Callers, n \in Sizes : Call(c, n)
    BY <2>1, <2>2, CallKeepsWindow
  <2>3. CASE \E c \in Callers : Take(c)
    BY <2>1, <2>3, TakeKeepsWindow
  <2>4. CASE \E c \in Callers : Wake(c)
    BY <2>1, <2>4, WakeKeepsWindow
  <2>5. CASE \E c \in Callers : GiveUp(c)
    BY <2>1, <2>5, GiveUpKeepsWindow
  <2>6. CASE \E l \in Limits : SetLimit(l)
    <3>1. PICK l \in Limits : SetLimit(l)
      BY <2>6
    <3>2. l \in Nat /\ tokens \in Nat /\ now \in Nat
      BY RateLimiterAssumption DEF WindowInv, Bucket, TypeOK
    <3>3. tokens' <= tokens /\ now <= now'
      BY <3>1, <3>2 DEF SetLimit, SmallerOf
    <3>4. call' = call /\ granted' = granted /\ lastUpdate' = lastUpdate
      BY <3>1 DEF SetLimit
    <3>5. QED
      BY <2>1, <3>3, <3>4, RestKeepsWindow
  <2>7. CASE Cancel \/ Tick
    <3>1. tokens' <= tokens /\ now <= now'
      BY <2>7 DEF Cancel, Tick, WindowInv, Bucket, TypeOK
    <3>2. call' = call /\ granted' = granted /\ lastUpdate' = lastUpdate
      BY <2>7 DEF Cancel, Tick
    <3>3. QED
      BY <2>1, <3>1, <3>2, RestKeepsWindow
  <2>8. QED
    BY <1>1, <2>2, <2>3, <2>4, <2>5, <2>6, <2>7 DEF Next
<1>2. CASE Watch
  BY <1>2, WindowOpens DEF Watch, WindowInv, Waits
<1>3. CASE UNCHANGED bucketVars
  <2>1. Bucket' /\ window' = window
    BY <1>3, BucketStep DEF WindowInv, bucketVars
  <2>2. /\ tokens' <= tokens /\ now <= now'
        /\ call' = call /\ granted' = granted /\ lastUpdate' = lastUpdate
    BY <1>3 DEF bucketVars, vars, WindowInv, Bucket, TypeOK
  <2>3. QED
    BY <2>1, <2>2, RestKeepsWindow
<1>4. QED
  BY <1>1, <1>2, <1>3 DEF WindowNext

LEMMA WindowBegins == WindowInit => WindowInv
<1> SUFFICES ASSUME WindowInit PROVE WindowInv
  OBVIOUS
<1>1. Bucket
  BY BucketInit DEF WindowInit
<1>2. /\ now = 0 /\ granted = 0 /\ lastUpdate = 0 /\ tokens = FirstLimit
      /\ window = [time |-> 0, granted |-> 0]
      /\ \A c \in Callers : ~Waits(c)
  BY DEF WindowInit, Init, Idle, Waits
<1>3. FirstLimit \in Nat /\ FirstLimit <= MaxLimit
  BY RateLimiterAssumption, MaxLimitAssumption
<1>4. Total(Held) = 0
  <2>1. Held \in [Callers -> Nat] /\ \A c \in Callers : Held[c] = 0
    BY <1>2 DEF Held
  <2>2. QED
    BY <2>1, TotalOfNothing
<1>5. Total(Run) = 0
  <2>1. Run \in [Callers -> Nat] /\ \A c \in Callers : Run[c] = 0
    BY <1>2 DEF Run
  <2>2. QED
    BY <2>1, TotalOfNothing
<1>6. Spent = FirstLimit /\ Refilled = 0
  BY <1>2, <1>3, <1>4 DEF Spent, Refilled
<1>7. Paid(Spent, Refilled + Total(Run))
  <2>1. PICK s \in Nat, t \in Nat : s = Spent /\ t = Refilled + Total(Run)
    BY <1>3, <1>5, <1>6
  <2>2. s <= MaxLimit
    BY <1>3, <1>6, <2>1
  <2>3. QED
    BY <2>1, <2>2, PaidByBurst
<1>8. window \in [time : 0 .. now, granted : 0 .. granted]
  BY <1>2
<1>9. WaitsInWindow /\ UntouchedSince
  BY <1>2 DEF WaitsInWindow, UntouchedSince
<1>10. QED
  BY <1>1, <1>7, <1>8, <1>9 DEF WindowInv

(* However the limit is changed, however many callers wait side by side and
   wherever the window begins: no more than a second's worth is saved up, and
   k callers are let through at most k + 1 times the limit, on top of a burst. *)
THEOREM LimiterAlwaysBounds == WindowSpec => []LimiterBounds
<1>1. WindowSpec => []WindowInv
  BY WindowBegins, WindowStep, PTL DEF WindowSpec
<1>2. QED
  BY <1>1, WindowBounds, PTL

-----------------------------------------------------------------------------
(* A sequence ends another if it has its last elements. *)
LastAre(t, n, h, m) == n <= m /\ \A i \in 1 .. n : t[n - i + 1] = h[m - i + 1]
HasLast(t, h) == LastAre(t, Len(t), h, Len(h))

LEMMA SuffixByElement ==
  ASSUME NEW S, NEW t \in Seq(S), NEW h \in Seq(S)
  PROVE  IsSuffix(t, h) <=> HasLast(t, h)
<1>1. PICK n \in Nat, m \in Nat : n = Len(t) /\ m = Len(h)
  OBVIOUS
<1>2. PICK a, b : a = Reverse(t) /\ b = Reverse(h)
  OBVIOUS
<1>3. a = [i \in 1 .. n |-> t[(n - i) + 1]] /\ b = [i \in 1 .. m |-> h[(m - i) + 1]]
  BY <1>1, <1>2 DEF Reverse
<1>4. \A i \in 1 .. n : t[(n - i) + 1] \in S
  BY <1>1
<1>5. \A i \in 1 .. m : h[(m - i) + 1] \in S
  BY <1>1
<1>6. a \in Seq(S) /\ Len(a) = n /\ b \in Seq(S) /\ Len(b) = m
  <2>1. n \in Nat /\ m \in Nat
    OBVIOUS
  <2>2. a \in [1 .. n -> S]
    BY ONLY <1>3, <1>4
  <2>3. b \in [1 .. m -> S]
    BY ONLY <1>3, <1>5
  <2>4. a \in Seq(S) /\ Len(a) = n
    BY ONLY <2>1, <2>2
  <2>5. b \in Seq(S) /\ Len(b) = m
    BY ONLY <2>1, <2>3
  <2>6. QED
    BY ONLY <2>4, <2>5
<1>7. IsSuffix(t, h) <=> n <= m /\ SubSeq(a, 1, n) = SubSeq(b, 1, n)
  BY <1>2, <1>6 DEF IsSuffix, IsPrefix
<1>8. CASE n <= m
  <2>1. /\ SubSeq(a, 1, n) = [i \in 1 .. n |-> a[i]]
        /\ SubSeq(b, 1, n) = [i \in 1 .. n |-> b[i]]
    BY <1>6, <1>8
  <2>2. SubSeq(a, 1, n) = SubSeq(b, 1, n) <=> \A i \in 1 .. n : a[i] = b[i]
    BY <2>1
  <2>3. \A i \in 1 .. n : a[i] = t[n - i + 1] /\ b[i] = h[m - i + 1]
    BY <1>3, <1>8
  <2>4. (\A i \in 1 .. n : a[i] = b[i]) <=> \A i \in 1 .. n : t[n - i + 1] = h[m - i + 1]
    BY ONLY <2>3
  <2>5. HasLast(t, h) <=> LastAre(t, n, h, m)
    BY ONLY <1>1 DEF HasLast
  <2>6. QED
    BY ONLY <1>7, <1>8, <2>2, <2>4, <2>5 DEF LastAre
<1>9. CASE ~(n <= m)
  <2>1. HasLast(t, h) <=> LastAre(t, n, h, m)
    BY ONLY <1>1 DEF HasLast
  <2>2. QED
    BY ONLY <1>7, <1>9, <2>1 DEF LastAre
<1>10. QED
  BY <1>8, <1>9

(* A pattern matches the names it covers, and no others. *)
LEMMA MatchesWhatItCovers ==
  ASSUME NEW p \in Names, NEW h \in Names
  PROVE  matchHostPattern(p, h) <=> CoversHost(p, h)
<1>1. PICK n \in Nat \ {0}, m \in Nat : n = Len(p) /\ m = Len(h)
  BY DEF Names
<1>2. PICK t : t = Tail(p)
  OBVIOUS
<1>3. /\ t \in Seq(Labels) /\ Len(t) = n - 1 /\ h \in Seq(Labels)
      /\ \A i \in 1 .. n - 1 : t[i] = p[i + 1]
  BY <1>1, <1>2 DEF Names
<1>4. IsSuffix(t, h) <=> LastAre(t, n - 1, h, m)
  <2>1. t \in Seq(Labels) /\ h \in Seq(Labels)
    BY <1>3
  <2>2. IsSuffix(t, h) <=> HasLast(t, h)
    BY ONLY <2>1, SuffixByElement
  <2>3. Len(t) = n - 1 /\ Len(h) = m
    BY <1>1, <1>3
  <2>4. QED
    BY ONLY <2>2, <2>3 DEF HasLast
<1>5. LastAre(t, n - 1, h, m) <=> n - 1 <= m /\ \A k \in 0 .. n - 2 : p[n - k] = h[m - k]
  <2>1. n \in Nat \ {0} /\ m \in Nat
    OBVIOUS
  <2>2. ASSUME LastAre(t, n - 1, h, m), NEW k \in 0 .. n - 2 PROVE p[n - k] = h[m - k]
    <3>1. PICK i \in 1 .. n - 1 : i = k + 1
      BY ONLY <2>1, k \in 0 .. n - 2
    <3>2. t[n - 1 - i + 1] = h[m - i + 1]
      BY ONLY <2>2, <3>1 DEF LastAre
    <3>3. n - 1 - i + 1 \in 1 .. n - 1 /\ (n - 1 - i + 1) + 1 = n - k /\ m - i + 1 = m - k
      BY ONLY <2>1, <3>1
    <3>4. t[n - 1 - i + 1] = p[(n - 1 - i + 1) + 1]
      BY ONLY <1>3, <3>3
    <3>5. QED
      BY ONLY <3>2, <3>3, <3>4
  <2>3. ASSUME \A k \in 0 .. n - 2 : p[n - k] = h[m - k], NEW i \in 1 .. n - 1
        PROVE  t[n - 1 - i + 1] = h[m - i + 1]
    <3>1. PICK k \in 0 .. n - 2 : k = i - 1
      BY ONLY <2>1, i \in 1 .. n - 1
    <3>2. p[n - k] = h[m - k]
      BY ONLY <2>3, <3>1
    <3>3. n - 1 - i + 1 \in 1 .. n - 1 /\ (n - 1 - i + 1) + 1 = n - k /\ m - i + 1 = m - k
      BY ONLY <2>1, <3>1, i \in 1 .. n - 1
    <3>4. t[n - 1 - i + 1] = p[(n - 1 - i + 1) + 1]
      BY ONLY <1>3, <3>3
    <3>5. QED
      BY ONLY <3>2, <3>3, <3>4
  <2>4. LastAre(t, n - 1, h, m) => n - 1 <= m
    BY ONLY DEF LastAre
  <2>5. n - 1 <= m /\ (\A i \in 1 .. n - 1 : t[n - 1 - i + 1] = h[m - i + 1])
          => LastAre(t, n - 1, h, m)
    BY ONLY DEF LastAre
  <2>6. QED
    BY ONLY <2>2, <2>3, <2>4, <2>5
<1>6. n > 1 /\ n - 1 <= m <=> n \in 2 .. m + 1
  OBVIOUS
<1>7. QED
  BY <1>1, <1>2, <1>4, <1>5, <1>6 DEF matchHostPattern, CoversHost

IsTable(f) == f = [x \in DOMAIN f |-> f[x]]

(* The tables are functions, of names they may hold. *)
HostInv ==
  /\ IsTable(hostLimits) /\ DOMAIN hostLimits \subseteq Patterns
  /\ IsTable(limiters) /\ DOMAIN limiters \subseteq Hosts
  /\ OwnLimitInForce

LEMMA NewLimiter ==
  ASSUME NEW host, GetLimiter(host)
  PROVE  /\ hostLimits' = hostLimits
         /\ IsTable(limiters)' /\ DOMAIN limiters' = DOMAIN limiters \cup {host}
         /\ \A h \in DOMAIN limiters : limiters'[h] = limiters[h]
         /\ \E l \in LimitsFor(host) : limiters'[host] = NewRateLimiter(l)
<1>1. PICK l \in LimitsFor(host) :
        limiters' = Put(limiters, host, NewRateLimiter(l))
  BY DEF GetLimiter
<1>2. host \notin DOMAIN limiters /\ hostLimits' = hostLimits
  BY DEF GetLimiter
<1>3. QED
  BY <1>1, <1>2 DEF Put, IsTable

LEMMA HostStep == HostInv /\ [HostNext]_hostVars => HostInv'
<1> SUFFICES ASSUME HostInv, [HostNext]_hostVars PROVE HostInv'
  OBVIOUS
<1>1. ASSUME NEW h \in Hosts, GetLimiter(h) PROVE HostInv'
  <2>1. PICK l \in LimitsFor(h) : limiters'[h] = NewRateLimiter(l)
    BY <1>1, NewLimiter
  <2>2. /\ hostLimits' = hostLimits
        /\ IsTable(limiters)' /\ DOMAIN limiters' = DOMAIN limiters \cup {h}
        /\ \A g \in DOMAIN limiters : limiters'[g] = limiters[g]
    BY <1>1, NewLimiter
  <2>3. h \in DOMAIN hostLimits => limiters'[h] \in {hostLimits[h], Nil}
    BY <2>1 DEF LimitsFor, NewRateLimiter
  <2>4. OwnLimitInForce'
    BY <2>2, <2>3 DEF HostInv, OwnLimitInForce
  <2>5. QED
    BY <1>1, <2>2, <2>4 DEF HostInv, IsTable
<1>2. ASSUME NEW p \in Patterns, NEW l \in HostLimits, SetHostLimit(p, l) PROVE HostInv'
  <2>1. /\ hostLimits' = Put(hostLimits, p, l)
        /\ limiters' = IF p \in DOMAIN limiters /\ limiters[p] # Nil
                       THEN [limiters EXCEPT ![p] = l] ELSE limiters
    BY <1>2 DEF SetHostLimit
  <2>2. /\ IsTable(hostLimits)' /\ DOMAIN hostLimits' = DOMAIN hostLimits \cup {p}
        /\ hostLimits'[p] = l
        /\ \A h \in DOMAIN hostLimits \ {p} : hostLimits'[h] = hostLimits[h]
    BY <2>1 DEF Put, IsTable
  <2>3. /\ IsTable(limiters)' /\ DOMAIN limiters' = DOMAIN limiters
        /\ \A h \in DOMAIN limiters \ {p} : limiters'[h] = limiters[h]
        /\ p \in DOMAIN limiters => limiters'[p] \in {l, Nil}
    BY <2>1 DEF HostInv, IsTable
  <2>4. OwnLimitInForce'
    BY <2>2, <2>3 DEF HostInv, OwnLimitInForce
  <2>5. QED
    BY <1>2, <2>2, <2>3, <2>4 DEF HostInv
<1>3. CASE UNCHANGED hostVars
  BY <1>3 DEF hostVars, HostInv, IsTable, OwnLimitInForce
<1>4. QED
  BY <1>1, <1>2, <1>3 DEF HostNext

(* One step of NewLimiterFits. *)
Fits(h) ==
  LET covering == {p \in DOMAIN hostLimits : CoversHost(p, h)}
  IN IF h \in covering THEN limiters'[h] = NewRateLimiter(hostLimits[h])
     ELSE IF covering = {} THEN limiters'[h] = NewRateLimiter(DefaultLimit)
     ELSE \E p \in covering : limiters'[h] = NewRateLimiter(hostLimits[p])

NewOnesFit == \A h \in DOMAIN limiters' \ DOMAIN limiters : Fits(h)

LEMMA NewLimitersFit == HostInv /\ [HostNext]_hostVars => [NewOnesFit]_hostVars
<1> SUFFICES ASSUME HostInv, [HostNext]_hostVars PROVE NewOnesFit
  OBVIOUS
<1>1. ASSUME NEW h \in Hosts, GetLimiter(h) PROVE NewOnesFit
  <2>1. PICK l \in LimitsFor(h) : limiters'[h] = NewRateLimiter(l)
    BY <1>1, NewLimiter
  <2>2. DOMAIN limiters' = DOMAIN limiters \cup {h}
    BY <1>1, NewLimiter
  <2>3. h \in Names /\ DOMAIN hostLimits \subseteq Names
    BY PerHostAssumption DEF HostInv
  <2>4. PICK covering : covering = {p \in DOMAIN hostLimits : CoversHost(p, h)}
    OBVIOUS
  <2>5. covering = {p \in DOMAIN hostLimits : matchHostPattern(p, h)}
    BY <2>3, <2>4, MatchesWhatItCovers
  <2>6. h \in covering <=> h \in DOMAIN hostLimits
    BY <2>4 DEF CoversHost
  <2>7. Fits(h)
    <3>1. CASE h \in DOMAIN hostLimits
      BY <2>1, <2>4, <2>6, <3>1 DEF LimitsFor, Fits
    <3>2. CASE h \notin DOMAIN hostLimits /\ covering = {}
      BY <2>1, <2>4, <2>5, <2>6, <3>2 DEF LimitsFor, Fits
    <3>3. CASE h \notin DOMAIN hostLimits /\ covering # {}
      <4>1. l \in {hostLimits[p] : p \in covering}
        BY <2>5, <3>3 DEF LimitsFor
      <4>2. PICK p \in covering : l = hostLimits[p]
        BY <4>1
      <4>3. QED
        BY <2>1, <2>4, <2>6, <3>3, <4>2 DEF Fits
    <3>4. QED
      BY <3>1, <3>2, <3>3
  <2>8. QED
    BY <2>2, <2>7 DEF NewOnesFit
<1>2. ASSUME NEW p \in Patterns, NEW l \in HostLimits, SetHostLimit(p, l) PROVE NewOnesFit
  <2>1. DOMAIN limiters' = DOMAIN limiters
    BY <1>2 DEF SetHostLimit, HostInv, IsTable
  <2>2. QED
    BY <2>1 DEF NewOnesFit
<1>3. CASE UNCHANGED hostVars
  BY <1>3 DEF hostVars, NewOnesFit
<1>4. QED
  BY <1>1, <1>2, <1>3 DEF HostNext

(* For any hosts, patterns and limits: a host's first download gets the limit
   set for it, else that of a pattern that covers it, else the default, and a
   limit set for the host itself reaches the limiter it has.  Not so a limit
   set later for its domain, nor any limit if it was not limited at first.   *)
THEOREM LimitsAlwaysInForce == HostSpec => LimitsInForce
<1>1. HostInit => HostInv
  BY DEF HostInit, HostInv, IsTable, OwnLimitInForce
<1>2. HostSpec => []HostInv
  BY <1>1, HostStep, PTL DEF HostSpec
<1>3. HostInv => OwnLimitInForce
  BY DEF HostInv
<1>4. HostSpec => [][NewOnesFit]_hostVars
  BY <1>2, NewLimitersFit, PTL DEF HostSpec
<1>5. QED
  BY <1>2, <1>3, <1>4, PTL DEF LimitsInForce, NewLimiterFits, NewOnesFit, Fits

-----------------------------------------------------------------------------
(* A behaviour of the module for TLC is one of each part: the others stand
   still.                                                                  *)
LEMMA PartsStandStill == PartsSpec => WindowSpec /\ HostSpec /\ MirrorSpec
<1>1. PartsInit => WindowInit /\ HostInit /\ MirrorInit
  BY DEF PartsInit
<1>2. [PartsNext]_partsVars => /\ [WindowNext]_bucketVars /\ [HostNext]_hostVars
                               /\ [MirrorNext]_mirrorVars
  BY DEF PartsNext, partsVars
<1>3. QED
  BY <1>1, <1>2, PTL DEF PartsSpec, WindowSpec, HostSpec, MirrorSpec

(* The types of the bucket and of the list of mirrors, in every behaviour
   that is model-checked.                                                  *)
THEOREM PartsTypesOK == PartsSpec => []TypesOK
<1>1. WindowInv /\ MirrorTypeOK => TypesOK
  BY DEF WindowInv, Bucket, TypesOK
<1>2. WindowSpec => []WindowInv
  BY WindowBegins, WindowStep, PTL DEF WindowSpec
<1>3. QED
  BY <1>1, <1>2, PartsStandStill, MirrorTypeCorrect, PTL
=============================================================================
