------------------------------ MODULE InputProofs ------------------------------
(***************************************************************************)
(* The functions that keep no state, for inputs of every size: which rule  *)
(* of a robots.txt decides, the order of a metalink's urls and its pieces, *)
(* the sums of a file, the retries of a call, the names of files and the   *)
(* logins of a netrc.  Each is an induction over the input, by its         *)
(* smallest counterexample.                                                *)
(***************************************************************************)
EXTENDS InputCases, FiniteSetTheorems, SequenceTheorems, WellFoundedInduction, TLAPS

(* Induction: a set of numbers that is not empty has a smallest one. *)
Less == {p \in Nat \X Nat : p[1] < p[2]}

LEMMA LessWellFounded == IsWellFoundedOn(Less, Nat)
  BY NatLessThanWellFounded, Zenon DEF OpToRel, Less

LEMMA Smallest ==
  ASSUME NEW T, T \subseteq Nat, T # {}
  PROVE  Min(T) \in T /\ \A y \in T : Min(T) <= y
<1>1. PICK x \in T : \A y \in T : ~(<<y, x>> \in Less)
  BY LessWellFounded, WFMin
<1>2. \A y \in T : ~(y < x)
  BY <1>1 DEF Less
<1>3. \A y \in T : x <= y
  BY <1>2
<1>4. QED
  BY <1>3 DEF Min

(* A set of numbers up to n has a largest one. *)
LEMMA Largest ==
  ASSUME NEW T, NEW n \in Nat, T \subseteq 0 .. n, T # {}
  PROVE  Max(T) \in T /\ \A y \in T : Max(T) >= y
<1> DEFINE S == {n - x : x \in T}
<1>0. \A x \in T : x \in 0 .. n /\ n - x \in Nat
  OBVIOUS
<1>1. S \subseteq Nat /\ S # {}
  BY <1>0
<1>2. Min(S) \in S /\ \A y \in S : Min(S) <= y
  BY <1>1, Smallest
<1>3. PICK x \in T : Min(S) = n - x
  BY <1>2
<1>4. \A y \in T : x >= y
  <2>1. ASSUME NEW y \in T PROVE x >= y
    <3>1. n - x <= n - y
      BY <1>2, <1>3
    <3>2. x \in Int /\ y \in Int
      OBVIOUS
    <3>3. QED
      BY <3>1, <3>2
  <2>2. QED  BY <2>1
<1>5. QED
  BY <1>4 DEF Max

(* A fold over a sequence of length n is the last value of a function on the
   sets of places, each of which takes its last place away.                *)
FoldRule(iter, n, base, step) ==
  iter = [s \in SUBSET (1 .. n) |->
            IF s = {} THEN base ELSE step[Max(s)][iter[s \ {Max(s)}]]]

LEMMA LastPlace ==
  ASSUME NEW n \in Nat, NEW s \in SUBSET (1 .. n), s # {}
  PROVE  /\ Max(s) \in s /\ Max(s) \in 1 .. n /\ s \ {Max(s)} \in SUBSET (1 .. n)
         /\ s \ {Max(s)} \in SUBSET (1 .. Max(s) - 1)
         /\ n \in s => Max(s) = n
<1>1. PICK m : m = Max(s)
  OBVIOUS
<1>2. m \in s /\ \A y \in s : m >= y
  <2>1. s \subseteq 0 .. n
    OBVIOUS
  <2>2. QED
    BY <1>1, <2>1, Largest
<1>3. m \in 1 .. n /\ \A y \in s : y \in 1 .. n
  BY <1>2
<1>4. s \ {m} \subseteq 1 .. m - 1
  <2> SUFFICES ASSUME NEW y \in s, y # m PROVE y \in 1 .. m - 1
    OBVIOUS
  <2>1. y \in 1 .. n /\ m >= y
    BY <1>2, <1>3
  <2>2. QED
    BY <1>3, <2>1
<1>5. n \in s => m = n
  BY <1>2, <1>3
<1>6. QED
  BY <1>1, <1>2, <1>3, <1>4, <1>5

LEMMA FirstPlaces ==
  ASSUME NEW n \in Nat, NEW k \in 1 .. n
  PROVE  /\ 1 .. k \in SUBSET (1 .. n) /\ 1 .. k # {} /\ Max(1 .. k) = k
         /\ (1 .. k) \ {k} = 1 .. k - 1
<1>1. 1 .. k \in SUBSET (1 .. n) /\ k \in 1 .. k
  OBVIOUS
<1>2. Max(1 .. k) = k
  <2>1. k \in Nat /\ 1 .. k \in SUBSET (1 .. k) /\ 1 .. k # {}
    BY <1>1
  <2>2. QED
    BY <1>1, <2>1, LastPlace
<1>3. (1 .. k) \ {k} = 1 .. k - 1
  OBVIOUS
<1>4. QED
  BY <1>1, <1>2, <1>3

LEMMA FoldGrows ==
  ASSUME NEW X, NEW base \in X, NEW n \in Nat, NEW step \in [1 .. n -> [X -> X]],
         NEW k \in 1 .. n, NEW g \in [SUBSET (1 .. k - 1) -> X],
         FoldRule(g, k - 1, base, step)
  PROVE  \E h \in [SUBSET (1 .. k) -> X] : FoldRule(h, k, base, step)
<1> DEFINE h == [s \in SUBSET (1 .. k) |-> IF k \in s THEN step[k][g[s \ {k}]] ELSE g[s]]
<1>1. k \in Nat /\ k - 1 \in Nat /\ k \notin 1 .. k - 1
  OBVIOUS
<1>2. \A s \in SUBSET (1 .. k) : s \ {k} \in SUBSET (1 .. k - 1)
  OBVIOUS
<1>3. \A s \in SUBSET (1 .. k - 1) : s \in SUBSET (1 .. k) /\ k \notin s
  OBVIOUS
<1>4. \A s \in SUBSET (1 .. k) : k \notin s => s \in SUBSET (1 .. k - 1)
  OBVIOUS
<1>5. h \in [SUBSET (1 .. k) -> X]
  <2> SUFFICES ASSUME NEW s \in SUBSET (1 .. k)
               PROVE  (IF k \in s THEN step[k][g[s \ {k}]] ELSE g[s]) \in X
    OBVIOUS
  <2>1. CASE k \in s
    <3>1. g[s \ {k}] \in X
      BY <1>2
    <3>2. step[k] \in [X -> X]
      OBVIOUS
    <3>3. QED
      BY <2>1, <3>1, <3>2
  <2>2. CASE k \notin s
    BY <1>4, <2>2
  <2>3. QED
    BY <2>1, <2>2
<1>6. ASSUME NEW s \in SUBSET (1 .. k)
      PROVE  h[s] = IF s = {} THEN base ELSE step[Max(s)][h[s \ {Max(s)}]]
  <2>1. CASE k \in s
    <3>1. Max(s) = k /\ s # {}
      BY <1>1, <2>1, LastPlace
    <3>2. h[s \ {k}] = g[s \ {k}]
      BY <1>2, <1>3
    <3>3. QED
      BY <2>1, <3>1, <3>2
  <2>2. CASE k \notin s
    <3>1. s \in SUBSET (1 .. k - 1) /\ h[s] = g[s]
      BY <1>4, <2>2
    <3>2. g[s] = IF s = {} THEN base ELSE step[Max(s)][g[s \ {Max(s)}]]
      BY <3>1 DEF FoldRule
    <3>3. CASE s = {}
      BY <3>1, <3>2, <3>3
    <3>4. CASE s # {}
      <4>1. s \ {Max(s)} \in SUBSET (1 .. k - 1)
        BY <1>1, <3>1, <3>4, LastPlace
      <4>2. h[s \ {Max(s)}] = g[s \ {Max(s)}]
        BY <1>3, <4>1
      <4>3. QED
        BY <3>1, <3>2, <3>4, <4>2
    <3>5. QED
      BY <3>3, <3>4
  <2>3. QED
    BY <2>1, <2>2
<1>7. h = [s \in SUBSET (1 .. k) |-> IF s = {} THEN base ELSE step[Max(s)][h[s \ {Max(s)}]]]
  BY <1>6
<1>8. QED
  BY <1>5, <1>7 DEF FoldRule

LEMMA FoldExists ==
  ASSUME NEW X, NEW base \in X, NEW n \in Nat, NEW step \in [1 .. n -> [X -> X]]
  PROVE  \E iter \in [SUBSET (1 .. n) -> X] : FoldRule(iter, n, base, step)
<1> DEFINE has(k) == \E g \in [SUBSET (1 .. k) -> X] : FoldRule(g, k, base, step)
           bad == {k \in 0 .. n : ~has(k)}
<1>1. has(0)
  <2> DEFINE g == [s \in SUBSET (1 .. 0) |-> base]
  <2>1. \A s \in SUBSET (1 .. 0) : s = {}
    OBVIOUS
  <2>2. g = [s \in SUBSET (1 .. 0) |-> IF s = {} THEN base ELSE step[Max(s)][g[s \ {Max(s)}]]]
    BY <2>1
  <2>3. g \in [SUBSET (1 .. 0) -> X] /\ FoldRule(g, 0, base, step)
    BY <2>2 DEF FoldRule
  <2>4. QED
    BY <2>3
<1>2. ASSUME NEW k \in 1 .. n, has(k - 1) PROVE has(k)
  BY <1>2, FoldGrows
<1> HIDE DEF has
<1>3. bad = {}
  <2> SUFFICES ASSUME bad # {} PROVE FALSE
    OBVIOUS
  <2>1. PICK k : k = Min(bad)
    OBVIOUS
  <2>2. k \in bad /\ \A j \in bad : k <= j
    <3>1. bad \subseteq Nat
      OBVIOUS
    <3> HIDE DEF bad
    <3>2. QED
      BY <2>1, <3>1, Smallest
  <2>3. k \in 1 .. n /\ k - 1 \in 0 .. n /\ ~(k <= k - 1)
    BY <1>1, <2>2
  <2>4. has(k - 1)
    BY <2>2, <2>3
  <2>5. QED
    BY <1>2, <2>2, <2>3, <2>4
<1>4. has(n)
  BY <1>3
<1>5. QED
  BY <1>4 DEF has

-----------------------------------------------------------------------------
(* Of the numbers of M up to k, if there are some, one has the greatest length. *)
HasLongest(M, len, k) ==
  LET upTo == {i \in M : i <= k}
  IN upTo # {} => \E i \in upTo : \A j \in upTo : len[j] <= len[i]

LEMMA OneMore ==
  ASSUME NEW n \in Nat, NEW M, M \subseteq 1 .. n, NEW len \in [1 .. n -> Nat],
         NEW k \in 1 .. n, HasLongest(M, len, k - 1)
  PROVE  HasLongest(M, len, k)
<1> DEFINE before == {i \in M : i <= k - 1}
           upTo == {i \in M : i <= k}
<1>0. \A i \in M : i \in Int /\ (i <= k <=> i <= k - 1 \/ i = k)
  OBVIOUS
<1>1. upTo = IF k \in M THEN before \cup {k} ELSE before
  <2>1. CASE k \in M
    <3>1. upTo = before \cup {k}
      BY <1>0, <2>1
    <3>2. QED
      BY <2>1, <3>1
  <2>2. CASE k \notin M
    <3>1. upTo = before
      BY <1>0, <2>2
    <3>2. QED
      BY <2>2, <3>1
  <2>3. QED
    BY <2>1, <2>2
<1>2. \A i \in upTo : len[i] \in Nat
  OBVIOUS
<1>3. before # {} => \E i \in before : \A j \in before : len[j] <= len[i]
  BY DEF HasLongest
<1>4. SUFFICES ASSUME upTo # {} PROVE \E i \in upTo : \A j \in upTo : len[j] <= len[i]
  BY DEF HasLongest
<1>5. before \subseteq upTo
  BY <1>1
<1> HIDE DEF before, upTo
<1>6. CASE before = {}
  <2>1. upTo = {k}
    BY <1>1, <1>4, <1>6
  <2>2. QED
    BY <1>2, <2>1
<1>7. CASE before # {}
  <2>1. PICK i \in before : \A j \in before : len[j] <= len[i]
    BY <1>3, <1>7
  <2>2. i \in upTo /\ len[i] \in Nat
    BY <1>2, <1>5, <2>1
  <2>3. CASE k \in M /\ len[i] < len[k]
    <3>1. upTo = before \cup {k} /\ k \in upTo
      BY <1>1, <2>3
    <3>2. \A j \in upTo : len[j] <= len[k]
      BY <1>2, <2>1, <2>2, <2>3, <3>1
    <3>3. QED
      BY <3>1, <3>2
  <2>4. CASE ~(k \in M /\ len[i] < len[k])
    <3>1. \A j \in upTo : len[j] <= len[i]
      BY <1>1, <1>2, <2>1, <2>2, <2>4
    <3>2. QED
      BY <2>2, <3>1
  <2>5. QED
    BY <2>3, <2>4
<1>8. QED
  BY <1>6, <1>7

(* Of some numbered things that have lengths one is the longest. *)
LEMMA LongestExists ==
  ASSUME NEW n \in Nat, NEW M, M \subseteq 1 .. n, M # {}, NEW len \in [1 .. n -> Nat]
  PROVE  \E i \in M : \A j \in M : len[j] <= len[i]
<1> DEFINE bad == {k \in 0 .. n : ~HasLongest(M, len, k)}
<1>1. bad = {}
  <2> SUFFICES ASSUME bad # {} PROVE FALSE
    OBVIOUS
  <2>1. PICK k : k = Min(bad)
    OBVIOUS
  <2>2. k \in bad /\ \A j \in bad : k <= j
    <3>1. bad \subseteq Nat
      OBVIOUS
    <3> HIDE DEF bad
    <3>2. QED
      BY <2>1, <3>1, Smallest
  <2>3. k # 0
    <3>0. \A i \in M : i \in Nat /\ ~(i <= 0)
      OBVIOUS
    <3>1. {i \in M : i <= 0} = {}
      BY <3>0
    <3>2. QED
      BY <2>2, <3>1 DEF HasLongest
  <2>4. k \in 1 .. n /\ k - 1 \in 0 .. n /\ ~(k <= k - 1)
    BY <2>2, <2>3
  <2>5. HasLongest(M, len, k - 1)
    BY <2>2, <2>4
  <2>6. QED
    BY <2>2, <2>4, <2>5, OneMore
<1>2. HasLongest(M, len, n) /\ {i \in M : i <= n} = M
  <2>1. n \in 0 .. n
    OBVIOUS
  <2>2. \A i \in M : i <= n
    OBVIOUS
  <2>3. HasLongest(M, len, n)
    BY <1>1, <2>1
  <2>4. QED
    BY <2>2, <2>3
<1>3. QED
  BY <1>2 DEF HasLongest

(* The rules that decide for a path. *)
Deciding(path, rules) ==
  LET matching == {r \in ToSet(rules) : matchesRobotsPath(path, r.path)}
  IN {r \in matching : \A q \in matching : Len(q.path) <= Len(r.path)}

VerdictOf(verdict, path, rules) ==
  \/ verdict = TRUE /\ \A r \in ToSet(rules) : ~matchesRobotsPath(path, r.path)
  \/ \E r \in Deciding(path, rules) : r.allowed = verdict

Matching(path, rules) == {i \in DOMAIN rules : matchesRobotsPath(path, rules[i].path)}

(* One rule decides, if any matches: the longest, of several the first. *)
Decides(m, path, rules) ==
  /\ m \in Matching(path, rules)
  /\ \A j \in Matching(path, rules) :
       \/ Len(rules[j].path) < Len(rules[m].path)
       \/ Len(rules[j].path) = Len(rules[m].path) /\ m <= j

LEMMA FirstOfLongest ==
  ASSUME NEW Ch, NEW path, NEW rules \in Seq([path : Seq(Ch), allowed : BOOLEAN]),
         Matching(path, rules) # {}
  PROVE  \E m \in DOMAIN rules :
           Decides(m, path, rules) /\ checkRules(path, rules) = rules[m].allowed
<1> DEFINE R == [path : Seq(Ch), allowed : BOOLEAN]
           n == Len(rules)
           M == {i \in DOMAIN rules : matchesRobotsPath(path, rules[i].path)}
           longest == {i \in M : \A j \in M : Len(rules[j].path) <= Len(rules[i].path)}
           len == [i \in 1 .. n |-> Len(rules[i].path)]
<1>1. n \in Nat /\ DOMAIN rules = 1 .. n /\ \A i \in 1 .. n : rules[i] \in R
  BY LenProperties, ElementOfSeq
<1>2. M # {} /\ M = Matching(path, rules)
  BY DEF Matching
<1>3. \A i \in 1 .. n : rules[i].path \in Seq(Ch) /\ Len(rules[i].path) \in Nat
  BY <1>1
<1>4. len \in [1 .. n -> Nat] /\ \A i \in 1 .. n : len[i] = Len(rules[i].path)
  BY <1>3
<1>5. M \subseteq 1 .. n
  BY <1>1
<1> HIDE DEF len
<1>6. PICK i \in M : \A j \in M : len[j] <= len[i]
  BY <1>1, <1>2, <1>4, <1>5, LongestExists
<1>7. longest # {} /\ longest \subseteq Nat /\ longest \subseteq 1 .. n
  <2>1. longest \subseteq M /\ M \subseteq Nat
    BY <1>5
  <2>2. \A j \in M : len[j] = Len(rules[j].path)
    BY <1>4, <1>5
  <2>3. i \in longest
    BY <1>6, <2>2
  <2> HIDE DEF longest
  <2>4. QED
    BY <1>5, <2>1, <2>3
<1>8. PICK m : m = Min(longest)
  OBVIOUS
<1>9. m \in longest /\ \A j \in longest : m <= j
  BY <1>7, <1>8, Smallest
<1>10. checkRules(path, rules) = rules[m].allowed
  <2>1. checkRules(path, rules) = (M = {} \/ rules[m].allowed)
    BY <1>8, Zenon DEF checkRules
  <2>2. rules[m] \in R
    BY <1>1, <1>7, <1>9
  <2>3. rules[m].allowed \in BOOLEAN
    BY <2>2
  <2>4. QED
    BY <1>2, <2>1, <2>3, Zenon
<1>11. Decides(m, path, rules)
  <2>1. m \in M /\ \A j \in M : Len(rules[j].path) <= Len(rules[m].path)
    BY <1>9
  <2>2. ASSUME NEW j \in M, ~(Len(rules[j].path) < Len(rules[m].path))
        PROVE  Len(rules[j].path) = Len(rules[m].path) /\ m <= j
    <3>1. Len(rules[j].path) \in Nat /\ Len(rules[m].path) \in Nat
      BY <1>3, <1>5, <2>1
    <3>2. Len(rules[j].path) = Len(rules[m].path)
      BY <2>1, <2>2, <3>1
    <3>3. j \in longest
      BY <2>1, <3>2
    <3>4. QED
      BY <1>9, <3>2, <3>3
  <2>3. QED
    BY <1>2, <2>1, <2>2 DEF Decides
<1>12. m \in DOMAIN rules
  BY <1>1, <1>7, <1>9
<1>13. QED
  BY <1>10, <1>11, <1>12

(* However many rules a robots.txt has, the longest that matches a path
   decides, of several as long the first, and without any it is allowed.   *)
THEOREM LongestAlwaysDecides ==
  ASSUME NEW Ch,
         subject = "rules" =>
           input.rules \in Seq([path : Seq(Ch), allowed : BOOLEAN])
  PROVE  LongestDecides
<1> SUFFICES ASSUME subject = "rules",
                    NEW path, path = input.path, NEW rules, rules = input.rules
             PROVE  IF Matching(path, rules) = {} THEN checkRules(path, rules) = TRUE
                    ELSE \E m \in DOMAIN rules :
                           Decides(m, path, rules) /\ checkRules(path, rules) = rules[m].allowed
  BY DEF LongestDecides, Decides, Matching
<1>1. rules \in Seq([path : Seq(Ch), allowed : BOOLEAN])
  OBVIOUS
<1>2. CASE Matching(path, rules) = {}
  BY <1>2 DEF checkRules, Matching
<1>3. CASE Matching(path, rules) # {}
  <2>1. \E m \in DOMAIN rules :
          Decides(m, path, rules) /\ checkRules(path, rules) = rules[m].allowed
    BY ONLY <1>1, <1>3, FirstOfLongest
  <2>2. QED
    BY <1>3, <2>1
<1>4. QED
  BY <1>2, <1>3

(* A verdict is that of one of the longest rules that match, if one does. *)
LEMMA VerdictOfLongest ==
  ASSUME NEW Ch, NEW path, NEW rules \in Seq([path : Seq(Ch), allowed : BOOLEAN])
  PROVE  VerdictOf(checkRules(path, rules), path, rules)
<1>1. /\ DOMAIN rules = 1 .. Len(rules) /\ Len(rules) \in Nat
      /\ \A i \in DOMAIN rules : rules[i] \in [path : Seq(Ch), allowed : BOOLEAN]
  BY LenProperties, ElementOfSeq
<1>2. ToSet(rules) = {rules[i] : i \in DOMAIN rules}
  BY DEF ToSet
<1>3. CASE Matching(path, rules) = {}
  <2>1. checkRules(path, rules) = TRUE
    BY <1>3 DEF checkRules, Matching
  <2>2. \A r \in ToSet(rules) : ~matchesRobotsPath(path, r.path)
    BY <1>2, <1>3 DEF Matching
  <2>3. QED
    BY <2>1, <2>2 DEF VerdictOf
<1>4. CASE Matching(path, rules) # {}
  <2>1. PICK m \in DOMAIN rules :
          Decides(m, path, rules) /\ checkRules(path, rules) = rules[m].allowed
    BY <1>4, FirstOfLongest
  <2>2. rules[m] \in ToSet(rules) /\ matchesRobotsPath(path, rules[m].path)
    BY <1>2, <2>1 DEF Decides, Matching
  <2>3. ASSUME NEW q \in ToSet(rules), matchesRobotsPath(path, q.path)
        PROVE  Len(q.path) <= Len(rules[m].path)
    <3>1. PICK j \in DOMAIN rules : q = rules[j]
      BY <1>2
    <3>2. j \in Matching(path, rules)
      BY <2>3, <3>1 DEF Matching
    <3>3. Len(rules[j].path) \in Nat /\ Len(rules[m].path) \in Nat
      BY <1>1
    <3>4. \/ Len(rules[j].path) < Len(rules[m].path)
          \/ Len(rules[j].path) = Len(rules[m].path)
      BY <2>1, <3>2 DEF Decides
    <3>5. QED
      BY <3>1, <3>3, <3>4
  <2>4. rules[m] \in Deciding(path, rules)
    BY <2>2, <2>3 DEF Deciding
  <2>5. QED
    BY <2>1, <2>4 DEF VerdictOf
<1>5. QED
  BY <1>3, <1>4

(* A sequence has what it has backwards. *)
LEMMA ReverseHasSame ==
  ASSUME NEW S, NEW s \in Seq(S)
  PROVE  Reverse(s) \in Seq(S) /\ ToSet(Reverse(s)) = ToSet(s)
<1>1. Len(s) \in Nat /\ DOMAIN s = 1 .. Len(s) /\ \A i \in 1 .. Len(s) : s[i] \in S
  BY LenProperties, ElementOfSeq
<1>2. PICK n \in Nat : n = Len(s)
  BY <1>1
<1>3. Reverse(s) = [i \in 1 .. n |-> s[(n - i) + 1]]
  BY <1>2 DEF Reverse
<1>4. \A i \in 1 .. n : (n - i) + 1 \in 1 .. n /\ (n - ((n - i) + 1)) + 1 = i
  OBVIOUS
<1>5. Reverse(s) \in [1 .. n -> S]
  BY <1>1, <1>2, <1>3, <1>4
<1>6. Reverse(s) \in Seq(S) /\ DOMAIN Reverse(s) = 1 .. n
  BY <1>5
<1>7. /\ ToSet(s) = {s[i] : i \in 1 .. n}
      /\ ToSet(Reverse(s)) = {s[(n - i) + 1] : i \in 1 .. n}
  <2>1. PICK r : r = Reverse(s)
    OBVIOUS
  <2>2. DOMAIN r = 1 .. n /\ \A i \in 1 .. n : r[i] = s[(n - i) + 1]
    BY <1>3, <2>1
  <2>3. ToSet(r) = {r[i] : i \in 1 .. n} /\ ToSet(s) = {s[i] : i \in 1 .. n}
    BY <1>1, <1>2, <2>2 DEF ToSet
  <2>4. {r[i] : i \in 1 .. n} = {s[(n - i) + 1] : i \in 1 .. n}
    BY <2>2
  <2>5. QED
    BY <2>1, <2>3, <2>4
<1>8. \A i \in 1 .. n : s[i] = s[(n - ((n - i) + 1)) + 1] /\ (n - i) + 1 \in 1 .. n
  BY <1>4
<1>9. QED
  BY <1>6, <1>7, <1>8

(* However many rules a robots.txt has, their order decides only between rules
   of the same length that contradict each other.                          *)
THEOREM VerdictAlwaysIgnoresOrder ==
  ASSUME NEW Ch,
         subject = "rules" =>
           input.rules \in Seq([path : Seq(Ch), allowed : BOOLEAN])
  PROVE  VerdictIgnoresOrder
<1> DEFINE R == [path : Seq(Ch), allowed : BOOLEAN]
           path == input.path
           rules == input.rules
           back == Reverse(rules)
<1> SUFFICES ASSUME subject = "rules", checkRules(path, rules) # checkRules(path, back)
             PROVE  {r.allowed : r \in Deciding(path, rules)} = BOOLEAN
  BY DEF VerdictIgnoresOrder, Deciding
<1>1. rules \in Seq(R) /\ back \in Seq(R) /\ ToSet(back) = ToSet(rules)
  BY ReverseHasSame
<1>2. Deciding(path, back) = Deciding(path, rules)
  BY <1>1 DEF Deciding
<1>3. PICK p, q : p = checkRules(path, rules) /\ q = checkRules(path, back)
  OBVIOUS
<1>4. VerdictOf(p, path, rules)
  BY <1>1, <1>3, VerdictOfLongest
<1>5. VerdictOf(q, path, rules)
  <2>1. VerdictOf(q, path, back)
    BY <1>1, <1>3, VerdictOfLongest
  <2> HIDE DEF back, rules
  <2>2. QED
    BY <1>1, <1>2, <2>1 DEF VerdictOf
<1>6. \A r \in Deciding(path, rules) :
        r \in ToSet(rules) /\ matchesRobotsPath(path, r.path)
  BY DEF Deciding
<1>7. \A r \in ToSet(rules) : r.allowed \in BOOLEAN
  <2>1. \A r \in R : r.allowed \in BOOLEAN
    OBVIOUS
  <2>2. \A i \in DOMAIN rules : rules[i] \in R
    BY <1>1, LenProperties, ElementOfSeq
  <2>3. QED
    BY <2>1, <2>2 DEF ToSet
<1>8. p # q
  BY <1>3
<1> HIDE DEF path, rules, back
<1>9. /\ \E r \in Deciding(path, rules) : r.allowed = p
      /\ \E r \in Deciding(path, rules) : r.allowed = q
  <2>1. CASE \A r \in ToSet(rules) : ~matchesRobotsPath(path, r.path)
    <3>1. Deciding(path, rules) = {}
      BY <1>6, <2>1
    <3>2. p = TRUE /\ q = TRUE
      BY <1>4, <1>5, <3>1, Zenon DEF VerdictOf
    <3>3. QED
      BY <1>8, <3>2
  <2>2. CASE ~\A r \in ToSet(rules) : ~matchesRobotsPath(path, r.path)
    BY <1>4, <1>5, <2>2, Zenon DEF VerdictOf
  <2>3. QED
    BY <2>1, <2>2
<1>10. p \in BOOLEAN /\ q \in BOOLEAN
  BY <1>6, <1>7, <1>9
<1>11. QED
  BY <1>6, <1>7, <1>8, <1>9, <1>10

-----------------------------------------------------------------------------
(* The sort of a metalink's urls. *)
Url == [place : Nat, priority : Int]

SwapRule(v, u, j) ==
  \/ v = u /\ u[j].priority <= u[j + 1].priority
  \/ /\ u[j + 1].priority < u[j].priority
     /\ v[j] = u[j + 1] /\ v[j + 1] = u[j]
     /\ \A p \in DOMAIN u : p \notin {j, j + 1} => v[p] = u[p]

LEMMA SwapIs ==
  ASSUME NEW n \in Nat, NEW u \in [1 .. n -> Url], NEW j \in 1 .. n - 1
  PROVE  SwapIfGreater(u, j) \in [1 .. n -> Url] /\ SwapRule(SwapIfGreater(u, j), u, j)
<1>1. j \in 1 .. n /\ j + 1 \in 1 .. n /\ j # j + 1
  OBVIOUS
<1>2. u[j] \in Url /\ u[j + 1] \in Url
  BY <1>1
<1>3. u[j].priority \in Int /\ u[j + 1].priority \in Int
  BY <1>2 DEF Url
<1>4. CASE u[j].priority > u[j + 1].priority
  <2>1. PICK v : v = [u EXCEPT ![j] = u[j + 1], ![j + 1] = u[j]]
    OBVIOUS
  <2>2. v \in [1 .. n -> Url] /\ v[j] = u[j + 1] /\ v[j + 1] = u[j]
        /\ \A p \in DOMAIN u : p \notin {j, j + 1} => v[p] = u[p]
    BY <1>1, <1>2, <2>1
  <2>3. SwapIfGreater(u, j) = v
    BY <1>4, <2>1 DEF SwapIfGreater
  <2>4. u[j + 1].priority < u[j].priority
    BY <1>3, <1>4
  <2>5. QED
    BY <2>2, <2>3, <2>4 DEF SwapRule
<1>5. CASE ~(u[j].priority > u[j + 1].priority)
  <2>1. SwapIfGreater(u, j) = u
    BY <1>5 DEF SwapIfGreater
  <2>2. u[j].priority <= u[j + 1].priority
    BY <1>3, <1>5
  <2>3. QED
    BY <2>1, <2>2 DEF SwapRule
<1>6. QED
  BY <1>4, <1>5

(* What remains true of the urls: they are those of the metalink, and two of
   the same priority are in its order.                                     *)
Sorting(u, n, priorities) ==
  /\ u \in [1 .. n -> Url]
  /\ \A p \in 1 .. n : u[p].place \in 1 .. n /\ u[p].priority = priorities[u[p].place]
  /\ \A l \in 1 .. n : \E p \in 1 .. n : u[p].place = l
  /\ \A p, q \in 1 .. n :
       p < q /\ u[p].priority = u[q].priority => u[p].place < u[q].place

(* The last i urls follow all others, and each other. *)
Settled(u, n, i) ==
  \A p \in n - i + 1 .. n, q \in 1 .. n : q < p => u[q].priority <= u[p].priority

(* Of the first k + 1 urls none comes after the last of them. *)
Bubbled(u, k) == \A q \in 1 .. k : u[q].priority <= u[k + 1].priority

LEMMA SwapKeepsSorting ==
  ASSUME NEW n \in Nat, NEW u, NEW priorities, NEW j \in 1 .. n - 1,
         Sorting(u, n, priorities)
  PROVE  Sorting(SwapIfGreater(u, j), n, priorities)
<1>1. u \in [1 .. n -> Url]
  BY DEF Sorting
<1>2. PICK v \in [1 .. n -> Url] : v = SwapIfGreater(u, j) /\ SwapRule(v, u, j)
  BY <1>1, SwapIs
<1>3. CASE v = u
  BY <1>2, <1>3
<1>4. CASE v # u
  <2>1. /\ u[j + 1].priority < u[j].priority
        /\ v[j] = u[j + 1] /\ v[j + 1] = u[j]
        /\ \A p \in 1 .. n : p \notin {j, j + 1} => v[p] = u[p]
    BY <1>1, <1>2, <1>4 DEF SwapRule
  <2>2. j \in 1 .. n /\ j + 1 \in 1 .. n
    OBVIOUS
  <2>3. ASSUME NEW p \in 1 .. n
        PROVE  v[p].place \in 1 .. n /\ v[p].priority = priorities[v[p].place]
    <3>1. \A q \in 1 .. n : u[q].place \in 1 .. n /\ u[q].priority = priorities[u[q].place]
      BY DEF Sorting
    <3>2. \E q \in 1 .. n : v[p] = u[q]
      BY <2>1, <2>2
    <3>3. QED
      BY <3>1, <3>2
  <2>4. ASSUME NEW l \in 1 .. n PROVE \E p \in 1 .. n : v[p].place = l
    <3>1. PICK p \in 1 .. n : u[p].place = l
      BY DEF Sorting
    <3>2. CASE p = j
      BY <2>1, <2>2, <3>1, <3>2
    <3>3. CASE p = j + 1
      BY <2>1, <2>2, <3>1, <3>3
    <3>4. CASE p \notin {j, j + 1}
      BY <2>1, <3>1, <3>4
    <3>5. QED
      BY <3>2, <3>3, <3>4
  <2>5. ASSUME NEW p \in 1 .. n, NEW q \in 1 .. n, p < q, v[p].priority = v[q].priority
        PROVE  v[p].place < v[q].place
    <3>1. ASSUME NEW a \in 1 .. n, NEW b \in 1 .. n, a < b, u[a].priority = u[b].priority
          PROVE  u[a].place < u[b].place
      BY <3>1 DEF Sorting
    <3>2. u[j].priority \in Int /\ u[j + 1].priority \in Int
      BY <1>1, <2>2 DEF Url
    <3>3. CASE p \notin {j, j + 1} /\ q \notin {j, j + 1}
      BY <2>1, <2>5, <3>1, <3>3
    <3>4. CASE p = j
      <4>1. q # j + 1 /\ j + 1 < q
        BY <2>1, <2>2, <2>5, <3>2, <3>4
      <4>2. v[q] = u[q] /\ v[p] = u[j + 1]
        BY <2>1, <2>5, <3>4, <4>1
      <4>3. QED
        BY <2>2, <2>5, <3>1, <4>1, <4>2
    <3>5. CASE p = j + 1
      <4>1. q \notin {j, j + 1} /\ j < q
        BY <2>2, <2>5, <3>5
      <4>2. v[q] = u[q] /\ v[p] = u[j]
        BY <2>1, <3>5, <4>1
      <4>3. QED
        BY <2>2, <2>5, <3>1, <4>1, <4>2
    <3>6. CASE p \notin {j, j + 1} /\ q = j
      <4>1. p < j + 1 /\ v[p] = u[p] /\ v[q] = u[j + 1]
        BY <2>1, <2>2, <2>5, <3>6
      <4>2. QED
        BY <2>2, <2>5, <3>1, <4>1
    <3>7. CASE p \notin {j, j + 1} /\ q = j + 1
      <4>1. p < j /\ v[p] = u[p] /\ v[q] = u[j]
        BY <2>1, <2>2, <2>5, <3>7
      <4>2. QED
        BY <2>2, <2>5, <3>1, <4>1
    <3>8. QED
      BY <3>3, <3>4, <3>5, <3>6, <3>7
  <2>6. QED
    BY <1>2, <2>3, <2>4, <2>5 DEF Sorting
<1>5. QED
  BY <1>3, <1>4

LEMMA SwapBubbles ==
  ASSUME NEW n \in Nat, NEW u \in [1 .. n -> Url], NEW i \in 1 .. n - 1, NEW k \in 1 .. n - i,
         Settled(u, n, i - 1), Bubbled(u, k - 1)
  PROVE  Settled(SwapIfGreater(u, k), n, i - 1) /\ Bubbled(SwapIfGreater(u, k), k)
<1>1. k \in 1 .. n - 1 /\ k \in 1 .. n /\ k + 1 \in 1 .. n
  OBVIOUS
<1>2. PICK v \in [1 .. n -> Url] : v = SwapIfGreater(u, k) /\ SwapRule(v, u, k)
  BY <1>1, SwapIs
<1>3. \A p \in 1 .. n : u[p].priority \in Int /\ v[p].priority \in Int
  BY DEF Url
<1>4. \A q \in 1 .. k - 1 : u[q].priority <= u[k].priority
  <2>1. (k - 1) + 1 = k
    BY <1>1
  <2>2. QED
    BY <2>1 DEF Bubbled
<1>5. CASE v = u /\ u[k].priority <= u[k + 1].priority
  <2>1. ASSUME NEW q \in 1 .. k PROVE u[q].priority <= u[k + 1].priority
    <3>1. CASE q = k
      BY <1>5, <3>1
    <3>2. CASE q # k
      <4>1. q \in 1 .. k - 1 /\ q \in 1 .. n
        BY <1>1, <3>2
      <4>2. u[q].priority <= u[k].priority
        BY <1>4, <4>1
      <4>3. QED
        BY <1>1, <1>3, <1>5, <4>1, <4>2
    <3>3. QED
      BY <3>1, <3>2
  <2>2. QED
    BY <1>2, <1>5, <2>1 DEF Bubbled
<1>6. CASE /\ u[k + 1].priority < u[k].priority
           /\ v[k] = u[k + 1] /\ v[k + 1] = u[k]
           /\ \A p \in 1 .. n : p \notin {k, k + 1} => v[p] = u[p]
  <2>1. ASSUME NEW q \in 1 .. k PROVE v[q].priority <= v[k + 1].priority
    <3>1. CASE q = k
      BY <1>1, <1>3, <1>6, <3>1
    <3>2. CASE q # k
      <4>1. q \in 1 .. k - 1 /\ q \in 1 .. n /\ q \notin {k, k + 1}
        BY <1>1, <3>2
      <4>2. v[q] = u[q] /\ u[q].priority <= u[k].priority
        BY <1>4, <1>6, <4>1
      <4>3. QED
        BY <1>6, <4>2
    <3>3. QED
      BY <3>1, <3>2
  <2>2. ASSUME NEW p \in n - (i - 1) + 1 .. n, NEW q \in 1 .. n, q < p
        PROVE  v[q].priority <= v[p].priority
    <3>1. p \in 1 .. n /\ k < p /\ k + 1 < p /\ p \notin {k, k + 1}
      BY <1>1
    <3>2. v[p] = u[p]
      BY <1>6, <3>1
    <3>3. ASSUME NEW r \in 1 .. n, r < p PROVE u[r].priority <= u[p].priority
      BY <3>3 DEF Settled
    <3>4. CASE q = k
      BY <1>1, <1>6, <3>1, <3>2, <3>3, <3>4
    <3>5. CASE q = k + 1
      BY <1>1, <1>6, <3>1, <3>2, <3>3, <3>5
    <3>6. CASE q \notin {k, k + 1}
      BY <1>6, <2>2, <3>2, <3>3, <3>6
    <3>7. QED
      BY <3>4, <3>5, <3>6
  <2>3. QED
    BY <1>2, <2>1, <2>2 DEF Bubbled, Settled
<1>7. QED
  BY <1>2, <1>5, <1>6 DEF SwapRule

LEMMA PassSettles ==
  ASSUME NEW n \in Nat, NEW u \in [1 .. n -> Url], NEW i \in 1 .. n - 1,
         Settled(u, n, i - 1), Bubbled(u, n - i)
  PROVE  Settled(u, n, i)
<1> SUFFICES ASSUME NEW p \in n - i + 1 .. n, NEW q \in 1 .. n, q < p
             PROVE  u[q].priority <= u[p].priority
  BY DEF Settled
<1>1. CASE p = n - i + 1
  <2>1. q \in 1 .. n - i /\ (n - i) + 1 = p
    BY <1>1
  <2>2. QED
    BY <2>1 DEF Bubbled
<1>2. CASE p # n - i + 1
  <2>1. p \in n - (i - 1) + 1 .. n
    BY <1>2
  <2>2. QED
    BY <2>1 DEF Settled
<1>3. QED
  BY <1>1, <1>2

(* A pass as a sequence of swaps. *)
LEMMA PassIs ==
  ASSUME NEW n \in Nat, NEW u \in [1 .. n -> Url], NEW m \in 0 .. n - 1
  PROVE  \E h : /\ h[0] = u
                /\ \A k \in 1 .. m : h[k] = SwapIfGreater(h[k - 1], k)
                /\ FoldLeft(SwapIfGreater, u, [j \in 1 .. m |-> j]) = h[m]
<1> DEFINE X == [1 .. n -> Url]
           seq == [j \in 1 .. m |-> j]
           step == [k \in 1 .. m |-> [x \in X |-> SwapIfGreater(x, k)]]
           Rule(iter) == iter = [s \in SUBSET DOMAIN seq |->
                                   IF s = {} THEN u
                                   ELSE SwapIfGreater(iter[s \ {Max(s)}], seq[Max(s)])]
<1>1. m \in Nat /\ DOMAIN seq = 1 .. m /\ \A k \in 1 .. m : seq[k] = k /\ k \in 1 .. n - 1
  OBVIOUS
<1>2. step \in [1 .. m -> [X -> X]]
  BY <1>1, SwapIs
<1>3. PICK g \in [SUBSET (1 .. m) -> X] : FoldRule(g, m, u, step)
  BY <1>1, <1>2, FoldExists
<1>4. Rule(g)
  <2>1. ASSUME NEW s \in SUBSET (1 .. m)
        PROVE  g[s] = IF s = {} THEN u ELSE SwapIfGreater(g[s \ {Max(s)}], seq[Max(s)])
    <3>1. g[s] = IF s = {} THEN u ELSE step[Max(s)][g[s \ {Max(s)}]]
      BY <1>3 DEF FoldRule
    <3>2. CASE s = {}
      BY <3>1, <3>2
    <3>3. CASE s # {}
      <4>1. Max(s) \in 1 .. m /\ g[s \ {Max(s)}] \in X
        BY <1>1, <3>3, LastPlace
      <4>2. step[Max(s)][g[s \ {Max(s)}]] = SwapIfGreater(g[s \ {Max(s)}], Max(s))
        BY <4>1
      <4>3. seq[Max(s)] = Max(s)
        BY <1>1, <4>1
      <4>4. QED
        BY <3>1, <3>3, <4>2, <4>3
    <3>4. QED
      BY <3>2, <3>3
  <2>2. g = [s \in SUBSET (1 .. m) |->
               IF s = {} THEN u ELSE SwapIfGreater(g[s \ {Max(s)}], seq[Max(s)])]
    BY <2>1
  <2>3. QED
    BY <1>1, <2>2, Zenon
<1>5. PICK iter : iter = CHOOSE f : Rule(f)
  OBVIOUS
<1>6. FoldLeft(SwapIfGreater, u, seq) = iter[DOMAIN seq]
  BY <1>5, Zenon DEF FoldLeft, MapThenFoldSet
<1>7. Rule(iter)
  <2> HIDE DEF Rule
  <2>1. QED
    BY <1>4, <1>5
<1>8. iter = [s \in SUBSET (1 .. m) |->
                IF s = {} THEN u ELSE SwapIfGreater(iter[s \ {Max(s)}], seq[Max(s)])]
  BY <1>1, <1>7, Zenon
<1> HIDE DEF Rule, seq
<1> DEFINE h == [k \in 0 .. m |-> iter[1 .. k]]
<1>9. h[0] = u
  <2>1. 1 .. 0 = {} /\ {} \in SUBSET (1 .. m)
    OBVIOUS
  <2>2. iter[{}] = u
    BY <1>8, <2>1
  <2>3. QED
    BY <2>1, <2>2
<1>10. ASSUME NEW k \in 1 .. m PROVE h[k] = SwapIfGreater(h[k - 1], k)
  <2>1. /\ 1 .. k \in SUBSET (1 .. m) /\ 1 .. k # {} /\ Max(1 .. k) = k
        /\ (1 .. k) \ {k} = 1 .. k - 1
    BY <1>1, FirstPlaces
  <2>2. iter[1 .. k] = SwapIfGreater(iter[1 .. k - 1], seq[k])
    BY <1>8, <2>1
  <2>3. h[k] = iter[1 .. k] /\ h[k - 1] = iter[1 .. k - 1]
    BY <1>1
  <2>4. QED
    BY <1>1, <2>2, <2>3
<1>11. FoldLeft(SwapIfGreater, u, seq) = h[m]
  BY <1>1, <1>6
<1>12. QED
  BY <1>9, <1>10, <1>11 DEF seq

(* A pass of the sort settles one more url. *)
LEMMA PassSorts ==
  ASSUME NEW n \in Nat, NEW u, NEW priorities, NEW i \in 1 .. n - 1,
         Sorting(u, n, priorities)
  PROVE  LET v == FoldLeft(SwapIfGreater, u, [j \in 1 .. n - i |-> j])
         IN Sorting(v, n, priorities) /\ (Settled(u, n, i - 1) => Settled(v, n, i))
<1> DEFINE m == n - i
           Right(v, k) == /\ Sorting(v, n, priorities)
                          /\ Settled(u, n, i - 1) => Settled(v, n, i - 1) /\ Bubbled(v, k)
<1>1. m \in 0 .. n - 1 /\ u \in [1 .. n -> Url]
  <2>1. m \in 0 .. n - 1
    OBVIOUS
  <2>2. u \in [1 .. n -> Url]
    BY DEF Sorting
  <2>3. QED
    BY <2>1, <2>2
<1>2. PICK h : /\ h[0] = u
               /\ \A k \in 1 .. m : h[k] = SwapIfGreater(h[k - 1], k)
               /\ FoldLeft(SwapIfGreater, u, [j \in 1 .. m |-> j]) = h[m]
  <2> HIDE DEF m
  <2>1. QED
    BY <1>1, PassIs
<1>3. Right(h[0], 0)
  BY <1>2 DEF Bubbled
<1>4. ASSUME NEW k \in 1 .. m, Right(h[k - 1], k - 1) PROVE Right(h[k], k)
  <2>1. k \in 1 .. n - 1 /\ k \in 1 .. n - i /\ h[k - 1] \in [1 .. n -> Url]
    BY <1>1, <1>4 DEF Sorting
  <2>2. h[k] = SwapIfGreater(h[k - 1], k)
    BY <1>2
  <2>3. QED
    BY <1>4, <2>1, <2>2, SwapKeepsSorting, SwapBubbles
<1>5. Right(h[m], m)
  <2> DEFINE bad == {k \in 0 .. m : ~Right(h[k], k)}
  <2> HIDE DEF Right
  <2> SUFFICES ASSUME bad # {} PROVE FALSE
    BY <1>1
  <2>1. PICK k : k = Min(bad)
    OBVIOUS
  <2>2. k \in bad /\ \A j \in bad : k <= j
    <3>1. bad \subseteq Nat
      OBVIOUS
    <3> HIDE DEF bad
    <3>2. QED
      BY <2>1, <3>1, Smallest
  <2>3. k \in 1 .. m /\ k - 1 \in 0 .. m /\ ~(k <= k - 1)
    BY <1>1, <1>3, <2>2
  <2>4. Right(h[k - 1], k - 1)
    BY <2>2, <2>3
  <2>5. QED
    BY <1>4, <2>2, <2>3, <2>4
<1>6. h[m] \in [1 .. n -> Url]
  BY <1>5 DEF Sorting
<1>7. QED
  BY <1>2, <1>5, <1>6, PassSettles

(* The sort, as a sequence of passes. *)
LEMMA SortIs ==
  ASSUME NEW n \in Nat, NEW priorities, NEW urls, Sorting(urls, n, priorities)
  PROVE  /\ Sorting(SortedURLs(urls), n, priorities)
         /\ \A p, q \in 1 .. n :
              q < p => SortedURLs(urls)[q].priority <= SortedURLs(urls)[p].priority
<1> DEFINE X == {u \in [1 .. n -> Url] : Sorting(u, n, priorities)}
           Pass(u, i) == FoldLeft(SwapIfGreater, u, [j \in 1 .. Len(u) - i |-> j])
           seq == [i \in 1 .. Len(urls) - 1 |-> i]
           m == IF n = 0 THEN 0 ELSE n - 1
           step == [i \in 1 .. m |-> [u \in X |-> Pass(u, i)]]
           Rule(iter) == iter = [s \in SUBSET DOMAIN seq |->
                                   IF s = {} THEN urls
                                   ELSE Pass(iter[s \ {Max(s)}], seq[Max(s)])]
<1>1. \A u : Sorting(u, n, priorities) <=> u \in X
  BY DEF Sorting
<1>2. \A u \in X : Len(u) = n
  OBVIOUS
<1>3. m \in Nat /\ DOMAIN seq = 1 .. m /\ \A i \in 1 .. m : seq[i] = i /\ i \in 1 .. n - 1
  BY <1>1, <1>2
<1>4. ASSUME NEW u \in X, NEW i \in 1 .. m
      PROVE  Pass(u, i) \in X /\ (Settled(u, n, i - 1) => Settled(Pass(u, i), n, i))
  <2>1. i \in 1 .. n - 1 /\ Len(u) = n /\ Sorting(u, n, priorities)
    BY <1>1, <1>2, <1>3
  <2>2. PICK v : v = Pass(u, i) /\ v = FoldLeft(SwapIfGreater, u, [j \in 1 .. n - i |-> j])
    BY <2>1
  <2>3. Sorting(v, n, priorities) /\ (Settled(u, n, i - 1) => Settled(v, n, i))
    BY <2>1, <2>2, PassSorts
  <2> HIDE DEF Pass, X
  <2>4. QED
    BY <1>1, <2>2, <2>3
<1> HIDE DEF Pass
<1>5. step \in [1 .. m -> [X -> X]] /\ urls \in X
  BY <1>1, <1>4
<1>6. PICK g \in [SUBSET (1 .. m) -> X] : FoldRule(g, m, urls, step)
  <2> HIDE DEF X, step, m
  <2>1. QED
    BY <1>3, <1>5, FoldExists
<1>7. Rule(g)
  <2>1. ASSUME NEW s \in SUBSET (1 .. m)
        PROVE  g[s] = IF s = {} THEN urls ELSE Pass(g[s \ {Max(s)}], seq[Max(s)])
    <3>1. g[s] = IF s = {} THEN urls ELSE step[Max(s)][g[s \ {Max(s)}]]
      BY <1>6 DEF FoldRule
    <3>2. CASE s = {}
      BY <3>1, <3>2
    <3>3. CASE s # {}
      <4>1. Max(s) \in 1 .. m /\ g[s \ {Max(s)}] \in X
        <5> HIDE DEF X, m
        <5>1. Max(s) \in 1 .. m /\ s \ {Max(s)} \in SUBSET (1 .. m)
          BY <1>3, <3>3, LastPlace
        <5>2. QED
          BY <5>1
      <4>2. step[Max(s)][g[s \ {Max(s)}]] = Pass(g[s \ {Max(s)}], Max(s))
        <5> HIDE DEF X, m
        <5>1. QED
          BY <4>1
      <4>3. seq[Max(s)] = Max(s)
        BY <1>3, <4>1
      <4>4. QED
        BY <3>1, <3>3, <4>2, <4>3
    <3>4. QED
      BY <3>2, <3>3
  <2> HIDE DEF X, m
  <2>2. g = [s \in SUBSET (1 .. m) |->
               IF s = {} THEN urls ELSE Pass(g[s \ {Max(s)}], seq[Max(s)])]
    BY <2>1
  <2>3. QED
    BY <1>3, <2>2, Zenon
<1>8. PICK iter : iter = CHOOSE f : Rule(f)
  OBVIOUS
<1>9. SortedURLs(urls) = iter[DOMAIN seq]
  BY <1>8, Zenon DEF SortedURLs, FoldLeft, MapThenFoldSet, Pass
<1>10. Rule(iter)
  <2> HIDE DEF Rule
  <2>1. QED
    BY <1>7, <1>8
<1> HIDE DEF m, X
<1>11. iter = [s \in SUBSET (1 .. m) |->
                IF s = {} THEN urls ELSE Pass(iter[s \ {Max(s)}], seq[Max(s)])]
  BY <1>3, <1>10, Zenon
<1> HIDE DEF Rule, seq
<1> DEFINE h(k) == iter[1 .. k]
           Right(k) == h(k) \in X /\ Settled(h(k), n, k)
<1>12. Right(0)
  <2>1. 1 .. 0 = {} /\ {} \in SUBSET (1 .. m)
    OBVIOUS
  <2>2. iter[{}] = urls
    BY <1>11, <2>1
  <2>3. Settled(urls, n, 0)
    <3>1. \A p \in n - 0 + 1 .. n : FALSE
      OBVIOUS
    <3>2. QED
      BY <3>1 DEF Settled
  <2>4. QED
    BY <1>5, <2>1, <2>2, <2>3
<1>13. ASSUME NEW k \in 1 .. m, Right(k - 1) PROVE Right(k)
  <2>1. /\ 1 .. k \in SUBSET (1 .. m) /\ 1 .. k # {} /\ Max(1 .. k) = k
        /\ (1 .. k) \ {k} = 1 .. k - 1
    BY <1>3, FirstPlaces
  <2>2. iter[1 .. k] = Pass(iter[1 .. k - 1], seq[k])
    BY <1>11, <2>1
  <2>3. seq[k] = k
    BY <1>3
  <2>4. QED
    BY <1>4, <1>13, <2>2, <2>3
<1> HIDE DEF Right
<1>14. Right(m)
  <2> DEFINE bad == {k \in 0 .. m : ~Right(k)}
  <2> SUFFICES ASSUME bad # {} PROVE FALSE
    BY <1>3
  <2>1. PICK k : k = Min(bad)
    OBVIOUS
  <2>2. k \in bad /\ \A j \in bad : k <= j
    <3>1. bad \subseteq Nat
      OBVIOUS
    <3> HIDE DEF bad
    <3>2. QED
      BY <2>1, <3>1, Smallest
  <2>3. k \in 1 .. m /\ k - 1 \in 0 .. m /\ ~(k <= k - 1)
    BY <1>3, <1>12, <2>2
  <2>4. Right(k - 1)
    BY <2>2, <2>3
  <2>5. QED
    BY <1>13, <2>2, <2>3, <2>4
<1>15. PICK v : v = SortedURLs(urls) /\ v \in X /\ Settled(v, n, m)
  BY <1>3, <1>9, <1>14 DEF Right
<1>16. ASSUME NEW p \in 1 .. n, NEW q \in 1 .. n, q < p
       PROVE  v[q].priority <= v[p].priority
  <2>1. p \in n - m + 1 .. n
    BY <1>16 DEF m
  <2>2. QED
    BY <1>15, <1>16, <2>1 DEF Settled
<1>17. QED
  BY <1>1, <1>15, <1>16

(* However many urls a metalink has, and whatever their preferences are, they
   are tried from the most preferred to the least, and as they stand in it. *)
LEMMA PreferredAlwaysFirst ==
  ASSUME subject = "preferences" => input \in Seq(1 .. 100)
  PROVE  PreferredFirst
<1> SUFFICES ASSUME subject = "preferences", input \in Seq(1 .. 100)
             PROVE  LET order == SortedURLs(convertV3ToV4(input))
                    IN /\ {u.place : u \in ToSet(order)} = DOMAIN input
                       /\ Len(order) = Len(input)
                       /\ \A i, j \in DOMAIN order :
                            i < j => \/ input[order[i].place] > input[order[j].place]
                                     \/ /\ input[order[i].place] = input[order[j].place]
                                        /\ order[i].place < order[j].place
  BY DEF PreferredFirst
<1>1. PICK n \in Nat : n = Len(input) /\ DOMAIN input = 1 .. n /\ \A i \in 1 .. n : input[i] \in 1 .. 100
  <2>1. Len(input) \in Nat /\ DOMAIN input = 1 .. Len(input)
    BY LenProperties
  <2>2. \A i \in 1 .. Len(input) : input[i] \in 1 .. 100
    BY ElementOfSeq
  <2>3. QED
    BY <2>1, <2>2
<1> DEFINE priorities == [i \in 1 .. n |-> PriorityOf(input[i])]
           urls == convertV3ToV4(input)
<1>2. ASSUME NEW i \in 1 .. n
      PROVE  PriorityOf(input[i]) = 101 - input[i] /\ PriorityOf(input[i]) \in Int
  <2>1. PICK x \in 1 .. 100 : x = input[i]
    BY <1>1
  <2>2. PriorityOf(x) = 101 - x
    BY DEF PriorityOf
  <2>3. QED
    BY <2>1, <2>2
<1>3. Sorting(urls, n, priorities)
  <2>1. urls = [i \in 1 .. n |-> [place |-> i, priority |-> PriorityOf(input[i])]]
    BY <1>1 DEF convertV3ToV4
  <2>2. \A i \in 1 .. n : urls[i].place = i /\ urls[i].priority = priorities[i]
    BY <2>1
  <2>3. urls \in [1 .. n -> Url]
    <3>1. \A i \in 1 .. n : [place |-> i, priority |-> PriorityOf(input[i])] \in Url
      BY <1>1, <1>2 DEF Url
    <3>2. QED
      BY <2>1, <3>1
  <2> HIDE DEF urls, priorities
  <2>4. QED
    BY <2>2, <2>3 DEF Sorting
<1>4. PICK order : order = SortedURLs(urls)
  OBVIOUS
<1>5. Sorting(order, n, priorities) /\ \A p, q \in 1 .. n : q < p => order[q].priority <= order[p].priority
  <2> HIDE DEF urls, priorities
  <2>1. QED
    BY <1>3, <1>4, SortIs
<1>6. DOMAIN order = 1 .. n /\ Len(order) = n
  BY <1>5 DEF Sorting
<1>7. {u.place : u \in ToSet(order)} = 1 .. n
  <2>1. ToSet(order) = {order[i] : i \in 1 .. n}
    BY <1>6 DEF ToSet
  <2>2. \A p \in 1 .. n : order[p].place \in 1 .. n
    BY <1>5 DEF Sorting
  <2>3. \A l \in 1 .. n : \E p \in 1 .. n : order[p].place = l
    BY <1>5 DEF Sorting
  <2>4. {u.place : u \in ToSet(order)} = {order[p].place : p \in 1 .. n}
    BY <2>1
  <2>5. QED
    BY <2>2, <2>3, <2>4
<1>8. ASSUME NEW i \in 1 .. n, NEW j \in 1 .. n, i < j
      PROVE  \/ input[order[i].place] > input[order[j].place]
             \/ /\ input[order[i].place] = input[order[j].place]
                /\ order[i].place < order[j].place
  <2>1. PICK a \in 1 .. n, b \in 1 .. n : a = order[i].place /\ b = order[j].place
    BY <1>5 DEF Sorting
  <2>2. order[i].priority = priorities[a] /\ order[j].priority = priorities[b]
    BY <1>5, <2>1 DEF Sorting
  <2>3. priorities[a] = 101 - input[a] /\ priorities[b] = 101 - input[b]
    BY <1>2
  <2>4. priorities[a] <= priorities[b]
    BY <1>5, <1>8, <2>2
  <2>5. priorities[a] = priorities[b] => a < b
    BY <1>5, <1>8, <2>1, <2>2 DEF Sorting
  <2>6. input[a] \in 1 .. 100 /\ input[b] \in 1 .. 100
    BY <1>1
  <2> HIDE DEF priorities
  <2>7. input[a] > input[b] \/ (input[a] = input[b] /\ a < b)
    <3>1. PICK x \in 1 .. 100, y \in 1 .. 100 : x = input[a] /\ y = input[b]
      BY <2>6
    <3>2. 101 - x <= 101 - y
      BY <2>3, <2>4, <3>1
    <3>3. x = y => a < b
      BY <2>3, <2>5, <3>1
    <3>4. x > y \/ (x = y /\ a < b)
      BY <3>2, <3>3
    <3>5. QED
      BY <3>1, <3>4
  <2>8. QED
    BY <2>1, <2>7
<1>9. QED
  BY <1>1, <1>4, <1>6, <1>7, <1>8

-----------------------------------------------------------------------------
(* The pieces of a file of some size cut at some length: how many there are,
   and in which of them a byte is.                                          *)
LEMMA Pieces ==
  ASSUME NEW n \in Nat \ {0}, NEW L \in Nat \ {0}, NEW C,
         C = n \div L + (IF n % L # 0 THEN 1 ELSE 0)
  PROVE  /\ C \in Nat
         /\ \A i \in 0 .. C - 1 : i * L \in Nat /\ i * L <= n - 1
         /\ \A p \in 0 .. n - 1 : \E i \in 0 .. C - 1 : i * L <= p /\ p <= (i + 1) * L - 1
<1> DEFINE q == n \div L
           r == n % L
<1>1. q \in Nat /\ r \in Nat /\ r < L
  OBVIOUS
<1>2. n = q * L + r
  <2>1. n = L * q + r
    OBVIOUS
  <2>2. L * q = q * L
    BY <1>1
  <2>3. QED
    BY <2>1, <2>2
<1>3. C = q + (IF r # 0 THEN 1 ELSE 0)
  OBVIOUS
<1> HIDE DEF q, r
<1>4. ASSUME NEW a \in Nat, NEW b \in Nat, a <= b
      PROVE  a * L \in Nat /\ b * L \in Nat /\ a * L <= b * L
  BY <1>4
<1>5. \A a \in Nat : (a + 1) * L = a * L + L
  OBVIOUS
<1>6. C \in Nat /\ q * L \in Nat
  BY <1>1, <1>3
<1>7. ASSUME NEW i \in 0 .. C - 1
      PROVE  i * L \in Nat /\ i * L <= n - 1
  <2>1. CASE r # 0
    <3>1. i \in Nat /\ i <= q
      BY <1>1, <1>3, <2>1
    <3>2. i * L \in Nat /\ i * L <= q * L
      BY <1>1, <1>4, <3>1
    <3>3. QED
      BY ONLY <1>1, <1>2, <1>6, <2>1, <3>2
  <2>2. CASE r = 0
    <3>1. i \in Nat /\ i + 1 <= q
      BY <1>1, <1>3, <2>2
    <3>2. (i + 1) * L <= q * L /\ i * L \in Nat /\ (i + 1) * L = i * L + L
      BY <1>1, <1>4, <1>5, <3>1
    <3>3. QED
      BY ONLY <1>1, <1>2, <1>6, <2>2, <3>2
  <2>3. QED  BY <2>1, <2>2
<1>8. ASSUME NEW p \in 0 .. n - 1
      PROVE  \E i \in 0 .. C - 1 : i * L <= p /\ p <= (i + 1) * L - 1
  <2> DEFINE k == p \div L
  <2>1. k \in Nat /\ k * L <= p /\ p < k * L + L
    OBVIOUS
  <2> HIDE DEF k
  <2>2. k * L \in Nat /\ (k + 1) * L = k * L + L
    BY <1>4, <1>5, <2>1
  <2>3. k < C
    <3>1. SUFFICES ASSUME C <= k PROVE FALSE
      BY <1>6, <2>1
    <3>2. CASE r # 0
      <4>1. q + 1 <= k /\ (q + 1) * L = q * L + L
        BY <1>1, <1>3, <1>5, <3>1, <3>2
      <4>2. (q + 1) * L <= k * L
        BY <1>1, <1>4, <2>1, <4>1
      <4>3. QED
        BY ONLY <1>1, <1>2, <1>6, <2>1, <2>2, <4>1, <4>2, p \in 0 .. n - 1
    <3>3. CASE r = 0
      <4>1. q * L <= k * L
        BY <1>1, <1>3, <1>4, <2>1, <3>1, <3>3
      <4>2. QED
        BY ONLY <1>1, <1>2, <1>6, <2>1, <2>2, <4>1, <3>3, p \in 0 .. n - 1
    <3>4. QED  BY <3>2, <3>3
  <2>4. k \in 0 .. C - 1 /\ p <= (k + 1) * L - 1
    BY <1>6, <2>1, <2>2, <2>3
  <2>5. QED
    BY <2>1, <2>4
<1>9. QED
  BY <1>6, <1>7, <1>8

(* The pieces of a verifier do not overlap and are the whole file. *)
LEMMA PiecesPartition ==
  ASSUME NEW v, v.size \in Nat \ {0}, v.length \in Nat \ {0}
  PROVE  /\ PieceCount(v) \in Nat
         /\ IsPartition([i \in 0 .. PieceCount(v) - 1 |-> GetPieceRange(v, i)], v.size)
         /\ \A i \in 0 .. PieceCount(v) - 1 :
              /\ GetPieceRange(v, i).start \in Nat
              /\ GetPieceRange(v, i).start <= GetPieceRange(v, i).end
              /\ GetPieceRange(v, i).end \in 0 .. v.size - 1
              /\ i * v.length <= v.size - 1
<1>1. PICK n \in Nat \ {0}, L \in Nat \ {0} : n = v.size /\ L = v.length
  OBVIOUS
<1>2. PICK C : C = PieceCount(v)
  OBVIOUS
<1>3. C = n \div L + (IF n % L # 0 THEN 1 ELSE 0)
  BY <1>1, <1>2 DEF PieceCount
<1>4. /\ C \in Nat
      /\ \A i \in 0 .. C - 1 : i * L \in Nat /\ i * L <= n - 1
      /\ \A p \in 0 .. n - 1 : \E i \in 0 .. C - 1 : i * L <= p /\ p <= (i + 1) * L - 1
  BY <1>3, Pieces
<1> DEFINE R(i) == GetPieceRange(v, i)
<1>5. ASSUME NEW i \in 0 .. C - 1
      PROVE  /\ R(i).start = i * L
             /\ R(i).end = IF (i + 1) * L - 1 >= n THEN n - 1 ELSE (i + 1) * L - 1
             /\ (i + 1) * L = i * L + L /\ i * L \in Nat /\ i * L <= n - 1
  <2>1. GetPieceRange(v, i)
          = NewChunk(i * L, IF (i + 1) * L - 1 >= n THEN n - 1 ELSE (i + 1) * L - 1)
    BY <1>1 DEF GetPieceRange
  <2>2. \A a, b : NewChunk(a, b).start = a /\ NewChunk(a, b).end = b
    BY DEF NewChunk
  <2>3. i * L \in Nat /\ i * L <= n - 1
    BY <1>4
  <2>4. (i + 1) * L = i * L + L
    <3>1. i \in Nat
      BY <1>4
    <3>2. QED  BY <3>1
  <2>5. QED
    BY <2>1, <2>2, <2>3, <2>4
<1> HIDE DEF R
<1>6. ASSUME NEW i \in 0 .. C - 1
      PROVE  R(i).start \in Nat /\ R(i).start <= R(i).end /\ R(i).end \in 0 .. n - 1
  BY <1>5
<1>7. ASSUME NEW i \in 0 .. C - 1, NEW j \in 0 .. C - 1, i < j
      PROVE  R(i).end < R(j).start
  <2>1. (i + 1) * L <= j * L
    <3>1. ASSUME NEW a \in Nat, NEW b \in Nat, a <= b PROVE a * L <= b * L
      BY <3>1
    <3>2. i + 1 \in Nat /\ j \in Nat /\ i + 1 <= j
      BY <1>4, <1>7
    <3>3. QED  BY <3>1, <3>2
  <2>2. /\ R(i).end <= (i + 1) * L - 1 /\ R(i).end \in 0 .. n - 1
        /\ R(j).start = j * L /\ j * L \in Nat /\ (i + 1) * L = i * L + L /\ i * L \in Nat
    <3>1. R(j).start = j * L /\ j * L \in Nat /\ (i + 1) * L = i * L + L /\ i * L \in Nat
      BY <1>5
    <3>2. R(i).end = IF (i + 1) * L - 1 >= n THEN n - 1 ELSE (i + 1) * L - 1
      BY <1>5
    <3>3. (i + 1) * L \in Nat
      BY <3>1
    <3>4. R(i).end <= (i + 1) * L - 1
      BY ONLY <3>2, <3>3, n \in Nat \ {0}
    <3>5. QED
      BY <1>6, <3>1, <3>4
  <2>3. (i + 1) * L \in Nat
    BY <2>2
  <2>4. QED
    BY ONLY <2>1, <2>2, <2>3
<1>8. ASSUME NEW p \in 0 .. n - 1
      PROVE  \E i \in 0 .. C - 1 : R(i).start <= p /\ p <= R(i).end
  <2>1. PICK i \in 0 .. C - 1 : i * L <= p /\ p <= (i + 1) * L - 1
    BY <1>4
  <2>2. R(i).start <= p /\ p <= R(i).end
    BY <1>5, <2>1
  <2>3. QED  BY <2>2
<1>9. IsPartition([i \in 0 .. C - 1 |-> R(i)], n)
  <2> DEFINE f == [i \in 0 .. C - 1 |-> R(i)]
  <2>1. DOMAIN f = 0 .. C - 1 /\ \A i \in 0 .. C - 1 : f[i] = R(i)
    OBVIOUS
  <2> HIDE DEF f
  <2>2. \A i \in DOMAIN f : 0 <= f[i].start /\ f[i].start <= f[i].end /\ f[i].end < n
    BY <1>6, <2>1
  <2>3. ASSUME NEW i \in DOMAIN f, NEW j \in DOMAIN f, i # j
        PROVE  f[i].end < f[j].start \/ f[j].end < f[i].start
    <3>1. i \in 0 .. C - 1 /\ j \in 0 .. C - 1 /\ (i < j \/ j < i)
      BY <1>4, <2>1, <2>3
    <3>2. QED
      BY <1>7, <2>1, <3>1
  <2>4. \A p \in 0 .. n - 1 : \E i \in DOMAIN f : f[i].start <= p /\ p <= f[i].end
    BY <1>8, <2>1
  <2>5. QED
    BY <2>2, <2>3, <2>4 DEF IsPartition, f
<1>10. \A i \in 0 .. C - 1 : i * L <= n - 1
  BY <1>4
<1>11. QED
  BY <1>1, <1>2, <1>4, <1>6, <1>9, <1>10 DEF R

(* What two files have in a piece: the piece is the same where all its bytes
   are.                                                                    *)
LEMMA PieceBytes ==
  ASSUME NEW v, v.size \in Nat \ {0}, v.length \in Nat \ {0},
         NEW Byte, NEW one \in Seq(Byte), NEW other \in Seq(Byte),
         Len(one) = v.size, Len(other) = v.size,
         NEW i \in 0 .. PieceCount(v) - 1, PieceOf(v, one, i) = PieceOf(v, other, i),
         NEW p \in DOMAIN one, GetPieceRange(v, i).start < p, p <= GetPieceRange(v, i).end + 1
  PROVE  one[p] = other[p]
<1>1. PICK s \in Nat, e \in Nat :
        /\ s = GetPieceRange(v, i).start /\ e = GetPieceRange(v, i).end
        /\ s <= e /\ e <= v.size - 1
  <2>1. GetPieceRange(v, i).end \in 0 .. v.size - 1 /\ GetPieceRange(v, i).start \in Nat
    BY PiecesPartition
  <2>2. QED
    BY <2>1, PiecesPartition
<1>2. \A f : Len(f) = v.size => PieceOf(v, f, i) = SubSeq(f, s + 1, e + 1)
  <2>1. \A f : PieceOf(v, f, i)
                = SubSeq(f, s + 1, (IF e >= Len(f) THEN Len(f) - 1 ELSE e) + 1)
    BY <1>1 DEF PieceOf
  <2>2. ~(e >= v.size)
    BY <1>1
  <2>3. QED
    BY <2>1, <2>2
<1>3. SubSeq(one, s + 1, e + 1) = SubSeq(other, s + 1, e + 1)
  BY <1>2
<1>4. PICK k \in Nat : k = p - s /\ k \in 1 .. (e + 1) - (s + 1) + 1 /\ p = s + 1 + k - 1
  <2>1. p \in Nat
    <3>1. DOMAIN one = 1 .. Len(one) /\ Len(one) \in Nat
      OBVIOUS
    <3>2. QED  BY <3>1
  <2>2. s < p /\ p <= e + 1
    BY <1>1
  <2>3. p - s \in Nat /\ p - s \in 1 .. (e + 1) - (s + 1) + 1 /\ p = s + 1 + (p - s) - 1
    <3>1. PICK d : d = p - s
      OBVIOUS
    <3>2. d \in Nat /\ d >= 1 /\ p = s + d /\ d <= (e + 1) - s
      BY ONLY <2>1, <2>2, <3>1, s \in Nat, e \in Nat
    <3>3. (e + 1) - (s + 1) + 1 = (e + 1) - s /\ s + 1 + d - 1 = s + d
      BY ONLY <3>2, s \in Nat, e \in Nat
    <3>4. d \in 1 .. (e + 1) - s
      BY ONLY <3>2, s \in Nat, e \in Nat
    <3>5. QED
      BY ONLY <3>1, <3>2, <3>3, <3>4
  <2>4. QED
    BY <2>3
<1>5. ASSUME NEW f \in Seq(Byte), Len(f) = v.size
      PROVE  SubSeq(f, s + 1, e + 1)[k] = f[p]
  <2>1. \A j \in s + 1 .. e + 1 : f[j] \in Byte
    <3>1. \A j \in 1 .. Len(f) : f[j] \in Byte
      BY ElementOfSeq
    <3>2. PICK z \in Nat : z = Len(f) /\ e <= z - 1
      BY <1>1, <1>5
    <3>3. \A j \in s + 1 .. e + 1 : j \in 1 .. z
      BY <3>2
    <3>4. QED
      BY <3>1, <3>2, <3>3
  <2>2. PICK g : g = SubSeq(f, s + 1, e + 1)
    OBVIOUS
  <2>3. \A j \in 1 .. (e + 1) - (s + 1) + 1 : g[j] = f[s + 1 + j - 1]
    <3>1. s + 1 \in Int /\ e + 1 \in Int
      OBVIOUS
    <3>2. QED
      BY <2>1, <2>2, <3>1, SubSeqProperties
  <2>4. QED
    BY <1>4, <2>2, <2>3
<1>6. QED
  BY <1>3, <1>5

(* Pieces tell a file from every other one, whatever its size and their
   length: only the file passes, and of another one of its size each byte
   that is not as it should be is in a piece that is found to be bad.      *)
THEOREM PiecesAlwaysTell ==
  ASSUME NEW Byte,
         input \in [length : Nat \ {0}, wanted : Seq(Byte) \ {<<>>}, found : Seq(Byte)]
  PROVE  PiecesTellFile
<1> DEFINE v == VerifierOf(input)
<1>1. /\ input.length \in Nat \ {0} /\ input.wanted \in Seq(Byte) /\ input.wanted # <<>>
      /\ input.found \in Seq(Byte)
  OBVIOUS
<1>2. PICK n \in Nat \ {0} : n = Len(input.wanted)
  <2>1. Len(input.wanted) \in Nat /\ (Len(input.wanted) = 0 => input.wanted = <<>>)
    BY <1>1, EmptySeq
  <2>2. QED
    BY <1>1, <2>1
<1>3. /\ v.size = n /\ v.length = input.length
      /\ DOMAIN v.hashes = 0 .. (n - 1) \div input.length
      /\ \A i \in DOMAIN v.hashes : v.hashes[i] = PieceOf(v, input.wanted, i)
  <2> DEFINE b == [size |-> n, length |-> input.length, hashes |-> <<>>]
             h == [i \in 0 .. (n - 1) \div input.length |-> PieceOf(b, input.wanted, i)]
  <2>1. b.size = n /\ b.length = input.length
    OBVIOUS
  <2>2. v = [b EXCEPT !.hashes = h]
    BY <1>2 DEF VerifierOf
  <2>3. \A i : PieceOf(b, input.wanted, i) = PieceOf([b EXCEPT !.hashes = h], input.wanted, i)
    <3> DEFINE c == [b EXCEPT !.hashes = h]
    <3>1. c.size = b.size /\ c.length = b.length
      OBVIOUS
    <3> HIDE DEF b, c
    <3>2. \A i : GetPieceRange(b, i) = GetPieceRange(c, i)
      BY <3>1, Zenon DEF GetPieceRange
    <3>3. ASSUME NEW i PROVE PieceOf(b, input.wanted, i) = PieceOf(c, input.wanted, i)
      <4>1. PICK r : r = GetPieceRange(b, i) /\ r = GetPieceRange(c, i)
        BY <3>2
      <4>2. QED
        BY <4>1, Zenon DEF PieceOf
    <3>4. QED
      BY <3>3, Zenon DEF c
  <2>4. v.size = n /\ v.length = input.length /\ v.hashes = h
    BY <2>2
  <2>5. QED
    BY <2>2, <2>3, <2>4
<1> HIDE DEF v
<1>4. /\ PieceCount(v) \in Nat
      /\ IsPartition([i \in 0 .. PieceCount(v) - 1 |-> GetPieceRange(v, i)], v.size)
      /\ \A i \in 0 .. PieceCount(v) - 1 : i * input.length <= n - 1
  BY <1>1, <1>3, PiecesPartition
<1>5. 0 .. PieceCount(v) - 1 \subseteq DOMAIN v.hashes
  <2>1. ASSUME NEW i \in Nat, NEW L \in Nat \ {0}, NEW m \in Nat, i * L <= m
        PROVE  i <= m \div L
    <3>1. m \div L \in Nat /\ m < (m \div L) * L + L
      OBVIOUS
    <3>2. PICK k \in Nat : k = m \div L
      BY <3>1
    <3>3. SUFFICES ASSUME k + 1 <= i PROVE FALSE
      BY <3>2
    <3>4. (k + 1) * L <= i * L /\ (k + 1) * L = k * L + L /\ k * L \in Nat /\ i * L \in Nat
      BY <3>3
    <3>5. QED
      BY <2>1, <3>1, <3>2, <3>4
  <2>2. ASSUME NEW i \in 0 .. PieceCount(v) - 1
        PROVE  i \in 0 .. (n - 1) \div input.length
    <3>1. PICK L \in Nat \ {0}, m \in Nat : L = input.length /\ m = n - 1
      BY <1>1
    <3>2. i \in Nat /\ i * L <= m
      BY <1>4, <3>1
    <3>3. i <= m \div L
      BY <2>1, <3>2
    <3>4. m \div L \in Nat
      OBVIOUS
    <3>5. QED
      BY <3>1, <3>2, <3>3, <3>4
  <2>3. QED
    BY <1>3, <2>2
<1>6. \A i \in 0 .. PieceCount(v) - 1 :
        VerifyPiece(v, input.found, i) <=> PieceOf(v, input.found, i) = PieceOf(v, input.wanted, i)
  BY <1>3, <1>5 DEF VerifyPiece
<1>7. ASSUME Len(input.found) = n, NEW p \in DOMAIN input.found,
             input.found[p] # input.wanted[p]
      PROVE  \E i \in GetInvalidPieces(v, input.found) :
               GetPieceRange(v, i).start < p /\ p <= GetPieceRange(v, i).end + 1
  <2>1. p - 1 \in 0 .. n - 1 /\ p \in Nat
    BY <1>1, <1>7
  <2>2. PICK i \in 0 .. PieceCount(v) - 1 :
          GetPieceRange(v, i).start <= p - 1 /\ p - 1 <= GetPieceRange(v, i).end
    BY <1>3, <1>4, <2>1 DEF IsPartition
  <2>3. GetPieceRange(v, i).start \in Nat /\ GetPieceRange(v, i).end \in 0 .. v.size - 1
    BY <1>1, <1>3, PiecesPartition
  <2>4. GetPieceRange(v, i).start < p /\ p <= GetPieceRange(v, i).end + 1
    BY <1>3, <2>1, <2>2, <2>3
  <2>5. ~VerifyPiece(v, input.found, i)
    BY <1>1, <1>2, <1>3, <1>6, <1>7, <2>4, PieceBytes
  <2>6. QED
    BY <2>4, <2>5 DEF GetInvalidPieces
<1>8. VerifyFilePieces(v, input.found) => input.found = input.wanted
  <2> SUFFICES ASSUME VerifyFilePieces(v, input.found)
               PROVE  input.found = input.wanted
    OBVIOUS
  <2>1. Len(input.found) = n /\ GetInvalidPieces(v, input.found) = {}
    BY <1>3 DEF VerifyFilePieces, GetInvalidPieces
  <2>2. \A p \in 1 .. Len(input.found) : input.found[p] = input.wanted[p]
    BY <1>1, <1>7, <2>1
  <2>3. QED
    BY <1>1, <1>2, <2>1, <2>2, SeqEqual
<1>9. input.found = input.wanted => VerifyFilePieces(v, input.found)
  BY <1>2, <1>3, <1>6 DEF VerifyFilePieces
<1>10. QED
  BY <1>3, <1>4, <1>7, <1>8, <1>9 DEF PiecesTellFile, v

-----------------------------------------------------------------------------
(* A metalink is used as it is written: its mirrors in the order of any
   preferences, its pieces as a proof of a file of any size.               *)
THEOREM MetalinkAlwaysAsWritten ==
  ASSUME NEW Byte,
         subject = "preferences" => input \in Seq(1 .. 100),
         subject = "pieces" =>
           input \in [length : Nat \ {0}, wanted : Seq(Byte) \ {<<>>}, found : Seq(Byte)]
  PROVE  MetalinkAsWritten
<1>1. PiecesTellFile
  <2>1. CASE subject = "pieces"
    BY <2>1, PiecesAlwaysTell
  <2>2. CASE subject # "pieces"
    BY <2>2 DEF PiecesTellFile
  <2>3. QED
    BY <2>1, <2>2
<1>2. QED
  BY <1>1, PreferredAlwaysFirst DEF MetalinkAsWritten

-----------------------------------------------------------------------------
(* The hash of a metalink is one of those it has. *)
LEMMA HashAlwaysUsed ==
  ASSUME subject = "hashes" => input \subseteq ToSet(Preferences)
  PROVE  HashUsed
<1>1. Preferences[1] = "sha-512" /\ Preferences[2] = "sha-384"
  BY DEF Preferences
<1>2. ASSUME NEW types \in SUBSET ToSet(Preferences), types # {},
             Preferences[2] \in types => Preferences[1] \in types
      PROVE  MetalinkChecksum(types) \in types \ {Preferences[2]}
  <2> DEFINE at == {i \in 1 .. 5 : Preferences[i] \in types}
  <2>1. Len(Preferences) = 5 /\ DOMAIN Preferences = 1 .. 5
    BY DEF Preferences
  <2>2. \A i \in 1 .. 5 : i # 2 => Preferences[i] # Preferences[2]
    BY DEF Preferences
  <2>3. at # {}
    <3>1. PICK t \in types : t \in ToSet(Preferences)
      BY <1>2
    <3>2. PICK i \in 1 .. 5 : t = Preferences[i]
      BY <2>1, <3>1 DEF ToSet
    <3>3. QED
      BY <3>1, <3>2
  <2>4. Min(at) \in at /\ \A i \in at : Min(at) <= i
    BY <2>3, Smallest
  <2>5. SelectInSeq(Preferences, LAMBDA t : t \in types) = Min(at)
    BY <2>1, <2>3 DEF SelectInSeq
  <2>6. PICK m : m = Min(at)
    OBVIOUS
  <2>7. m \in 1 .. 5 /\ Preferences[m] \in types /\ \A i \in at : m <= i
    BY <2>4, <2>6
  <2>8. m # 2
    <3>1. SUFFICES ASSUME m = 2 PROVE FALSE
      OBVIOUS
    <3>2. 1 \in at
      BY <1>2, <2>7, <3>1
    <3>3. QED
      BY <2>7, <3>1, <3>2
  <2>9. GetPreferredChecksum(types) = Preferences[m]
    <3>1. m # 0
      BY <2>7
    <3>2. QED
      BY <2>5, <2>6, <3>1, Zenon DEF GetPreferredChecksum
  <2>10. MetalinkChecksum(types) = Preferences[m]
    <3>1. Preferences[m] # "sha-384"
      BY <1>1, <2>2, <2>7, <2>8, Zenon
    <3>2. QED
      BY <2>9, <3>1, Zenon DEF MetalinkChecksum
  <2>11. QED
    BY <2>2, <2>7, <2>8, <2>10
<1>3. QED
  BY <1>1, <1>2, Zenon DEF HashUsed

(* The length of a sum tells each algorithm but blake3. *)
LEMMA LengthTells ==
  \A a \in {"md5", "sha1", "sha256", "sha512"} : DetectAlgorithmFromLength(HexLength[a]) = a
<1>1. DetectAlgorithmFromLength(HexLength["md5"]) = "md5"
  <2>1. HexLength["md5"] = 32
    BY DEF HexLength, Algorithms
  <2>2. QED
    BY <2>1 DEF DetectAlgorithmFromLength
<1>2. DetectAlgorithmFromLength(HexLength["sha1"]) = "sha1"
  <2>1. HexLength["sha1"] = 40
    BY DEF HexLength, Algorithms
  <2>2. QED
    BY <2>1 DEF DetectAlgorithmFromLength
<1>3. DetectAlgorithmFromLength(HexLength["sha256"]) = "sha256"
  <2>1. HexLength["sha256"] = 64
    BY DEF HexLength, Algorithms
  <2>2. QED
    BY <2>1 DEF DetectAlgorithmFromLength
<1>4. DetectAlgorithmFromLength(HexLength["sha512"]) = "sha512"
  <2>1. HexLength["sha512"] = 128
    BY DEF HexLength, Algorithms
  <2>2. QED
    BY <2>1 DEF DetectAlgorithmFromLength
<1>5. QED
  BY <1>1, <1>2, <1>3, <1>4

(* A sum is verified with the algorithm that made it. *)
LEMMA AutoAlwaysTells ==
  ASSUME subject = "sum" => input \in SumCases
  PROVE  AutoTellsAlgorithm
<1> SUFFICES ASSUME subject = "sum", NEW sum \in SumCases, sum = input, sum.of # "none",
                    sum.prefix = sum.of \/ (sum.prefix = "" /\ sum.of # "blake3")
             PROVE  ParseChecksumAuto(sum) = sum.of
  BY DEF AutoTellsAlgorithm
<1>1. sum.of \in Algorithms
  BY DEF SumCases
<1>2. CASE sum.prefix = sum.of
  BY <1>1, <1>2 DEF ParseChecksumAuto, Algorithms
<1>3. CASE sum.prefix = "" /\ sum.of # "blake3"
  <2>1. ParseChecksumAuto(sum) = DetectAlgorithmFromLength(HexLength[sum.of])
    BY <1>3 DEF ParseChecksumAuto
  <2>2. sum.of \in {"md5", "sha1", "sha256", "sha512"}
    BY <1>1, <1>3 DEF Algorithms
  <2>3. \A a \in {"md5", "sha1", "sha256", "sha512"} : DetectAlgorithmFromLength(HexLength[a]) = a
    BY LengthTells
  <2>4. QED
    BY <2>1, <2>2, <2>3
<1>4. QED  BY <1>2, <1>3

(* The file a sum is found in tells its algorithm. *)
LEMMA AlgorithmOfFile ==
  ASSUME NEW words \in SUBSET {"md5", "sha1"}, NEW i \in DOMAIN Extensions
  PROVE  AlgorithmOfURL(words \cup {Extensions[i]}) = Extensions[i]
<1> DEFINE all == words \cup {Extensions[i]}
           at == {k \in 1 .. Len(SumsNames) : SumsNames[k] \in all}
<1>1. /\ Len(SumsNames) = 4 /\ SumsNames[1] = "sha256" /\ SumsNames[2] = "sha512"
      /\ SumsNames[3] = "md5" /\ SumsNames[4] = "sha1"
  BY DEF SumsNames
<1>2. Extensions[i] \in {"sha256", "sha512", "md5"}
  BY DEF Extensions
<1>3. SelectInSeq(SumsNames, LAMBDA w : w \in all) = IF at # {} THEN Min(at) ELSE 0
  BY DEF SelectInSeq
<1>4. at \subseteq Nat /\ at \subseteq 1 .. 4 /\ at # {}
  BY <1>1, <1>2
<1>5. PICK m : m = Min(at)
  OBVIOUS
<1>6. m \in at /\ \A k \in at : m <= k
  BY <1>4, <1>5, Smallest
<1>7. m \in 1 .. 4 /\ SumsNames[m] \in all /\ \A k \in 1 .. 4 : SumsNames[k] \in all => m <= k
  BY <1>1, <1>6
<1>8. AlgorithmOfURL(all) = SumsNames[m]
  BY <1>3, <1>4, <1>5, <1>7 DEF AlgorithmOfURL
<1> HIDE DEF at
<1>9. CASE Extensions[i] = "sha256"
  BY <1>1, <1>7, <1>8, <1>9
<1>10. CASE Extensions[i] = "sha512"
  BY <1>1, <1>7, <1>8, <1>10
<1>11. CASE Extensions[i] = "md5"
  BY <1>1, <1>7, <1>8, <1>11
<1>12. QED
  BY <1>2, <1>9, <1>10, <1>11

(* The sum of --auto-verify is one of the target. *)
LEMMA AutoVerifyAlwaysRight ==
  ASSUME NEW Line,
         subject = "auto" => /\ input.served \in [DOMAIN Extensions -> Seq(Line)]
                             /\ input.words \subseteq {"md5", "sha1"}
  PROVE  AutoVerifyIsRight
<1> SUFFICES ASSUME subject = "auto" PROVE AutoVerifyIsRight
  BY DEF AutoVerifyIsRight
<1>0. PICK served \in [DOMAIN Extensions -> Seq(Line)], words \in SUBSET {"md5", "sha1"} :
        served = input.served /\ words = input.words
  OBVIOUS
<1> DEFINE fits(line) == line.kind = "alone" \/ (line.kind = "named" /\ Last(line.path) = "f")
           fit(lines) == {i \in DOMAIN lines : fits(lines[i])}
           found(lines) == ParseChecksumFile(lines, "f")
           hits == {i \in DOMAIN served : found(served[i]) # 0}
           r == AutoVerify(served, words, "f")
<1>1. ASSUME NEW lines \in Seq(Line)
      PROVE  IF fit(lines) = {} THEN found(lines) = 0
             ELSE found(lines) \in DOMAIN lines /\ fits(lines[found(lines)]) /\ found(lines) # 0
  <2>1. found(lines) = IF fit(lines) = {} THEN 0 ELSE Min(fit(lines))
    BY DEF ParseChecksumFile, NamesTarget
  <2>2. DOMAIN lines = 1 .. Len(lines) /\ Len(lines) \in Nat
    OBVIOUS
  <2>3. fit(lines) \subseteq Nat /\ fit(lines) \subseteq DOMAIN lines /\ 0 \notin DOMAIN lines
    BY <2>2
  <2>4. fit(lines) # {} => Min(fit(lines)) \in fit(lines)
    BY <2>3, Smallest
  <2> HIDE DEF found
  <2>5. CASE fit(lines) = {}
    BY <2>1, <2>5
  <2>6. CASE fit(lines) # {}
    BY <2>1, <2>3, <2>4, <2>6
  <2>7. QED  BY <2>5, <2>6
<1>2. DOMAIN served = DOMAIN Extensions /\ \A i \in DOMAIN served : served[i] \in Seq(Line)
  OBVIOUS
<1>3. r = IF hits = {} THEN [file |-> 0, line |-> 0, algorithm |-> "none"]
          ELSE [file |-> Min(hits), line |-> found(served[Min(hits)]),
                algorithm |-> AlgorithmOfURL(words \cup {Extensions[Min(hits)]})]
  BY DEF AutoVerify
<1>4. DOMAIN Extensions \subseteq Nat /\ 0 \notin DOMAIN Extensions
  BY DEF Extensions
<1>5. hits \subseteq Nat /\ hits # {} => Min(hits) \in hits
  BY Smallest
<1> HIDE DEF r, found
<1>6. CASE hits = {}
  <2>1. r.file = 0
    BY <1>3, <1>6
  <2>2. \A i \in DOMAIN served : \A line \in ToSet(served[i]) : ~fits(line)
    <3>1. ASSUME NEW i \in DOMAIN served PROVE fit(served[i]) = {}
      BY <1>1, <1>2, <1>6
    <3>2. QED
      BY <3>1 DEF ToSet
  <2>3. QED
    BY <1>0, <2>1, <2>2 DEF AutoVerifyIsRight, r
<1>7. CASE hits # {}
  <2>1. PICK m \in hits : m = Min(hits)
    BY <1>2, <1>4, <1>5, <1>7
  <2>2. r.file = m /\ r.line = found(served[m])
        /\ r.algorithm = AlgorithmOfURL(words \cup {Extensions[m]})
    BY <1>3, <1>7, <2>1
  <2>3. m \in DOMAIN Extensions /\ m # 0 /\ served[m] \in Seq(Line) /\ found(served[m]) # 0
    BY <1>2, <1>4, <2>1
  <2>4. fits(served[m][found(served[m])])
    BY <1>1, <2>3
  <2>5. r.algorithm = Extensions[m]
    BY <2>2, <2>3, AlgorithmOfFile
  <2>6. QED
    BY <1>0, <2>2, <2>3, <2>4, <2>5 DEF AutoVerifyIsRight, r
<1>8. QED  BY <1>6, <1>7

(* Of the sums there are for a file, in a metalink, an option or any number
   of lines beside it, one that belongs to it is taken, with its algorithm. *)
THEOREM SumsAlwaysRight ==
  ASSUME NEW Line,
         subject = "hashes" => input \subseteq ToSet(Preferences),
         subject = "sum" => input \in SumCases,
         subject = "auto" => /\ input.served \in [DOMAIN Extensions -> Seq(Line)]
                             /\ input.words \subseteq {"md5", "sha1"}
  PROVE  SumsAsWritten
<1>1. HashUsed
  BY HashAlwaysUsed
<1>2. AutoTellsAlgorithm
  BY AutoAlwaysTells
<1>3. AutoVerifyIsRight
  BY AutoVerifyAlwaysRight
<1>4. QED
  BY <1>1, <1>2, <1>3 DEF SumsAsWritten

-----------------------------------------------------------------------------
(* The retries made are those the configuration allows. *)
LEMMA RetryAlwaysFaithful ==
  ASSUME subject = "retry" =>
           /\ input.config.maxRetries \in Nat
           /\ input.config.errors \subseteq {"network", "server"}
           /\ input.script.outcomes \in
                [1 .. input.config.maxRetries + 1 ->
                   {"ok", "network", "server", "cancelled", "deadline"}]
  PROVE  RetryIsFaithful
<1> SUFFICES ASSUME subject = "retry" PROVE RetryIsFaithful
  BY DEF RetryIsFaithful
<1> DEFINE config == input.config
           script == input.script
           outcomes == script.outcomes
           Ends(a) == \/ outcomes[a + 1] = "ok"
                      \/ ~shouldRetry(config, outcomes[a + 1])
                      \/ a >= config.maxRetries
                      \/ script.doneAt = a + 1
           T == {a \in 0 .. config.maxRetries : Ends(a)}
           retried == IF config.errors = {} THEN {"network"} ELSE config.errors
<1>1. /\ config.maxRetries \in Nat
      /\ config.errors \subseteq {"network", "server"}
      /\ outcomes \in [1 .. config.maxRetries + 1 ->
                         {"ok", "network", "server", "cancelled", "deadline"}]
  OBVIOUS
<1>2. PICK last : last = Min(T)
  OBVIOUS
<1>3. last \in T /\ \A a \in T : last <= a
  <2>1. T \subseteq Nat /\ config.maxRetries \in T
    BY <1>1
  <2>2. QED
    BY <1>2, <2>1, Smallest
<1>4. last \in 0 .. config.maxRetries /\ last \in Nat /\ Ends(last)
  BY <1>1, <1>3
<1>5. PICK err : err = outcomes[last + 1]
  OBVIOUS
<1>6. err \in {"ok", "network", "server", "cancelled", "deadline"}
  <2>1. last + 1 \in 1 .. config.maxRetries + 1
    BY <1>1, <1>4
  <2>2. QED
    BY <1>1, <1>5, <2>1
<1>7. \A e \in {"ok", "network", "server", "cancelled", "deadline"} :
        shouldRetry(config, e) <=> e \in retried
  BY <1>1 DEF shouldRetry, isNetworkError
<1>8. "ok" \notin retried
  BY <1>1
<1> DEFINE told == IF err = "ok" THEN "none"
                   ELSE IF ~shouldRetry(config, err) \/ last >= config.maxRetries THEN err
                   ELSE "cancelled"
           r == Do(config, script)
<1>9. r = [calls |-> last + 1, error |-> told]
  <2>1. ~(config.maxRetries < 0)
    BY <1>1
  <2>2. QED
    BY <1>2, <1>5, <2>1, Zenon DEF Do
<1>10. r.calls = last + 1 /\ r.error = told
  BY <1>9
<1>11. r.calls \in 1 .. config.maxRetries + 1
  BY <1>1, <1>4, <1>10
<1>12. \A i \in 1 .. r.calls - 1 : outcomes[i] \in retried
  <2> SUFFICES ASSUME NEW i \in 1 .. last PROVE outcomes[i] \in retried
    BY <1>4, <1>10
  <2>1. i - 1 \in 0 .. config.maxRetries /\ i - 1 < last /\ (i - 1) + 1 = i
        /\ i \in 1 .. config.maxRetries + 1
    BY <1>1, <1>4
  <2>2. i - 1 \notin T
    BY <1>3, <1>4, <2>1
  <2>3. shouldRetry(config, outcomes[i])
    BY <2>1, <2>2
  <2>4. outcomes[i] \in {"ok", "network", "server", "cancelled", "deadline"}
    BY <1>1, <2>1
  <2>5. QED
    BY <1>7, <2>3, <2>4
<1>13. outcomes[r.calls] = err
  BY <1>5, <1>10
<1>14. \/ err = "ok" \/ ~shouldRetry(config, err) \/ last >= config.maxRetries
       \/ script.doneAt = last + 1
  BY <1>4, <1>5
<1> HIDE DEF T, Ends, retried, r
<1>15. r.error = "none" <=> err = "ok"
  BY <1>6, <1>10
<1>16. r.error \in {err, "none"} \/ (r.error = "cancelled" /\ script.doneAt = r.calls)
  BY <1>6, <1>10, <1>14
<1>17. err \in retried /\ r.calls <= config.maxRetries => script.doneAt = r.calls
  <2>1. last + 1 <= config.maxRetries => ~(last >= config.maxRetries)
    BY <1>1, <1>4
  <2>2. QED
    BY <1>6, <1>7, <1>8, <1>10, <1>14, <2>1
<1>18. QED
  BY <1>11, <1>12, <1>13, <1>15, <1>16, <1>17 DEF RetryIsFaithful, r, retried

(* The powers of x up to its m-th. *)
IsPower(h, x, m) ==
  /\ h \in [0 .. m -> Nat] /\ h[0] = 1
  /\ \A k \in 1 .. m : h[k] = x * h[k - 1]

LEMMA PowersAgree ==
  ASSUME NEW x \in Nat, NEW m \in Nat, NEW n \in Nat, n <= m, NEW g, NEW h,
         IsPower(g, x, m), IsPower(h, x, n)
  PROVE  \A k \in 0 .. n : g[k] = h[k]
<1> DEFINE bad == {k \in 0 .. n : g[k] # h[k]}
<1> SUFFICES ASSUME bad # {} PROVE FALSE
  OBVIOUS
<1>1. PICK k : k = Min(bad)
  OBVIOUS
<1>2. k \in bad /\ \A j \in bad : k <= j
  BY <1>1, Smallest
<1>3. k # 0
  BY <1>2 DEF IsPower
<1>4. k \in 1 .. n /\ k \in 1 .. m /\ k - 1 \in 0 .. n /\ k - 1 < k
  BY <1>2, <1>3
<1>5. g[k - 1] = h[k - 1]
  BY <1>2, <1>4
<1>6. g[k] = x * g[k - 1] /\ h[k] = x * h[k - 1]
  BY <1>4 DEF IsPower
<1>7. QED
  BY <1>2, <1>5, <1>6

LEMMA PowersExist == ASSUME NEW x \in Nat, NEW m \in Nat PROVE \E h : IsPower(h, x, m)
<1> DEFINE bad == {k \in Nat : ~\E h : IsPower(h, x, k)}
<1> SUFFICES ASSUME bad # {} PROVE FALSE
  OBVIOUS
<1>1. PICK k : k = Min(bad)
  OBVIOUS
<1>2. k \in bad /\ \A j \in bad : k <= j
  BY <1>1, Smallest
<1>3. k # 0
  <2>1. IsPower([i \in 0 .. 0 |-> 1], x, 0)
    BY DEF IsPower
  <2>2. QED
    BY <1>2, <2>1
<1>4. k - 1 \in Nat /\ k \in Nat /\ k - 1 \notin bad
  BY <1>2, <1>3
<1>5. PICK h : IsPower(h, x, k - 1)
  BY <1>4
<1> DEFINE g == [i \in 0 .. k |-> IF i = k THEN x * h[k - 1] ELSE h[i]]
<1>6. h \in [0 .. k - 1 -> Nat] /\ h[0] = 1 /\ \A i \in 1 .. k - 1 : h[i] = x * h[i - 1]
  BY <1>5 DEF IsPower
<1>7. x * h[k - 1] \in Nat
  BY <1>4, <1>6
<1>8. g \in [0 .. k -> Nat] /\ g[0] = 1
  BY <1>3, <1>4, <1>6, <1>7
<1>9. ASSUME NEW i \in 1 .. k PROVE g[i] = x * g[i - 1]
  <2>1. i - 1 \in 0 .. k /\ i - 1 # k /\ i \in 0 .. k
    BY <1>4
  <2>2. g[i - 1] = h[i - 1]
    BY <2>1
  <2>3. CASE i = k
    BY <2>1, <2>2, <2>3
  <2>4. CASE i # k
    <3>1. i \in 1 .. k - 1
      BY <1>4, <2>4
    <3>2. g[i] = h[i]
      BY <2>1, <2>4
    <3>3. QED
      BY <1>6, <2>2, <3>1, <3>2
  <2>5. QED  BY <2>3, <2>4
<1>10. IsPower(g, x, k)
  BY <1>8, <1>9 DEF IsPower
<1>11. QED
  BY <1>2, <1>10

PowerRule(f, x) == f = [k \in Nat |-> IF k = 0 THEN 1 ELSE x * f[k - 1]]

LEMMA PowExists == ASSUME NEW x \in Nat PROVE \E f : PowerRule(f, x)
<1> DEFINE G(m) == CHOOSE h : IsPower(h, x, m)
           f == [k \in Nat |-> G(k)[k]]
<1>1. \A m \in Nat : IsPower(G(m), x, m)
  BY PowersExist
<1> HIDE DEF G
<1>2. ASSUME NEW k \in Nat PROVE f[k] = IF k = 0 THEN 1 ELSE x * f[k - 1]
  <2>1. CASE k = 0
    BY <1>1, <2>1 DEF IsPower
  <2>2. CASE k # 0
    <3>1. k - 1 \in Nat /\ k - 1 <= k /\ k \in 1 .. k /\ k - 1 \in 0 .. k - 1
      BY <2>2
    <3>2. G(k)[k - 1] = G(k - 1)[k - 1]
      BY <1>1, <3>1, PowersAgree
    <3>3. G(k)[k] = x * G(k)[k - 1]
      BY <1>1, <3>1 DEF IsPower
    <3>4. QED
      BY <2>2, <3>1, <3>2, <3>3
  <2>3. QED  BY <2>1, <2>2
<1>3. PowerRule(f, x)
  BY <1>2 DEF PowerRule
<1>4. QED
  BY <1>3

(* What math.Pow gives. *)
LEMMA PowGrows ==
  ASSUME NEW x \in Nat, x >= 1, NEW n \in Nat
  PROVE  Pow(x, n) \in Nat /\ Pow(x, n) >= 1 /\ Pow(x, n + 1) = x * Pow(x, n)
<1>1. PICK f : f = CHOOSE g : PowerRule(g, x)
  OBVIOUS
<1>2. PowerRule(f, x)
  BY <1>1, PowExists
<1>3. \A k \in Nat : Pow(x, k) = f[k]
  BY <1>1, Zenon DEF Pow, PowerRule
<1>4. f[n + 1] = x * f[n]
  BY <1>2 DEF PowerRule
<1>5. f[0] = 1 /\ \A k \in Nat : k # 0 => f[k] = x * f[k - 1]
  BY <1>2 DEF PowerRule
<1> DEFINE bad == {k \in Nat : ~(f[k] \in Nat /\ f[k] >= 1)}
<1>6. bad = {}
  <2> SUFFICES ASSUME bad # {} PROVE FALSE
    OBVIOUS
  <2>1. PICK k : k = Min(bad)
    OBVIOUS
  <2>2. k \in bad /\ \A j \in bad : k <= j
    BY <2>1, Smallest
  <2>3. k # 0 /\ k \in Nat
    BY <1>5, <2>2
  <2>4. k - 1 \in Nat /\ k - 1 \notin bad
    BY <2>2, <2>3
  <2>5. f[k - 1] \in Nat /\ f[k - 1] >= 1
    BY <2>4
  <2>6. f[k] = x * f[k - 1]
    BY <1>5, <2>3
  <2>7. x * f[k - 1] \in Nat /\ x * f[k - 1] >= 1
    BY <2>5
  <2>8. QED
    BY <2>2, <2>6, <2>7
<1>7. f[n] \in Nat /\ f[n] >= 1
  BY <1>6
<1>8. QED
  BY <1>3, <1>4, <1>7

LEMMA DelaysAlwaysBounded ==
  ASSUME subject = "delay" =>
           /\ input.config.initial \in Nat /\ input.config.multiplier \in Nat \ {0}
           /\ input.config.maxDelay \in Nat /\ input.config.jitter \in 0 .. 100
           /\ input.attempt \in Nat
  PROVE  DelaysBounded
<1> SUFFICES ASSUME subject = "delay" PROVE DelaysBounded
  BY DEF DelaysBounded
<1>1. PICK i \in Nat, x \in Nat \ {0}, most \in Nat, j \in 0 .. 100, n \in Nat :
        /\ i = input.config.initial /\ x = input.config.multiplier
        /\ most = input.config.maxDelay /\ j = input.config.jitter /\ n = input.attempt
  OBVIOUS
<1>2. PICK p \in Nat, q \in Nat : p = Pow(x, n) /\ q = Pow(x, n + 1) /\ q = x * p
  <2>1. x \in Nat /\ x >= 1 /\ n + 1 \in Nat
    BY <1>1
  <2>2. QED
    BY <2>1, PowGrows
<1>3. i * p \in Nat /\ i * q \in Nat /\ i * p <= i * q
  <2>1. p <= q
    <3>1. x >= 1 /\ x \in Nat
      BY <1>1
    <3>2. x * p >= p
      BY <3>1, <1>2
    <3>3. QED
      BY <1>2, <3>2
  <2>2. PICK s \in Nat : q = p + s
    <3>1. q - p \in Nat /\ q = p + (q - p)
      BY <1>2, <2>1
    <3>2. QED
      BY <3>1
  <2>3. i * q = i * p + i * s /\ i * p \in Nat /\ i * s \in Nat
    BY <2>2
  <2>4. QED
    BY <2>3
<1>4. PICK b \in Nat : b = SmallestOf(i * p, most) /\ b <= most
  BY <1>3 DEF SmallestOf
<1>5. b = BaseDelay(input.config, n)
  BY <1>1, <1>2, <1>4, Zenon DEF BaseDelay
<1>6. BaseDelay(input.config, n + 1) = SmallestOf(i * q, most)
  BY <1>1, <1>2, Zenon DEF BaseDelay
<1>7. b <= SmallestOf(i * q, most)
  BY <1>3, <1>4 DEF SmallestOf
<1>8. PICK w : w = (b * j) \div 100
  OBVIOUS
<1>9. w \in Nat /\ 100 * w <= b * j /\ b * j \in Nat
  BY <1>8
<1>10. b * j <= b * 100 /\ b * j <= most * j
  BY <1>4
<1>11. calculateDelay(input.config, n) = b - w .. b + w
  BY <1>1, <1>5, <1>8, Zenon DEF calculateDelay
<1>12. ASSUME NEW d \in b - w .. b + w
       PROVE  0 <= d /\ 100 * d <= (100 + j) * most
  <2>1. (100 + j) * most = 100 * most + most * j
    OBVIOUS
  <2>2. 0 <= b - w
    BY <1>9, <1>10
  <2>3. 100 * b + 100 * w <= 100 * most + most * j
    BY <1>4, <1>9, <1>10
  <2>4. QED
    BY <1>9, <2>1, <2>2, <2>3
<1>13. QED
  BY <1>1, <1>5, <1>6, <1>7, <1>11, <1>12 DEF DelaysBounded

(* However often a call may be retried, and whatever its outcomes and its
   delays are, it is repeated as its configuration says.                   *)
THEOREM RetriesAlwaysAsConfigured ==
  ASSUME subject = "retry" =>
           /\ input.config.maxRetries \in Nat
           /\ input.config.errors \subseteq {"network", "server"}
           /\ input.script.outcomes \in
                [1 .. input.config.maxRetries + 1 ->
                   {"ok", "network", "server", "cancelled", "deadline"}],
         subject = "delay" =>
           /\ input.config.initial \in Nat /\ input.config.multiplier \in Nat \ {0}
           /\ input.config.maxDelay \in Nat /\ input.config.jitter \in 0 .. 100
           /\ input.attempt \in Nat
  PROVE  RetriesAsConfigured
  BY RetryAlwaysFaithful, DelaysAlwaysBounded DEF RetriesAsConfigured

-----------------------------------------------------------------------------
(* What follows the last slash has no slash in it. *)
LEMMA BaseNameCut ==
  ASSUME NEW Char, NEW path \in Seq(Char)
  PROVE  /\ BaseName(path) \in Seq(Char)
         /\ \A i \in 1 .. Len(BaseName(path)) : BaseName(path)[i] # "/"
<1> DEFINE S == {i \in 1 .. Len(path) : path[i] = "/"}
           k == IF S # {} THEN Max(S) ELSE 0
<1>1. Len(path) \in Nat /\ \A i \in 1 .. Len(path) : path[i] \in Char
  OBVIOUS
<1>2. k \in 0 .. Len(path) /\ \A i \in k + 1 .. Len(path) : path[i] # "/"
  <2>1. S \subseteq 0 .. Len(path)
    BY <1>1
  <2>2. S # {} => Max(S) \in S /\ \A y \in S : Max(S) >= y
    BY <1>1, <2>1, Largest
  <2>3. k \in 0 .. Len(path) /\ \A y \in S : k >= y
    <3>1. CASE S # {}
      BY <1>1, <2>1, <2>2, <3>1
    <3>2. CASE S = {}
      BY <1>1, <3>2
    <3>3. QED
      BY <3>1, <3>2
  <2> HIDE DEF k
  <2>4. ASSUME NEW i \in k + 1 .. Len(path)
        PROVE  path[i] # "/"
    <3>1. i \in 1 .. Len(path) /\ ~(k >= i)
      BY <1>1, <2>3
    <3>2. QED
      BY <2>3, <3>1
  <2>5. QED
    BY <2>3, <2>4
<1>3. BaseName(path) = SubSeq(path, k + 1, Len(path))
  BY DEF BaseName, SelectLastInSeq
<1> HIDE DEF k
<1>4. \A i \in k + 1 .. Len(path) : path[i] \in Char /\ i \in 1 .. Len(path)
  BY <1>1, <1>2
<1>5. PICK b : b = SubSeq(path, k + 1, Len(path))
  OBVIOUS
<1>6. /\ b \in Seq(Char) /\ Len(b) = IF k + 1 <= Len(path) THEN Len(path) - (k + 1) + 1 ELSE 0
      /\ \A i \in 1 .. Len(path) - (k + 1) + 1 : b[i] = path[k + 1 + i - 1]
  BY <1>1, <1>2, <1>4, <1>5, SubSeqProperties
<1>7. ASSUME NEW i \in 1 .. Len(b)
      PROVE  b[i] # "/"
  <2>1. i \in 1 .. Len(path) - (k + 1) + 1 /\ k + 1 + i - 1 \in k + 1 .. Len(path)
    BY <1>1, <1>2, <1>6
  <2>2. QED
    BY <1>2, <1>6, <2>1
<1>8. QED
  BY <1>3, <1>5, <1>6, <1>7

(* What is left between the first and the last other character. *)
LEMMA TrimCuts ==
  ASSUME NEW Char, NEW name \in Seq(Char), NEW c
  PROVE  /\ Trim(name, c) \in Seq(Char)
         /\ \A i \in 1 .. Len(Trim(name, c)) : \E j \in 1 .. Len(name) : Trim(name, c)[i] = name[j]
         /\ 1 <= Len(Trim(name, c)) => Trim(name, c)[1] # c
<1> DEFINE kept == {i \in DOMAIN name : name[i] # c}
<1>1. /\ Len(name) \in Nat /\ DOMAIN name = 1 .. Len(name)
      /\ \A i \in 1 .. Len(name) : name[i] \in Char
  OBVIOUS
<1>2. CASE kept = {}
  <2>1. Trim(name, c) = <<>>
    BY <1>2 DEF Trim
  <2>2. <<>> \in Seq(Char) /\ Len(<<>>) = 0
    BY EmptySeq
  <2>3. QED
    BY <2>1, <2>2
<1>3. CASE kept # {}
  <2>1. kept \subseteq Nat /\ kept \subseteq 0 .. Len(name)
    BY <1>1
  <2>2. PICK f, l : f = Min(kept) /\ l = Max(kept)
    OBVIOUS
  <2>3. f \in kept /\ l \in kept /\ f <= l
    BY <1>1, <1>3, <2>1, <2>2, Smallest, Largest
  <2>4. f \in 1 .. Len(name) /\ l \in 1 .. Len(name) /\ name[f] # c
    BY <1>1, <2>3
  <2>5. Trim(name, c) = SubSeq(name, f, l)
    BY <1>3, <2>2 DEF Trim
  <2>6. PICK b : b = SubSeq(name, f, l)
    OBVIOUS
  <2>7. \A i \in f .. l : name[i] \in Char
    BY <1>1, <2>4
  <2>8. /\ b \in Seq(Char) /\ Len(b) = l - f + 1
        /\ \A i \in 1 .. l - f + 1 : b[i] = name[f + i - 1]
    BY <2>3, <2>4, <2>6, <2>7, SubSeqProperties
  <2>9. b[1] # c
    <3>1. 1 \in 1 .. l - f + 1 /\ f + 1 - 1 = f
      BY <2>3, <2>4
    <3>2. QED
      BY <2>4, <2>8, <3>1
  <2>10. ASSUME NEW i \in 1 .. Len(b)
         PROVE  \E j \in 1 .. Len(name) : b[i] = name[j]
    <3>1. i \in 1 .. l - f + 1 /\ f + i - 1 \in 1 .. Len(name)
      BY <1>1, <2>4, <2>8
    <3>2. QED
      BY <2>8, <3>1
  <2>11. QED
    BY <2>5, <2>6, <2>8, <2>9, <2>10
<1>4. QED  BY <1>2, <1>3

(* A name is cut at a "?", and is shorter then. *)
LEMMA BeforeQueryCuts ==
  ASSUME NEW Char, NEW b \in Seq(Char), \A i \in 1 .. Len(b) : b[i] # "/"
  PROVE  /\ BeforeQuery(b) \in Seq(Char)
         /\ \A i \in 1 .. Len(BeforeQuery(b)) : BeforeQuery(b)[i] # "/"
         /\ "?" \notin ToSet(b) => BeforeQuery(b) = b
         /\ "?" \in ToSet(b) => Len(BeforeQuery(b)) < Len(b)
<1> DEFINE I == {i \in 1 .. Len(b) : b[i] = "?"}
<1>1. Len(b) \in Nat /\ DOMAIN b = 1 .. Len(b) /\ ToSet(b) = {b[i] : i \in 1 .. Len(b)}
  BY DEF ToSet
<1>2. SelectInSeq(b, LAMBDA c : c = "?") = IF I # {} THEN Min(I) ELSE 0
  BY DEF SelectInSeq
<1>3. CASE I = {}
  <2>1. "?" \notin ToSet(b)
    BY <1>1, <1>3
  <2>2. BeforeQuery(b) = b
    BY <1>2, <1>3 DEF BeforeQuery
  <2>3. QED
    BY <2>1, <2>2
<1>4. CASE I # {}
  <2>1. "?" \in ToSet(b)
    BY <1>1, <1>4
  <2>2. PICK m : m = Min(I)
    OBVIOUS
  <2>3. m \in 1 .. Len(b)
    <3>1. I \subseteq Nat
      BY <1>1
    <3>2. m \in I
      BY <1>4, <2>2, <3>1, Smallest
    <3>3. QED
      BY <3>2
  <2>4. BeforeQuery(b) = SubSeq(b, 1, m - 1)
    <3>1. SelectInSeq(b, LAMBDA c : c = "?") = m
      BY <1>2, <1>4, <2>2
    <3>2. m # 0
      BY <2>3
    <3>3. QED
      BY <3>1, <3>2, Zenon DEF BeforeQuery
  <2>5. PICK q : q = SubSeq(b, 1, m - 1)
    OBVIOUS
  <2>6. \A i \in 1 .. m - 1 : b[i] \in Char /\ b[i] # "/"
    BY <1>1, <2>3
  <2>7. /\ q \in Seq(Char) /\ Len(q) = m - 1 /\ \A i \in 1 .. m - 1 : q[i] = b[i]
    <3>1. q \in Seq(Char) /\ Len(q) = IF 1 <= m - 1 THEN m - 1 - 1 + 1 ELSE 0
      BY <2>3, <2>5, <2>6, SubSeqProperties
    <3>2. Len(q) = m - 1
      BY <2>3, <3>1
    <3>3. \A i \in 1 .. m - 1 - 1 + 1 : q[i] = b[1 + i - 1]
      BY <2>3, <2>5, <2>6, SubSeqProperties
    <3>4. \A i \in 1 .. m - 1 : i \in 1 .. m - 1 - 1 + 1 /\ 1 + i - 1 = i
      BY <2>3
    <3>5. QED
      BY <3>1, <3>2, <3>3, <3>4
  <2>8. BeforeQuery(b) = q
    BY <2>4, <2>5
  <2>9. Len(q) < Len(b) /\ \A i \in 1 .. Len(q) : q[i] # "/"
    BY <1>1, <2>3, <2>6, <2>7
  <2>10. QED
    BY <2>1, <2>7, <2>8, <2>9
<1>5. QED
  BY <1>3, <1>4

(* What QueryUnescape changes, and what it leaves. *)
Escapes == {"+", "%2F", "%2E"}

LEMMA UnescapeCases ==
  ASSUME NEW Char, NEW q \in Seq(Char)
  PROVE  /\ DOMAIN QueryUnescape(q) = 1 .. Len(q)
         /\ \A i \in 1 .. Len(q) :
              QueryUnescape(q)[i] = IF "%" \in ToSet(q) THEN q[i] ELSE Decoded(q[i])
         /\ QueryUnescape(q) = q <=> "%" \in ToSet(q) \/ ToSet(q) \cap Escapes = {}
         /\ QueryUnescape(q) = <<>> <=> q = <<>>
<1>1. /\ Len(q) \in Nat /\ DOMAIN q = 1 .. Len(q) /\ ToSet(q) = {q[i] : i \in 1 .. Len(q)}
      /\ q = [i \in 1 .. Len(q) |-> q[i]] /\ (q = <<>> <=> Len(q) = 0)
  BY EmptySeq DEF ToSet
<1>2. Contains(q, "%") <=> "%" \in ToSet(q)
  BY <1>1 DEF Contains
<1>3. PICK d : d = QueryUnescape(q)
  OBVIOUS
<1>4. \A c : Decoded(c) # c <=> c \in Escapes
  BY DEF Decoded, Escapes
<1>5. CASE "%" \in ToSet(q)
  <2>1. d = q
    BY <1>2, <1>3, <1>5 DEF QueryUnescape
  <2>2. QED
    BY <1>1, <1>3, <1>5, <2>1
<1>6. CASE "%" \notin ToSet(q)
  <2>1. d = [i \in DOMAIN q |-> Decoded(q[i])]
    BY <1>2, <1>3, <1>6 DEF QueryUnescape
  <2>2. DOMAIN d = 1 .. Len(q) /\ \A i \in 1 .. Len(q) : d[i] = Decoded(q[i])
    BY <1>1, <2>1
  <2>3. d = [i \in 1 .. Len(q) |-> Decoded(q[i])]
    BY <1>1, <2>1
  <2>4. d = q <=> \A i \in 1 .. Len(q) : Decoded(q[i]) = q[i]
    BY <1>1, <2>2, <2>3
  <2>5. (\A i \in 1 .. Len(q) : Decoded(q[i]) = q[i]) <=> ToSet(q) \cap Escapes = {}
    BY <1>1, <1>4
  <2>6. d = <<>> <=> q = <<>>
    <3>1. d = <<>> => 1 .. Len(q) = {}
      BY <2>2
    <3>2. q = <<>> => d = <<>>
      BY <1>1, <2>3
    <3>3. QED
      BY <1>1, <3>1, <3>2
  <2>7. QED
    BY <1>3, <1>6, <2>2, <2>4, <2>5, <2>6
<1>7. QED
  BY <1>5, <1>6

(* A decoded segment is one name unless it decodes to a path. *)
LEMMA DecodedStays ==
  ASSUME NEW Char, NEW q \in Seq(Char), \A i \in 1 .. Len(q) : q[i] # "/"
  PROVE  Stays(OrDownload(QueryUnescape(q))) <=> ~DecodesToPath(q)
<1>1. /\ Len(q) \in Nat /\ DOMAIN q = 1 .. Len(q) /\ ToSet(q) = {q[i] : i \in 1 .. Len(q)}
      /\ (q = <<>> <=> Len(q) = 0)
  BY EmptySeq DEF ToSet
<1>2. PICK d : d = QueryUnescape(q)
  OBVIOUS
<1>3. /\ DOMAIN d = 1 .. Len(q) /\ (d = <<>> <=> q = <<>>)
      /\ \A i \in 1 .. Len(q) : d[i] = IF "%" \in ToSet(q) THEN q[i] ELSE Decoded(q[i])
  BY <1>2, UnescapeCases
<1>4. ToSet(d) = {d[i] : i \in 1 .. Len(q)}
  BY <1>3 DEF ToSet
<1>5. CASE q = <<>>
  <2>1. OrDownload(d) = <<"download">>
    BY <1>3, <1>5 DEF OrDownload
  <2>2. Stays(<<"download">>)
    <3>1. ToSet(<<"download">>) = {"download"}
      BY DEF ToSet
    <3>2. <<"download">> \notin {<<>>, <<".">>, <<".", ".">>}
      OBVIOUS
    <3>3. QED
      BY <3>1, <3>2 DEF Stays
  <2>3. Len(q) = 0 /\ ToSet(q) = {}
    BY <1>1, <1>5
  <2>4. ~DecodesToPath(q)
    BY <2>3 DEF DecodesToPath
  <2>5. QED
    BY <1>2, <2>1, <2>2, <2>4
<1>6. CASE q # <<>>
  <2>1. OrDownload(d) = d /\ d # <<>>
    BY <1>3, <1>6 DEF OrDownload
  <2>2. \A i \in 1 .. Len(q) :
          /\ d[i] = "." <=> q[i] = "." \/ ("%" \notin ToSet(q) /\ q[i] = "%2E")
          /\ d[i] = "/" <=> "%" \notin ToSet(q) /\ q[i] = "%2F"
          /\ d[i] = "\\" <=> q[i] = "\\"
    BY <1>3 DEF Decoded
  <2>3. /\ "/" \in ToSet(d) <=> "%2F" \in ToSet(q) /\ "%" \notin ToSet(q)
        /\ "\\" \in ToSet(d) <=> "\\" \in ToSet(q)
    BY <1>1, <1>4, <2>2
  <2>4. d \in {<<".">>, <<".", ".">>} <=> Len(q) \in {1, 2} /\ \A i \in 1 .. Len(q) : d[i] = "."
    <3>1. /\ DOMAIN <<".">> = 1 .. 1 /\ <<".">> = [i \in 1 .. 1 |-> "."]
          /\ DOMAIN <<".", ".">> = 1 .. 2 /\ <<".", ".">> = [i \in 1 .. 2 |-> "."]
      OBVIOUS
    <3>2. ASSUME d \in {<<".">>, <<".", ".">>}
          PROVE  Len(q) \in {1, 2} /\ \A i \in 1 .. Len(q) : d[i] = "."
      <4>1. PICK n \in {1, 2} : d = [i \in 1 .. n |-> "."]
        BY <3>1, <3>2
      <4>2. 1 .. Len(q) = 1 .. n
        BY <1>3, <4>1
      <4>3. Len(q) = n
        <5>1. PICK l \in Nat : l = Len(q)
          BY <1>1
        <5>2. \A i \in Nat : i \in 1 .. l <=> i \in 1 .. n
          BY <4>2, <5>1
        <5>3. 1 \in 1 .. n /\ n \in 1 .. n /\ n + 1 \notin 1 .. n
          OBVIOUS
        <5>4. n <= l /\ l < n + 1
          BY <5>2, <5>3
        <5>5. QED
          BY <5>1, <5>4
      <4>4. QED
        BY <4>1, <4>2, <4>3
    <3>3. ASSUME Len(q) \in {1, 2}, \A i \in 1 .. Len(q) : d[i] = "."
          PROVE  d \in {<<".">>, <<".", ".">>}
      <4>0. d = [i \in DOMAIN d |-> d[i]]
        <5>1. CASE "%" \in ToSet(q)
          <6>1. d = q
            BY <1>2, <5>1, UnescapeCases
          <6>2. QED
            BY <6>1
        <5>2. CASE "%" \notin ToSet(q)
          <6>1. ~Contains(q, "%")
            BY <1>1, <5>2 DEF Contains
          <6>2. d = [i \in DOMAIN q |-> Decoded(q[i])]
            BY <1>2, <6>1 DEF QueryUnescape
          <6>3. QED
            BY <6>2
        <5>3. QED
          BY <5>1, <5>2
      <4>1. d = [i \in 1 .. Len(q) |-> "."]
        BY <1>3, <3>3, <4>0
      <4>2. QED
        BY <3>1, <3>3, <4>1
    <3>4. QED
      BY <3>2, <3>3
  <2>5. (\A i \in 1 .. Len(q) : d[i] = ".") <=>
          \/ ToSet(q) \subseteq {"."}
          \/ "%" \notin ToSet(q) /\ ToSet(q) \subseteq {".", "%2E"}
    BY <1>1, <2>2
  <2>6. ToSet(q) \subseteq {".", "%2E"} => "%" \notin ToSet(q)
    OBVIOUS
  <2>7. d \in {<<".">>, <<".", ".">>} <=> Len(q) \in {1, 2} /\ ToSet(q) \subseteq {".", "%2E"}
    BY <2>4, <2>5, <2>6
  <2>8. Stays(d) <=> ~DecodesToPath(q)
    BY <2>1, <2>3, <2>7 DEF Stays, DecodesToPath
  <2>9. QED
    BY <1>2, <2>1, <2>8
<1>7. QED
  BY <1>5, <1>6

(* A segment that is not decoded is one name unless it is dots or has the other
   separator.                                                              *)
LEMMA SegmentStays ==
  ASSUME NEW Char, NEW b \in Seq(Char), \A i \in 1 .. Len(b) : b[i] # "/"
  PROVE  Stays(OrDownload(b)) <=> b \notin {<<".">>, <<".", ".">>} /\ "\\" \notin ToSet(b)
<1>1. ToSet(b) = {b[i] : i \in 1 .. Len(b)}
  BY DEF ToSet
<1>2. "/" \notin ToSet(b)
  BY <1>1
<1>3. CASE b = <<>>
  <2>1. ToSet(<<"download">>) = {"download"} /\ ToSet(<<>>) = {}
    BY DEF ToSet
  <2>2. <<"download">> \notin {<<>>, <<".">>, <<".", ".">>} /\ <<>> \notin {<<".">>, <<".", ".">>}
    OBVIOUS
  <2>3. QED
    BY <1>3, <2>1, <2>2 DEF Stays, OrDownload
<1>4. CASE b # <<>>
  BY <1>2, <1>4 DEF Stays, OrDownload
<1>5. QED
  BY <1>3, <1>4

(* The file of a url goes into the output directory or not, as its last
   segment says.                                                           *)
LEMMA UrlNameAlwaysStays ==
  ASSUME NEW Char, subject = "name" => input \in Seq(Char)
  PROVE  UrlNameStays
<1> SUFFICES ASSUME subject = "name", NEW path \in Seq(Char), path = input
             PROVE  /\ Stays(HttpName(path)) <=> ~DecodesToPath(BeforeQuery(BaseName(path)))
                    /\ Stays(QueueName(path)) <=> ~DecodesToPath(BaseName(path))
                    /\ Stays(Http3Name(path)) <=>
                         /\ BaseName(path) \notin {<<".">>, <<".", ".">>}
                         /\ "\\" \notin ToSet(BaseName(path))
  BY DEF UrlNameStays
<1>1. PICK b : b = BaseName(path)
  OBVIOUS
<1>2. b \in Seq(Char) /\ \A i \in 1 .. Len(b) : b[i] # "/"
  BY <1>1, BaseNameCut
<1>3. PICK q : q = BeforeQuery(b)
  OBVIOUS
<1>4. q \in Seq(Char) /\ \A i \in 1 .. Len(q) : q[i] # "/"
  BY <1>2, <1>3, BeforeQueryCuts
<1>5. Stays(OrDownload(QueryUnescape(q))) <=> ~DecodesToPath(q)
  BY <1>4, DecodedStays
<1>6. Stays(OrDownload(QueryUnescape(b))) <=> ~DecodesToPath(b)
  BY <1>2, DecodedStays
<1>7. Stays(OrDownload(b)) <=> b \notin {<<".">>, <<".", ".">>} /\ "\\" \notin ToSet(b)
  BY <1>2, SegmentStays
<1>8. QED
  BY <1>1, <1>3, <1>5, <1>6, <1>7, Zenon DEF HttpName, QueueName, Http3Name

(* Two names are of one length, or one of them stands for no name. *)
LEMMA CutNamesDiffer ==
  ASSUME NEW n \in Nat, NEW k \in Nat, k < n,
         NEW cut, NEW name, DOMAIN cut = 1 .. k, DOMAIN name = 1 .. n,
         cut = <<>> <=> k = 0, name # <<>>,
         n = 1 => name[1] # "download"
  PROVE  OrDownload(cut) # OrDownload(name)
<1>1. OrDownload(name) = name
  BY DEF OrDownload
<1>2. CASE k = 0
  <2>1. OrDownload(cut) = <<"download">>
    BY <1>2 DEF OrDownload
  <2>2. DOMAIN <<"download">> = 1 .. 1 /\ <<"download">>[1] = "download"
    OBVIOUS
  <2>3. ASSUME name = <<"download">> PROVE FALSE
    <3>1. 1 .. n = 1 .. 1 /\ name[1] = "download"
      BY <2>2, <2>3
    <3>2. n = 1
      BY <3>1
    <3>3. QED
      BY <3>1, <3>2
  <2>4. QED
    BY <1>1, <2>1, <2>3
<1>3. CASE k # 0
  <2>1. OrDownload(cut) = cut
    BY <1>3 DEF OrDownload
  <2>2. n \in 1 .. n /\ n \notin 1 .. k
    OBVIOUS
  <2>3. QED
    BY <1>1, <2>1, <2>2
<1>4. QED
  BY <1>2, <1>3

(* The copies of the code agree on a name just when they decode and cut the
   same of it.                                                             *)
LEMMA NamesAlwaysAgree ==
  ASSUME NEW Char, subject = "name" => input \in Seq(Char)
  PROVE  NamesAgree
<1> SUFFICES ASSUME subject = "name", NEW path \in Seq(Char), path = input
             PROVE  LET segment == ToSet(BaseName(path))
                    IN /\ QueueName(path) = HttpName(path) <=> "?" \notin segment
                       /\ Http3Name(path) = HttpName(path) <=>
                            /\ "?" \notin segment
                            /\ "%" \in segment \/ segment \cap Escapes = {}
  BY DEF NamesAgree, Escapes
<1>1. PICK b : b = BaseName(path)
  OBVIOUS
<1>2. b \in Seq(Char) /\ \A i \in 1 .. Len(b) : b[i] # "/"
  BY <1>1, BaseNameCut
<1>3. PICK q : q = BeforeQuery(b)
  OBVIOUS
<1>4. /\ q \in Seq(Char)
      /\ "?" \notin ToSet(b) => q = b
      /\ "?" \in ToSet(b) => Len(q) < Len(b)
  BY <1>2, <1>3, BeforeQueryCuts
<1>5. PICK c, d : c = QueryUnescape(q) /\ d = QueryUnescape(b)
  OBVIOUS
<1>6. DOMAIN c = 1 .. Len(q) /\ (c = <<>> <=> q = <<>>)
  BY <1>4, <1>5, UnescapeCases
<1>7. /\ DOMAIN d = 1 .. Len(b) /\ (d = <<>> <=> b = <<>>)
      /\ d = b <=> "%" \in ToSet(b) \/ ToSet(b) \cap Escapes = {}
      /\ \A i \in 1 .. Len(b) : d[i] = IF "%" \in ToSet(b) THEN b[i] ELSE Decoded(b[i])
  BY <1>2, <1>5, UnescapeCases
<1>8. /\ HttpName(path) = OrDownload(c) /\ QueueName(path) = OrDownload(d)
      /\ Http3Name(path) = OrDownload(b)
  BY <1>1, <1>3, <1>5, Zenon DEF HttpName, QueueName, Http3Name
<1>9. CASE "?" \in ToSet(b)
  <2>1. /\ Len(q) \in Nat /\ Len(b) \in Nat /\ Len(q) < Len(b)
        /\ (q = <<>> <=> Len(q) = 0) /\ (b = <<>> <=> Len(b) = 0)
        /\ DOMAIN b = 1 .. Len(b) /\ ToSet(b) = {b[i] : i \in 1 .. Len(b)}
    BY <1>2, <1>4, <1>9, EmptySeq DEF ToSet
  <2>2. Len(b) = 1 => b[1] = "?"
    BY <1>9, <2>1
  <2>3. Len(b) = 1 => d[1] = "?"
    <3>1. Decoded("?") = "?"
      BY DEF Decoded
    <3>2. ASSUME Len(b) = 1 PROVE d[1] = "?"
      <4>1. b[1] = "?" /\ 1 \in 1 .. Len(b)
        BY <2>1, <2>2, <3>2
      <4>2. d[1] = IF "%" \in ToSet(b) THEN b[1] ELSE Decoded(b[1])
        BY <1>7, <4>1
      <4>3. QED
        BY <3>1, <4>1, <4>2, Zenon
    <3>3. QED
      BY <3>2
  <2>4. OrDownload(c) # OrDownload(d)
    <3>1. d # <<>> /\ (c = <<>> <=> Len(q) = 0) /\ (Len(b) = 1 => d[1] # "download")
      BY <1>6, <1>7, <2>1, <2>3
    <3>2. QED
      BY <1>6, <1>7, <2>1, <3>1, CutNamesDiffer
  <2>5. OrDownload(c) # OrDownload(b)
    <3>1. b # <<>> /\ (c = <<>> <=> Len(q) = 0) /\ (Len(b) = 1 => b[1] # "download")
      BY <1>6, <2>1, <2>2
    <3>2. QED
      BY <1>6, <2>1, <3>1, CutNamesDiffer
  <2>6. QED
    BY <1>1, <1>8, <1>9, <2>4, <2>5
<1>10. CASE "?" \notin ToSet(b)
  <2>1. c = d
    BY <1>4, <1>5, <1>10
  <2>2. OrDownload(b) = OrDownload(d) <=> b = d
    <3>1. CASE b = <<>>
      BY <1>7, <3>1
    <3>2. CASE b # <<>>
      BY <1>7, <3>2 DEF OrDownload
    <3>3. QED
      BY <3>1, <3>2
  <2>3. QED
    BY <1>1, <1>7, <1>8, <1>10, <2>1, <2>2
<1>11. QED
  BY <1>9, <1>10

(* What sanitizeFilename leaves is no way out of the directory. *)
LEMMA SanitizedStays ==
  ASSUME NEW Char, NEW name \in Seq(Char)
  PROVE  /\ ToSet(sanitizeFilename(name)) \cap {"/", "\\"} = {}
         /\ sanitizeFilename(name) \notin {<<".">>, <<".", ".">>}
<1> DEFINE u == [i \in DOMAIN name |-> IF name[i] \in {"/", "\\"} THEN "_" ELSE name[i]]
           Both == Char \cup {"_"}
           v == Trim(u, " ")
           whole == Trim(v, ".")
<1>1. Len(name) \in Nat /\ DOMAIN name = 1 .. Len(name) /\ \A i \in 1 .. Len(name) : name[i] \in Char
  OBVIOUS
<1>2. /\ u \in Seq(Both) /\ Len(u) = Len(name)
      /\ \A i \in 1 .. Len(u) : u[i] \notin {"/", "\\"}
  <2>1. \A i \in 1 .. Len(name) : u[i] \in Both /\ u[i] \notin {"/", "\\"}
    BY <1>1
  <2>2. DOMAIN u = 1 .. Len(name) /\ u = [i \in 1 .. Len(name) |-> u[i]]
    BY <1>1
  <2> HIDE DEF u, Both
  <2>3. u \in [1 .. Len(name) -> Both]
    BY <2>1, <2>2
  <2>4. u \in Seq(Both) /\ Len(u) = Len(name)
    BY <1>1, <2>3
  <2>5. QED
    BY <2>1, <2>4
<1> HIDE DEF u, Both
<1>3. v \in Seq(Both) /\ \A i \in 1 .. Len(v) : \E j \in 1 .. Len(u) : v[i] = u[j]
  <2>1. PICK c : c = " "
    BY Zenon
  <2>2. v = Trim(u, c)
    BY <2>1, Zenon
  <2> HIDE DEF v
  <2>3. QED
    BY <1>2, <2>2, TrimCuts
<1> HIDE DEF v
<1>4. /\ whole \in Seq(Both) /\ \A i \in 1 .. Len(whole) : \E j \in 1 .. Len(v) : whole[i] = v[j]
      /\ 1 <= Len(whole) => whole[1] # "."
  BY <1>3, TrimCuts
<1> HIDE DEF whole
<1>5. \A i \in 1 .. Len(whole) : whole[i] \notin {"/", "\\"}
  BY <1>2, <1>3, <1>4
<1>6. DOMAIN whole = 1 .. Len(whole) /\ Len(whole) \in Nat
  BY <1>4
<1> DEFINE r == [i \in DOMAIN whole |-> IF whole[i] = ":" THEN "_" ELSE whole[i]]
<1>7. sanitizeFilename(name) = r
  BY DEF sanitizeFilename, TrimEnds, whole, v, u
<1>8. DOMAIN r = 1 .. Len(whole) /\ \A i \in 1 .. Len(whole) : r[i] \notin {"/", "\\"}
  BY <1>5, <1>6
<1>9. ToSet(r) \cap {"/", "\\"} = {}
  BY <1>8 DEF ToSet
<1>10. 1 \in DOMAIN r => r[1] # "."
  BY <1>4, <1>6
<1> HIDE DEF r
<1>11. r \notin {<<".">>, <<".", ".">>}
  BY <1>10
<1>12. QED
  BY <1>7, <1>9, <1>11

(* Whatever the server sends as a name, the file is in the output directory;
   for whatever url it is so, and all copies of the code have one name for it,
   if and only if its last segment is as UrlNameStays and NamesAgree say.   *)
THEOREM NamesAlwaysAsMade ==
  ASSUME NEW Char,
         subject = "name" => input \in Seq(Char),
         subject = "header" => input \in Seq([key : STRING, value : Seq(Char)])
  PROVE  NamesAsMade
<1>1. UrlNameStays /\ NamesAgree
  BY UrlNameAlwaysStays, NamesAlwaysAgree
<1>2. ServerNameStays
  <2> SUFFICES ASSUME subject = "header", NEW parts \in Seq([key : STRING, value : Seq(Char)]),
                      parts = input
               PROVE  Stays(extractFilename(parts, <<"/", "a">>))
    BY DEF ServerNameStays
  <2> DEFINE at(key) == {i \in 1 .. Len(parts) : parts[i].key = key}
             last(key) == LET i == SelectLastInSeq(parts, LAMBDA p : p.key = key)
                          IN IF i = 0 THEN <<>> ELSE parts[i].value
             given == IF last("filename*") # <<>> THEN last("filename*") ELSE last("filename")
             name == parseContentDisposition(parts)
  <2>1. ASSUME NEW key PROVE last(key) \in Seq(Char)
    <3>1. Len(parts) \in Nat /\ \A i \in 1 .. Len(parts) : parts[i].value \in Seq(Char)
      <4>1. Len(parts) \in Nat /\ \A i \in 1 .. Len(parts) :
              parts[i] \in [key : STRING, value : Seq(Char)]
        <5>1. PICK Part : Part = [key : STRING, value : Seq(Char)]
          OBVIOUS
        <5>2. parts \in Seq(Part)
          BY <5>1
        <5>3. QED
          BY <5>1, <5>2, LenProperties, ElementOfSeq
      <4>2. QED
        BY <4>1
    <3>2. <<>> \in Seq(Char)
      BY EmptySeq
    <3>3. at(key) \subseteq 0 .. Len(parts)
      BY <3>1
    <3>4. at(key) # {} => Max(at(key)) \in at(key)
      BY <3>1, <3>3, Largest
    <3>5. SelectLastInSeq(parts, LAMBDA p : p.key = key)
            = IF at(key) # {} THEN Max(at(key)) ELSE 0
      BY DEF SelectLastInSeq
    <3> HIDE DEF at
    <3>6. CASE at(key) # {}
      <4>1. Max(at(key)) \in 1 .. Len(parts)
        BY <3>4, <3>6 DEF at
      <4>2. QED
        BY <3>1, <3>2, <3>5, <3>6, <4>1
    <3>7. CASE at(key) = {}
      BY <3>2, <3>5, <3>7
    <3>8. QED  BY <3>6, <3>7
  <2>2. name = sanitizeFilename(given)
    BY DEF parseContentDisposition
  <2> HIDE DEF last
  <2>3. given \in Seq(Char)
    BY <2>1
  <2> HIDE DEF given, name
  <2>4. ToSet(name) \cap {"/", "\\"} = {} /\ name \notin {<<".">>, <<".", ".">>}
    BY <2>2, <2>3, SanitizedStays
  <2>5. HttpName(<<"/", "a">>) = <<"a">>
    <3> DEFINE p == <<"/", "a">>
    <3>1. Len(p) = 2 /\ p[1] = "/" /\ p[2] = "a" /\ p \in Seq({"/", "a"})
      OBVIOUS
    <3>2. {i \in 1 .. Len(p) : p[i] = "/"} = {1}
      BY <3>1
    <3>3. Max({1}) = 1
      BY DEF Max
    <3>4. BaseName(p) = SubSeq(p, 2, 2)
      <4>1. BaseName(p) = SubSeq(p, (IF {i \in 1 .. Len(p) : p[i] = "/"} # {}
                                     THEN Max({i \in 1 .. Len(p) : p[i] = "/"}) ELSE 0) + 1,
                                    Len(p))
        BY DEF BaseName, SelectLastInSeq
      <4>2. {1} # {}
        OBVIOUS
      <4>3. BaseName(p) = SubSeq(p, (IF {1} # {} THEN Max({1}) ELSE 0) + 1, 2)
        BY <3>1, <3>2, <4>1, Zenon
      <4> HIDE DEF p
      <4>4. (IF {1} # {} THEN Max({1}) ELSE 0) + 1 = 2
        BY <3>3, <4>2
      <4>5. QED
        BY <4>3, <4>4, Zenon
    <3>5. BaseName(p) = <<"a">>
      BY <3>1, <3>4
    <3>6. BeforeQuery(<<"a">>) = <<"a">>
      <4>1. {i \in 1 .. Len(<<"a">>) : <<"a">>[i] = "?"} = {}
        OBVIOUS
      <4>2. QED
        BY <4>1 DEF BeforeQuery, SelectInSeq
    <3>7. QueryUnescape(<<"a">>) = <<"a">>
      <4> DEFINE q == <<"a">>
      <4>1. q[1] = "a" /\ DOMAIN q = {1} /\ 1 .. Len(q) = {1}
        OBVIOUS
      <4>2. ~Contains(q, "%")
        BY <4>1 DEF Contains
      <4>3. QueryUnescape(q) = [i \in DOMAIN q |-> Decoded(q[i])]
        BY <4>2, Zenon DEF QueryUnescape
      <4>4. q = [i \in DOMAIN q |-> q[i]]
        OBVIOUS
      <4> HIDE DEF q
      <4>5. \A i \in DOMAIN q : Decoded(q[i]) = q[i]
        BY <4>1 DEF Decoded
      <4>6. QED
        BY <4>3, <4>4, <4>5, Zenon DEF q
    <3>8. QED
      BY <3>5, <3>6, <3>7 DEF HttpName, OrDownload
  <2>6. ToSet(<<"a">>) = {"a"} /\ <<"a">> \notin {<<>>, <<".">>, <<".", ".">>}
    BY DEF ToSet
  <2>7. extractFilename(parts, <<"/", "a">>) = IF name # <<>> THEN name ELSE <<"a">>
    BY <2>5 DEF extractFilename, name
  <2>8. QED
    BY <2>4, <2>6, <2>7 DEF Stays
<1>3. QED
  BY <1>1, <1>2 DEF NamesAsMade

-----------------------------------------------------------------------------
(* Sequences: what is in the ones that are made of others. *)

(* What is left of a sequence without its last element. *)
LEMMA FrontIs ==
  ASSUME NEW S, NEW s \in Seq(S), s # <<>>
  PROVE  /\ Len(s) \in Nat \ {0} /\ Front(s) \in Seq(S) /\ Len(Front(s)) = Len(s) - 1
         /\ Last(s) \in S /\ \A i \in 1 .. Len(s) - 1 : Front(s)[i] = s[i]
<1>1. Len(s) \in Nat \ {0} /\ \A i \in 1 .. Len(s) : s[i] \in S
  BY EmptySeq, ElementOfSeq
<1>2. PICK n : n = Len(s) - 1
  OBVIOUS
<1>3. n \in Nat /\ \A i \in 1 .. n : s[i] \in S
  BY <1>1, <1>2
<1>4. /\ SubSeq(s, 1, n) \in Seq(S) /\ Len(SubSeq(s, 1, n)) = n
      /\ \A i \in 1 .. n : SubSeq(s, 1, n)[i] = s[i]
  BY <1>3, SubSeqProperties
<1>5. QED
  BY <1>1, <1>2, <1>4 DEF Front, Last

(* What it is to be a prefix, place by place. *)
LEMMA PrefixIs ==
  ASSUME NEW S, NEW f \in Seq(S), NEW g \in Seq(S)
  PROVE  IsPrefix(f, g) <=> /\ Len(f) <= Len(g)
                            /\ \A i \in 1 .. Len(f) : f[i] = g[i]
<1>1. PICK n \in Nat : n = Len(f)
  BY LenProperties
<1>2. PICK m \in Nat : m = Len(g)
  BY LenProperties
<1>3. \A i \in 1 .. n : f[i] \in S
  BY <1>1, ElementOfSeq
<1>4. /\ SubSeq(f, 1, n) \in Seq(S) /\ Len(SubSeq(f, 1, n)) = n
      /\ \A i \in 1 .. n : SubSeq(f, 1, n)[i] = f[i]
  BY <1>3, SubSeqProperties
<1>5. ASSUME n <= m
      PROVE  SubSeq(f, 1, n) = SubSeq(g, 1, n) <=> \A i \in 1 .. n : f[i] = g[i]
  <2>1. \A i \in 1 .. n : g[i] \in S
    BY <1>2, <1>5, ElementOfSeq
  <2>2. /\ SubSeq(g, 1, n) \in Seq(S) /\ Len(SubSeq(g, 1, n)) = n
        /\ \A i \in 1 .. n : SubSeq(g, 1, n)[i] = g[i]
    BY <2>1, SubSeqProperties
  <2>3. (\A i \in 1 .. n : f[i] = g[i]) => SubSeq(f, 1, n) = SubSeq(g, 1, n)
    BY <1>4, <2>2, SeqEqual
  <2>4. QED
    BY <1>4, <2>2, <2>3
<1>6. QED
  BY <1>1, <1>2, <1>5 DEF IsPrefix

(* Two sequences one after the other, and a part of one. *)
LEMMA ConcatIs ==
  ASSUME NEW S, NEW s \in Seq(S), NEW t \in Seq(S)
  PROVE  /\ s \o t \in Seq(S) /\ Len(s \o t) = Len(s) + Len(t)
         /\ \A i \in 1 .. Len(s) : (s \o t)[i] = s[i]
         /\ \A i \in 1 .. Len(t) : (s \o t)[Len(s) + i] = t[i]
<1>1. /\ s \o t \in Seq(S) /\ Len(s \o t) = Len(s) + Len(t)
      /\ \A i \in 1 .. Len(s) + Len(t) :
           (s \o t)[i] = IF i <= Len(s) THEN s[i] ELSE t[i - Len(s)]
  BY ConcatProperties
<1>2. PICK m \in Nat : m = Len(s)
  BY LenProperties
<1>3. PICK n \in Nat : n = Len(t)
  BY LenProperties
<1>4. \A i \in 1 .. m : i \in 1 .. m + n /\ i <= m
  OBVIOUS
<1>5. \A i \in 1 .. n : m + i \in 1 .. m + n /\ ~(m + i <= m) /\ (m + i) - m = i
  OBVIOUS
<1>6. QED
  BY <1>1, <1>2, <1>3, <1>4, <1>5

(* What a part of a sequence has. *)
LEMMA CutIs ==
  ASSUME NEW S, NEW s \in Seq(S), NEW m \in Nat, NEW n \in Nat, m <= n, n <= Len(s)
  PROVE  /\ SubSeq(s, m + 1, n) \in Seq(S) /\ Len(SubSeq(s, m + 1, n)) = n - m
         /\ \A i \in 1 .. n - m : SubSeq(s, m + 1, n)[i] = s[m + i]
<1>1. \A i \in m + 1 .. n : i \in 1 .. Len(s)
  BY LenProperties
<1>2. \A i \in m + 1 .. n : s[i] \in S
  BY <1>1, ElementOfSeq
<1>3. m + 1 \in Int /\ n \in Int
  OBVIOUS
<1>4. /\ SubSeq(s, m + 1, n) \in Seq(S)
      /\ Len(SubSeq(s, m + 1, n)) = IF m + 1 <= n THEN n - (m + 1) + 1 ELSE 0
      /\ \A i \in 1 .. n - (m + 1) + 1 : SubSeq(s, m + 1, n)[i] = s[(m + 1) + i - 1]
  BY <1>2, <1>3, SubSeqProperties
<1>5. n - (m + 1) + 1 = n - m /\ \A i \in Int : (m + 1) + i - 1 = m + i
  OBVIOUS
<1>6. QED
  BY <1>4, <1>5

(* The smallest number of a set that is known. *)
LEMMA MinIs ==
  ASSUME NEW T, T \subseteq Nat, NEW x \in T, \A y \in T : x <= y
  PROVE  Min(T) = x
<1>1. Min(T) \in T /\ \A y \in T : Min(T) <= y
  BY Smallest
<1>2. Min(T) <= x /\ x <= Min(T) /\ x \in Nat /\ Min(T) \in Nat
  BY <1>1
<1>3. QED
  BY <1>2

(* Short sequences. *)
LEMMA OneIs ==
  ASSUME NEW S, NEW x \in S
  PROVE  <<x>> \in Seq(S) /\ Len(<<x>>) = 1 /\ <<x>>[1] = x /\ <<x>> # <<>>
  OBVIOUS

(* A sequence of two. *)
LEMMA TwoAre ==
  ASSUME NEW S, NEW x \in S, NEW y \in S
  PROVE  <<x, y>> \in Seq(S) /\ Len(<<x, y>>) = 2 /\ <<x, y>>[1] = x /\ <<x, y>>[2] = y
  OBVIOUS

(* A recursive function whose value at a place is made from its value at an
   earlier one, which need not be the one before, exists.                  *)
JumpRule(f, n, base, jump, step) ==
  f[0] = base /\ \A i \in 1 .. n : f[i] = step[i][f[jump[i]]]

(* Such a function exists: at no place can it be the first to be missing. *)
LEMMA JumpExists ==
  ASSUME NEW X, NEW base \in X, NEW n \in Nat, NEW jump \in [1 .. n -> Nat],
         \A i \in 1 .. n : jump[i] < i, NEW step \in [1 .. n -> [X -> X]]
  PROVE  \E f \in [0 .. n -> X] : JumpRule(f, n, base, jump, step)
<1> DEFINE has(k) == \E f \in [0 .. k -> X] : JumpRule(f, k, base, jump, step)
           bad == {k \in 0 .. n : ~has(k)}
<1> SUFFICES ASSUME bad # {} PROVE FALSE
  <2>1. n \in 0 .. n
    OBVIOUS
  <2>2. QED
    BY <2>1
<1>1. PICK k : k = Min(bad)
  OBVIOUS
<1>2. k \in bad /\ \A j \in bad : k <= j
  <2>1. bad \subseteq Nat
    OBVIOUS
  <2>2. QED
    BY <1>1, <2>1, Smallest
<1>3. k # 0
  <2>1. [i \in 0 .. 0 |-> base] \in [0 .. 0 -> X]
    OBVIOUS
  <2>2. JumpRule([i \in 0 .. 0 |-> base], 0, base, jump, step)
    BY DEF JumpRule
  <2>3. has(0)
    BY <2>1, <2>2
  <2>4. QED
    BY <1>2, <2>3
<1>4. k \in 1 .. n /\ k - 1 \in 0 .. n /\ k - 1 < k
  BY <1>2, <1>3
<1>5. has(k - 1)
  BY <1>2, <1>4
<1>6. PICK f \in [0 .. k - 1 -> X] : JumpRule(f, k - 1, base, jump, step)
  BY <1>5
<1> HIDE DEF bad
<1> DEFINE x == step[k][f[jump[k]]]
           g == [i \in 0 .. k |-> IF i = k THEN x ELSE f[i]]
<1>7. \A i \in 1 .. k : i \in 1 .. n /\ jump[i] \in 0 .. i - 1
  BY <1>4
<1>8. \A i \in 1 .. k : jump[i] \in 0 .. k - 1 /\ jump[i] # k
  <2>1. ASSUME NEW i \in 1 .. k PROVE jump[i] \in 0 .. k - 1 /\ jump[i] # k
    BY <1>4, <1>7
  <2>2. QED
    BY <2>1
<1>9. x \in X
  <2>1. step[k] \in [X -> X] /\ f[jump[k]] \in X
    BY <1>4, <1>7
  <2>2. QED
    BY <2>1
<1>10. g \in [0 .. k -> X]
  <2>1. ASSUME NEW i \in 0 .. k PROVE (IF i = k THEN x ELSE f[i]) \in X
    <3>1. i = k \/ i \in 0 .. k - 1
      BY <1>4
    <3> HIDE DEF x
    <3>2. QED
      BY <1>9, <3>1
  <2> HIDE DEF x
  <2>2. QED
    BY <2>1
<1>11. \A i \in 0 .. k - 1 : g[i] = f[i]
  BY <1>4
<1>12. g[0] = base
  <2>1. 0 \in 0 .. k - 1
    BY <1>4
  <2>2. QED
    BY <1>6, <1>11, <2>1 DEF JumpRule
<1>13. ASSUME NEW i \in 1 .. k PROVE g[i] = step[i][g[jump[i]]]
  <2>1. g[jump[i]] = f[jump[i]]
    BY <1>8, <1>11
  <2>2. CASE i = k
    <3>1. g[k] = x
      BY <1>4
    <3>2. QED
      BY <2>1, <2>2, <3>1
  <2>3. CASE i # k
    <3>1. i \in 1 .. k - 1 /\ i \in 0 .. k - 1
      BY <1>4, <2>3
    <3>2. f[i] = step[i][f[jump[i]]]
      BY <1>6, <3>1 DEF JumpRule
    <3>3. QED
      BY <1>11, <2>1, <3>1, <3>2
  <2>4. QED
    BY <2>2, <2>3
<1>14. JumpRule(g, k, base, jump, step)
  <2> HIDE DEF g
  <2>1. QED
    BY <1>12, <1>13 DEF JumpRule
<1>15. has(k)
  BY <1>10, <1>14
<1>16. QED
  BY <1>2, <1>15 DEF bad

-----------------------------------------------------------------------------

(* Sequences, one after the other. *)
FlatRule(f, seqs) ==
  f = [i \in 1 .. Len(seqs) |-> IF i = 1 THEN seqs[i] ELSE f[i - 1] \o seqs[i]]

(* The sequences one after the other, made one at a time. *)
LEMMA FlatIs ==
  ASSUME NEW S, NEW seqs \in Seq(Seq(S)), seqs # <<>>
  PROVE  \E f : /\ FlattenSeq(seqs) = f[Len(seqs)] /\ f[1] = seqs[1]
                /\ \A i \in 1 .. Len(seqs) : f[i] \in Seq(S)
                /\ \A i \in 2 .. Len(seqs) : f[i] = f[i - 1] \o seqs[i]
<1> SUFFICES ASSUME NEW n \in Nat, n = Len(seqs), n > 0
             PROVE  \E f : /\ FlattenSeq(seqs) = f[n] /\ f[1] = seqs[1]
                           /\ \A i \in 1 .. n : f[i] \in Seq(S)
                           /\ \A i \in 2 .. n : f[i] = f[i - 1] \o seqs[i]
  <2>1. Len(seqs) \in Nat /\ Len(seqs) > 0
    BY EmptySeq
  <2>2. QED
    BY <2>1
<1> DEFINE jump == [i \in 1 .. n |-> i - 1]
           step == [i \in 1 .. n |-> [x \in Seq(S) |-> x \o seqs[i]]]
<1>1. \A i \in 1 .. n : seqs[i] \in Seq(S)
  BY ElementOfSeq
<1>2. <<>> \in Seq(S)
  BY EmptySeq
<1>3. jump \in [1 .. n -> Nat] /\ \A i \in 1 .. n : jump[i] < i
  OBVIOUS
<1>4. step \in [1 .. n -> [Seq(S) -> Seq(S)]]
  <2>1. ASSUME NEW i \in 1 .. n, NEW x \in Seq(S) PROVE x \o seqs[i] \in Seq(S)
    BY <1>1, ConcatProperties
  <2>2. QED
    BY <2>1
<1>5. PICK g \in [0 .. n -> Seq(S)] : JumpRule(g, n, <<>>, jump, step)
  <2> HIDE DEF jump, step
  <2>1. QED
    BY <1>2, <1>3, <1>4, JumpExists
<1>6. g[0] = <<>> /\ \A i \in 1 .. n : g[i] = g[i - 1] \o seqs[i]
  <2>1. ASSUME NEW i \in 1 .. n PROVE g[i] = g[i - 1] \o seqs[i]
    <3>1. g[i] = step[i][g[jump[i]]] /\ jump[i] = i - 1
      BY <1>5 DEF JumpRule
    <3>2. g[i - 1] \in Seq(S)
      <4> HIDE DEF jump, step
      <4>1. i - 1 \in 0 .. n
        OBVIOUS
      <4>2. QED
        BY <4>1
    <3>3. QED
      BY <3>1, <3>2
  <2>2. g[0] = <<>>
    BY <1>5 DEF JumpRule
  <2>3. QED
    BY <2>1, <2>2
<1>7. g[1] = seqs[1]
  <2>1. 1 \in 1 .. n /\ 1 - 1 = 0
    OBVIOUS
  <2>2. g[1] = <<>> \o seqs[1] /\ seqs[1] \in Seq(S)
    BY <1>1, <1>6, <2>1
  <2>3. QED
    BY <2>2, ConcatEmptySeq
<1> HIDE DEF jump, step
<1> DEFINE f == [i \in 1 .. n |-> g[i]]
<1>8. FlatRule(f, seqs)
  <2>1. ASSUME NEW i \in 1 .. n PROVE f[i] = IF i = 1 THEN seqs[i] ELSE f[i - 1] \o seqs[i]
    <3>1. CASE i = 1
      BY <1>7, <3>1
    <3>2. CASE i # 1
      <4>1. i - 1 \in 1 .. n
        BY <3>2
      <4>2. f[i] = g[i] /\ f[i - 1] = g[i - 1]
        BY <4>1
      <4>3. QED
        BY <1>6, <3>2, <4>2
    <3>3. QED
      BY <3>1, <3>2
  <2>2. f = [i \in 1 .. n |-> IF i = 1 THEN seqs[i] ELSE f[i - 1] \o seqs[i]]
    BY <2>1
  <2>3. QED
    BY <2>2, Zenon DEF FlatRule
<1>9. PICK c : c = CHOOSE flatten : FlatRule(flatten, seqs)
  OBVIOUS
<1>10. FlatRule(c, seqs)
  BY <1>8, <1>9
<1>11. FlattenSeq(seqs) = c[n]
  <2>1. Len(seqs) # 0
    OBVIOUS
  <2>2. FlattenSeq(seqs) = c[Len(seqs)]
    BY <1>9, <2>1, Zenon DEF FlattenSeq, FlatRule
  <2>3. QED
    BY <2>2
<1>12. \A i \in 1 .. n : c[i] = IF i = 1 THEN seqs[i] ELSE c[i - 1] \o seqs[i]
  <2>1. c = [i \in 1 .. n |-> IF i = 1 THEN seqs[i] ELSE c[i - 1] \o seqs[i]]
    BY <1>10 DEF FlatRule
  <2>2. QED
    BY <2>1
<1>13. c[1] = seqs[1] /\ \A i \in 2 .. n : c[i] = c[i - 1] \o seqs[i]
  <2>1. \A i \in 2 .. n : i \in 1 .. n /\ i # 1
    OBVIOUS
  <2>2. 1 \in 1 .. n
    OBVIOUS
  <2>3. QED
    BY <1>12, <2>1, <2>2
<1> DEFINE wrong == {i \in 1 .. n : c[i] \notin Seq(S)}
<1>14. wrong = {}
  <2> SUFFICES ASSUME wrong # {} PROVE FALSE
    OBVIOUS
  <2>1. PICK i : i = Min(wrong)
    OBVIOUS
  <2>2. i \in wrong /\ \A j \in wrong : i <= j
    <3>1. wrong \subseteq Nat
      OBVIOUS
    <3>2. QED
      BY <2>1, <3>1, Smallest
  <2>3. i # 1
    <3>1. 1 \in 1 .. n
      OBVIOUS
    <3>2. QED
      BY <1>1, <1>13, <2>2, <3>1
  <2>4. i \in 2 .. n /\ i - 1 \in 1 .. n /\ i - 1 < i /\ i \in 1 .. n
    BY <2>2, <2>3
  <2>5. c[i - 1] \in Seq(S) /\ seqs[i] \in Seq(S) /\ c[i] = c[i - 1] \o seqs[i]
    <3>1. ~(i <= i - 1)
      BY <2>4
    <3>2. i - 1 \notin wrong
      <4> HIDE DEF wrong
      <4>1. QED
        BY <2>2, <3>1
    <3>3. c[i - 1] \in Seq(S)
      BY <2>4, <3>2
    <3> HIDE DEF wrong
    <3>4. c[i] = c[i - 1] \o seqs[i]
      BY <1>13, <2>4
    <3>5. seqs[i] \in Seq(S)
      BY <1>1, <2>4
    <3>6. QED
      BY <3>3, <3>4, <3>5
  <2>6. c[i] \in Seq(S)
    BY <2>5, ConcatProperties
  <2>7. QED
    BY <2>2, <2>6
<1>15. QED
  BY <1>11, <1>13, <1>14

(* Where the sequences are in what they make, one after the other. *)
Placed(off, seqs, all) ==
  /\ off \in [0 .. Len(seqs) -> Nat] /\ off[0] = 0 /\ Len(all) = off[Len(seqs)]
  /\ \A i \in 1 .. Len(seqs) : off[i] = off[i - 1] + Len(seqs[i]) /\ off[i] <= Len(all)
  /\ \A i \in 1 .. Len(seqs) : \A k \in 1 .. Len(seqs[i]) : all[off[i - 1] + k] = seqs[i][k]

LEMMA FlatEmpty == FlattenSeq(<<>>) = <<>>
  BY EmptySeq DEF FlattenSeq

(* Each of them stands at its place in what they make. *)
LEMMA FlatPlaces ==
  ASSUME NEW S, NEW seqs \in Seq(Seq(S))
  PROVE  FlattenSeq(seqs) \in Seq(S) /\ \E off : Placed(off, seqs, FlattenSeq(seqs))
<1>1. PICK n \in Nat : n = Len(seqs)
  BY LenProperties
<1>2. CASE n = 0
  <2>1. seqs = <<>>
    BY <1>1, <1>2, EmptySeq
  <2>2. FlattenSeq(seqs) = <<>> /\ <<>> \in Seq(S) /\ Len(<<>>) = 0
    BY <2>1, FlatEmpty, EmptySeq
  <2>3. Placed([i \in 0 .. 0 |-> 0], seqs, <<>>)
    BY <1>1, <1>2, <2>2 DEF Placed
  <2>4. QED
    BY <2>2, <2>3
<1>3. CASE n # 0
  <2>1. n > 0
    BY <1>3
  <2>2. PICK f : /\ FlattenSeq(seqs) = f[n] /\ f[1] = seqs[1]
                 /\ \A i \in 1 .. n : f[i] \in Seq(S)
                 /\ \A i \in 2 .. n : f[i] = f[i - 1] \o seqs[i]
    <3>1. seqs # <<>>
      BY <1>1, <1>3, EmptySeq
    <3>2. \E f : /\ FlattenSeq(seqs) = f[Len(seqs)] /\ f[1] = seqs[1]
                 /\ \A i \in 1 .. Len(seqs) : f[i] \in Seq(S)
                 /\ \A i \in 2 .. Len(seqs) : f[i] = f[i - 1] \o seqs[i]
      BY <3>1, FlatIs
    <3>3. QED
      BY <1>1, <3>2
  <2>3. \A i \in 1 .. n : seqs[i] \in Seq(S)
    BY <1>1, ElementOfSeq
  <2>4. \A i \in 1 .. n : Len(f[i]) \in Nat /\ Len(seqs[i]) \in Nat
    BY <2>2, <2>3, LenProperties
  <2> DEFINE off == [i \in 0 .. n |-> IF i = 0 THEN 0 ELSE Len(f[i])]
  <2>5. off \in [0 .. n -> Nat] /\ off[0] = 0 /\ \A i \in 1 .. n : off[i] = Len(f[i])
    BY <2>4
  <2> HIDE DEF off
  <2>6. ASSUME NEW i \in 1 .. n
        PROVE  /\ off[i] = off[i - 1] + Len(seqs[i])
               /\ \A k \in 1 .. off[i - 1] : f[i][k] = f[i - 1][k]
               /\ \A k \in 1 .. Len(seqs[i]) : f[i][off[i - 1] + k] = seqs[i][k]
    <3>1. CASE i = 1
      <4>1. off[1 - 1] = 0 /\ off[1] = Len(seqs[1]) /\ Len(seqs[1]) \in Nat
        BY <2>2, <2>4, <2>5, <3>1
      <4>2. \A k \in 1 .. Len(seqs[1]) : 0 + k = k
        BY <4>1
      <4>3. off[i] = off[i - 1] + Len(seqs[i])
        BY <3>1, <4>1
      <4>4. \A k \in 1 .. off[i - 1] : FALSE
        BY <3>1, <4>1
      <4>5. QED
        BY <2>2, <3>1, <4>1, <4>2, <4>3, <4>4
    <3>2. CASE i # 1
      <4>1. i \in 2 .. n /\ i - 1 \in 1 .. n
        BY <3>2
      <4>2. f[i] = f[i - 1] \o seqs[i] /\ off[i] = Len(f[i]) /\ off[i - 1] = Len(f[i - 1])
        BY <2>2, <2>5, <4>1
      <4>3. PICK a \in Seq(S) : a = f[i - 1]
        BY <2>2, <4>1
      <4>4. PICK b \in Seq(S) : b = seqs[i]
        BY <2>3
      <4>5. /\ Len(a \o b) = Len(a) + Len(b)
            /\ \A k \in 1 .. Len(a) : (a \o b)[k] = a[k]
            /\ \A k \in 1 .. Len(b) : (a \o b)[Len(a) + k] = b[k]
        BY ConcatIs
      <4>6. QED
        BY <4>2, <4>3, <4>4, <4>5
    <3>3. QED
      BY <3>1, <3>2
  <2>7. \A i \in 0 .. n : off[i] \in Nat
    BY <2>5
  (* Up to the i-th sequence the j-th one has all the earlier ones. *)
  <2> DEFINE kept(j) == \A i \in 1 .. j : /\ off[i] <= off[j]
                                          /\ \A k \in 1 .. Len(seqs[i]) :
                                               f[j][off[i - 1] + k] = seqs[i][k]
             bad == {j \in 1 .. n : ~kept(j)}
  <2>8. bad = {}
    <3> SUFFICES ASSUME bad # {} PROVE FALSE
      OBVIOUS
    <3>1. PICK j : j = Min(bad)
      OBVIOUS
    <3>2. j \in bad /\ \A i \in bad : j <= i
      <4>1. bad \subseteq Nat
        OBVIOUS
      <4>2. QED
        BY <3>1, <4>1, Smallest
    <3>3. j \in 1 .. n /\ ~kept(j)
      BY <3>2
    <3>4. j # 1 => j - 1 \in 1 .. n /\ kept(j - 1)
      <4>1. ASSUME j # 1 PROVE j - 1 \in 1 .. n /\ ~(j <= j - 1)
        BY <3>3, <4>1
      <4> HIDE DEF kept
      <4>2. QED
        BY <3>2, <4>1
    <3> HIDE DEF bad
    <3>5. off[j] = off[j - 1] + Len(seqs[j]) /\ off[j] \in Nat /\ off[j - 1] \in Nat
      <4>1. j \in 0 .. n /\ j - 1 \in 0 .. n
        BY <3>3
      <4>2. QED
        BY <2>6, <2>7, <3>3, <4>1
    <3>6. off[j - 1] <= off[j]
      BY <2>4, <3>3, <3>5
    <3>7. ASSUME NEW i \in 1 .. j
          PROVE  off[i] <= off[j] /\ \A k \in 1 .. Len(seqs[i]) : f[j][off[i - 1] + k] = seqs[i][k]
      <4>1. CASE i = j
        <5>1. \A k \in 1 .. Len(seqs[j]) : f[j][off[j - 1] + k] = seqs[j][k]
          BY <2>6, <3>3
        <5>2. QED
          BY <3>5, <4>1, <5>1
      <4>2. CASE i # j
        <5>1. j # 1 /\ i \in 1 .. j - 1 /\ i \in 1 .. n /\ i \in 0 .. n /\ i - 1 \in 0 .. n
          BY <3>3, <4>2
        <5>2. /\ off[i] <= off[j - 1]
              /\ \A k \in 1 .. Len(seqs[i]) : f[j - 1][off[i - 1] + k] = seqs[i][k]
          BY <3>4, <5>1
        <5>3. off[i] <= off[j]
          BY <2>7, <3>5, <3>6, <5>1, <5>2, SMTT(40)
        <5>4. ASSUME NEW k \in 1 .. Len(seqs[i])
              PROVE  f[j][off[i - 1] + k] = f[j - 1][off[i - 1] + k]
          <6>1. off[i] = off[i - 1] + Len(seqs[i]) /\ off[i - 1] \in Nat /\ Len(seqs[i]) \in Nat
            BY <2>4, <2>6, <2>7, <5>1
          <6>2. off[i - 1] + k \in 1 .. off[j - 1]
            <7>1. off[i - 1] + Len(seqs[i]) <= off[j - 1] /\ off[j - 1] \in Nat
              BY <3>5, <5>2, <6>1
            <7>2. k >= 1 /\ k <= Len(seqs[i])
              OBVIOUS
            <7> HIDE DEF kept
            <7>3. QED
              BY <6>1, <7>1, <7>2
          <6>3. \A x \in 1 .. off[j - 1] : f[j][x] = f[j - 1][x]
            BY <2>6, <3>3
          <6>4. QED
            BY <6>2, <6>3
        <5>5. QED
          BY <5>2, <5>3, <5>4
      <4>3. QED
        BY <4>1, <4>2
    <3>8. kept(j)
      BY <3>7
    <3>9. QED
      BY <3>3, <3>8
  <2>9. n \in 1 .. n /\ kept(n)
    <3>1. n \in 1 .. n
      BY <2>1
    <3> HIDE DEF kept
    <3>2. QED
      BY <2>8, <3>1
  <2>10. Len(f[n]) = off[n] /\ f[n] \in Seq(S)
    BY <2>2, <2>5, <2>9
  <2>11. Placed(off, seqs, f[n])
    BY <1>1, <2>5, <2>6, <2>9, <2>10 DEF Placed
  <2>12. QED
    BY <2>2, <2>10, <2>11
<1>4. QED
  BY <1>2, <1>3

-----------------------------------------------------------------------------

(* The parser of a netrc.  What it holds while it reads words of W.         *)
Parser(W) ==
  [entries : UNION {[D -> W] : D \in SUBSET W}, current : W \cup {NoEntry},
   keyword : W, macro : BOOLEAN]

(* The words of files: the keywords, those of the macro and the names. "" is
   the name of the default.                                                *)
Words(W) ==
  /\ {"", "machine", "login", "default", "macdef", "init", "h", "x"} \subseteq W
  /\ NoEntry \notin W

(* What the fields of a parser are. *)
LEMMA ParserIs ==
  ASSUME NEW W, NEW p \in Parser(W)
  PROVE  /\ DOMAIN p.entries \subseteq W /\ p.entries \in [DOMAIN p.entries -> W]
         /\ p.current \in W \cup {NoEntry} /\ p.keyword \in W /\ p.macro \in BOOLEAN
<1>1. /\ p.entries \in UNION {[D -> W] : D \in SUBSET W}
      /\ p.current \in W \cup {NoEntry} /\ p.keyword \in W /\ p.macro \in BOOLEAN
  BY DEF Parser
<1>2. PICK D \in SUBSET W : p.entries \in [D -> W]
  BY <1>1
<1>3. QED
  BY <1>1, <1>2

(* What is made of such fields is a parser. *)
LEMMA ParserMade ==
  ASSUME NEW W, NEW e, DOMAIN e \subseteq W, e \in [DOMAIN e -> W],
         NEW c \in W \cup {NoEntry}, NEW k \in W, NEW m \in BOOLEAN
  PROVE  [entries |-> e, current |-> c, keyword |-> k, macro |-> m] \in Parser(W)
<1>1. e \in UNION {[D -> W] : D \in SUBSET W}
  OBVIOUS
<1>2. QED
  BY <1>1 DEF Parser

(* A parser is its fields. *)
LEMMA Remade ==
  ASSUME NEW W, NEW p \in Parser(W)
  PROVE  p = [entries |-> p.entries, current |-> p.current,
              keyword |-> p.keyword, macro |-> p.macro]
  BY DEF Parser

(* What the first words of an entry make of a parser, and what a login does. *)
LEMMA EnterIs ==
  ASSUME NEW W, NEW p \in Parser(W), NEW m \in W, "" \in W,
         NEW d, d = [h \in DOMAIN p.entries \cup {m} |-> IF h = m THEN "" ELSE p.entries[h]]
  PROVE  Enter(p, m) = [entries |-> d, current |-> m, keyword |-> "", macro |-> p.macro]
<1>1. PICK e, c, k, a : p = [entries |-> e, current |-> c, keyword |-> k, macro |-> a]
  BY Remade
<1>2. p.entries = e /\ p.macro = a
  BY <1>1
<1>3. d = [h \in DOMAIN e \cup {m} |-> IF h = m THEN "" ELSE e[h]]
  BY <1>2
<1>4. Enter(p, m) = [p EXCEPT !.entries = d, !.current = m, !.keyword = ""]
  BY <1>2, <1>3 DEF Enter
<1>5. Enter(p, m) = [entries |-> d, current |-> m, keyword |-> "", macro |-> a]
  BY <1>1, <1>4
<1>6. QED
  BY <1>2, <1>3, <1>5

LEMMA SetLoginIs ==
  ASSUME NEW W, NEW p \in Parser(W), NEW l \in W, "" \in W
  PROVE  SetLogin(p, l) = [entries |-> [p.entries EXCEPT ![p.current] = l],
                           current |-> p.current, keyword |-> "", macro |-> p.macro]
<1>1. PICK e, c, k, a : p = [entries |-> e, current |-> c, keyword |-> k, macro |-> a]
  BY Remade
<1>2. p.entries = e /\ p.current = c /\ p.macro = a
  BY <1>1
<1>3. PICK d : d = [e EXCEPT ![c] = l]
  OBVIOUS
<1>4. SetLogin(p, l) = [p EXCEPT !.entries = d, !.keyword = ""]
  BY <1>1, <1>2, <1>3 DEF SetLogin
<1>5. SetLogin(p, l) = [entries |-> d, current |-> c, keyword |-> "", macro |-> a]
  BY <1>1, <1>4
<1>6. QED
  BY <1>2, <1>3, <1>5

(* The steps of the parser leave it one. *)
LEMMA EnterStays ==
  ASSUME NEW W, NEW p \in Parser(W), NEW m \in W, "" \in W
  PROVE  Enter(p, m) \in Parser(W)
<1>1. PICK e : e = [h \in DOMAIN p.entries \cup {m} |-> IF h = m THEN "" ELSE p.entries[h]]
  OBVIOUS
<1>2. DOMAIN e \subseteq W /\ e \in [DOMAIN e -> W]
  <2>1. DOMAIN p.entries \subseteq W /\ p.entries \in [DOMAIN p.entries -> W]
    BY ParserIs
  <2>2. DOMAIN e = DOMAIN p.entries \cup {m} /\ DOMAIN e \subseteq W
    BY <1>1, <2>1
  <2>3. \A h \in DOMAIN e : e[h] \in W
    BY <1>1, <2>1
  <2>4. e \in [DOMAIN e -> W]
    BY <1>1, <2>3
  <2>5. QED
    BY <2>2, <2>4
<1>3. p.macro \in BOOLEAN
  BY ParserIs
<1>4. [entries |-> e, current |-> m, keyword |-> "", macro |-> p.macro] \in Parser(W)
  BY <1>2, <1>3, ParserMade
<1>5. Enter(p, m) = [entries |-> e, current |-> m, keyword |-> "", macro |-> p.macro]
  BY <1>1, EnterIs
<1>6. QED
  BY <1>4, <1>5

LEMMA SetLoginStays ==
  ASSUME NEW W, NEW p \in Parser(W), NEW l \in W, "" \in W
  PROVE  SetLogin(p, l) \in Parser(W)
<1>1. PICK e : e = [p.entries EXCEPT ![p.current] = l]
  OBVIOUS
<1>2. DOMAIN e \subseteq W /\ e \in [DOMAIN e -> W]
  BY <1>1, ParserIs
<1>3. p.macro \in BOOLEAN /\ p.current \in W \cup {NoEntry}
  BY ParserIs
<1>4. QED
  <2>1. [entries |-> e, current |-> p.current, keyword |-> "", macro |-> p.macro] \in Parser(W)
    BY <1>2, <1>3, ParserMade
  <2>2. QED
    BY <1>1, <2>1, SetLoginIs

(* A parser of which one field is set. *)
LEMMA KeywordIs ==
  ASSUME NEW W, NEW p \in Parser(W), NEW k \in W, NEW q, q = [p EXCEPT !.keyword = k]
  PROVE  /\ q \in Parser(W) /\ q.entries = p.entries /\ q.current = p.current
         /\ q.macro = p.macro /\ q.keyword = k
  BY DEF Parser

LEMMA MacroIs ==
  ASSUME NEW W, NEW p \in Parser(W), NEW m \in BOOLEAN, NEW q, q = [p EXCEPT !.macro = m]
  PROVE  /\ q \in Parser(W) /\ q.entries = p.entries /\ q.current = p.current
         /\ q.macro = m /\ q.keyword = p.keyword
  BY DEF Parser

(* Every word leaves a parser. *)
LEMMA WordStays ==
  ASSUME NEW W, Words(W), NEW p \in Parser(W), NEW word \in W
  PROVE  ParseWord(p, word) \in Parser(W)
<1>1. "" \in W
  BY DEF Words
<1>2. Enter(p, word) \in Parser(W) /\ Enter(p, "") \in Parser(W) /\ SetLogin(p, word) \in Parser(W)
  BY <1>1, EnterStays, SetLoginStays
<1>3. [p EXCEPT !.keyword = word] \in Parser(W) /\ [p EXCEPT !.macro = TRUE] \in Parser(W)
  BY KeywordIs, MacroIs
<1>4. QED
  BY <1>2, <1>3 DEF ParseWord

(* The words of a line, one by one. *)
WordByWord(h, X, base, n, seq) ==
  /\ h[0] = base /\ \A k \in 1 .. n : h[k] = ParseWord(h[k - 1], seq[k])
  /\ \A k \in 0 .. n : h[k] \in X

(* The fold over a line goes word by word. *)
LEMMA WordsRead ==
  ASSUME NEW W, Words(W), NEW base, base \in Parser(W), NEW n, n \in Nat,
         NEW seq, seq \in [1 .. n -> W]
  PROVE  \E h : WordByWord(h, Parser(W), base, n, seq) /\ FoldLeft(ParseWord, base, seq) = h[n]
<1>1. PICK X : X = Parser(W)
  OBVIOUS
<1>2. base \in X /\ \A x \in X : \A e \in W : ParseWord(x, e) \in X
  BY <1>1, WordStays
<1> DEFINE step == [k \in 1 .. n |-> [x \in X |-> ParseWord(x, seq[k])]]
           Rule(iter) == iter = [s \in SUBSET DOMAIN seq |->
                                   IF s = {} THEN base
                                   ELSE ParseWord(iter[s \ {Max(s)}], seq[Max(s)])]
<1>3. DOMAIN seq = 1 .. n /\ \A k \in 1 .. n : seq[k] \in W
  OBVIOUS
<1>4. step \in [1 .. n -> [X -> X]]
  BY <1>3, <1>2
<1>5. PICK g \in [SUBSET (1 .. n) -> X] : FoldRule(g, n, base, step)
  <2> HIDE DEF step
  <2>1. QED
    BY <1>4, <1>2, FoldExists
<1>6. Rule(g)
  <2>1. ASSUME NEW s \in SUBSET (1 .. n)
        PROVE  g[s] = IF s = {} THEN base ELSE ParseWord(g[s \ {Max(s)}], seq[Max(s)])
    <3>1. g[s] = IF s = {} THEN base ELSE step[Max(s)][g[s \ {Max(s)}]]
      BY <1>5 DEF FoldRule
    <3>2. CASE s = {}
      BY <3>1, <3>2
    <3>3. CASE s # {}
      <4>1. Max(s) \in 1 .. n /\ g[s \ {Max(s)}] \in X
        BY <1>3, <3>3, LastPlace
      <4>2. step[Max(s)][g[s \ {Max(s)}]] = ParseWord(g[s \ {Max(s)}], seq[Max(s)])
        BY <4>1
      <4>3. QED
        BY <3>1, <3>3, <4>2
    <3>4. QED
      BY <3>2, <3>3
  <2>2. g = [s \in SUBSET (1 .. n) |->
               IF s = {} THEN base ELSE ParseWord(g[s \ {Max(s)}], seq[Max(s)])]
    BY <2>1
  <2>3. QED
    BY <1>3, <2>2, Zenon
<1>7. PICK iter : iter = CHOOSE f : Rule(f)
  OBVIOUS
<1>8. FoldLeft(ParseWord, base, seq) = iter[DOMAIN seq]
  BY <1>7, Zenon DEF FoldLeft, MapThenFoldSet
<1>9. Rule(iter)
  <2> HIDE DEF Rule
  <2>1. QED
    BY <1>6, <1>7
<1>10. iter = [s \in SUBSET (1 .. n) |->
                IF s = {} THEN base ELSE ParseWord(iter[s \ {Max(s)}], seq[Max(s)])]
  BY <1>3, <1>9, Zenon
<1> HIDE DEF Rule, step
<1> DEFINE h == [k \in 0 .. n |-> iter[1 .. k]]
<1>11. h[0] = base
  <2>1. 1 .. 0 = {} /\ {} \in SUBSET (1 .. n)
    OBVIOUS
  <2>2. iter[{}] = base
    BY <1>10, <2>1
  <2>3. QED
    BY <2>1, <2>2
<1>12. ASSUME NEW k \in 1 .. n PROVE h[k] = ParseWord(h[k - 1], seq[k])
  <2>1. /\ 1 .. k \in SUBSET (1 .. n) /\ 1 .. k # {} /\ Max(1 .. k) = k
        /\ (1 .. k) \ {k} = 1 .. k - 1
    BY <1>3, FirstPlaces
  <2>2. iter[1 .. k] = ParseWord(iter[1 .. k - 1], seq[k])
    BY <1>10, <2>1
  <2>3. h[k] = iter[1 .. k] /\ h[k - 1] = iter[1 .. k - 1]
    BY <1>3
  <2>4. QED
    BY <2>2, <2>3
<1>13. FoldLeft(ParseWord, base, seq) = h[n]
  BY <1>3, <1>8
<1> HIDE DEF h
<1>14. \A k \in 0 .. n : h[k] \in X
  <2> DEFINE wrong == {k \in 0 .. n : h[k] \notin X}
  <2> SUFFICES ASSUME wrong # {} PROVE FALSE
    OBVIOUS
  <2>1. PICK k : k = Min(wrong)
    OBVIOUS
  <2>2. k \in wrong /\ \A j \in wrong : k <= j
    <3>1. wrong \subseteq Nat
      OBVIOUS
    <3>2. QED
      BY <2>1, <3>1, Smallest
  <2>3. k \in 0 .. n /\ h[k] \notin X
    BY <2>2
  <2>4. k # 0
    BY <1>11, <1>2, <2>3
  <2>5. k \in 1 .. n /\ k - 1 \in 0 .. n /\ ~(k <= k - 1)
    BY <2>3, <2>4
  <2>6. h[k - 1] \in X
    BY <2>2, <2>5
  <2> HIDE DEF wrong
  <2>7. h[k] \in X
    BY <1>3, <1>12, <1>2, <2>5, <2>6
  <2>8. QED
    BY <2>3, <2>7
<1>15. QED
  BY <1>1, <1>11, <1>12, <1>13, <1>14 DEF WordByWord

(* What the words of a pair do. *)
LEMMA DefaultRead ==
  ASSUME NEW p, p.keyword = "", p.macro = FALSE
  PROVE  ParseWord(p, "default") = Enter(p, "")
  BY DEF ParseWord

(* The two words of a machine begin its entry, those of a login set it. *)
LEMMA MachineRead ==
  ASSUME NEW W, Words(W), NEW p \in Parser(W), p.keyword = "", NEW m \in W
  PROVE  ParseWord(ParseWord(p, "machine"), m) = Enter(p, m)
<1>1. "" \in W /\ "machine" \in W
  BY DEF Words
<1>2. PICK q : q = [p EXCEPT !.keyword = "machine"]
  OBVIOUS
<1>3. q \in Parser(W) /\ q.entries = p.entries /\ q.macro = p.macro /\ q.keyword = "machine"
  BY <1>1, <1>2 DEF Parser
<1>4. ParseWord(p, "machine") = q
  BY <1>2 DEF ParseWord
<1>5. ParseWord(q, m) = Enter(q, m)
  BY <1>3 DEF ParseWord
<1>6. PICK d : d = [h \in DOMAIN p.entries \cup {m} |-> IF h = m THEN "" ELSE p.entries[h]]
  OBVIOUS
<1>7. Enter(p, m) = [entries |-> d, current |-> m, keyword |-> "", macro |-> p.macro]
  BY <1>1, <1>6, EnterIs
<1>8. Enter(q, m) = [entries |-> d, current |-> m, keyword |-> "", macro |-> q.macro]
  <2>1. d = [h \in DOMAIN q.entries \cup {m} |-> IF h = m THEN "" ELSE q.entries[h]]
    BY <1>3, <1>6
  <2>2. QED
    BY <1>1, <1>3, <2>1, EnterIs
<1>9. QED
  BY <1>3, <1>4, <1>5, <1>7, <1>8

LEMMA LoginRead ==
  ASSUME NEW W, Words(W), NEW p \in Parser(W), p.keyword = "", p.current # NoEntry, NEW l \in W
  PROVE  ParseWord(ParseWord(p, "login"), l) = SetLogin(p, l)
<1>1. "" \in W /\ "login" \in W
  BY DEF Words
<1>2. PICK q : q = [p EXCEPT !.keyword = "login"]
  OBVIOUS
<1>3. /\ q \in Parser(W) /\ q.entries = p.entries /\ q.macro = p.macro /\ q.keyword = "login"
      /\ q.current = p.current
  BY <1>1, <1>2 DEF Parser
<1>4. ParseWord(p, "login") = q
  BY <1>2 DEF ParseWord
<1>5. ParseWord(q, l) = SetLogin(q, l)
  BY <1>3 DEF ParseWord
<1>6. PICK d : d = [p.entries EXCEPT ![p.current] = l]
  OBVIOUS
<1>7. SetLogin(p, l) = [entries |-> d, current |-> p.current, keyword |-> "", macro |-> p.macro]
  BY <1>1, <1>6, SetLoginIs
<1>8. SetLogin(q, l) = [entries |-> [q.entries EXCEPT ![q.current] = l],
                        current |-> q.current, keyword |-> "", macro |-> q.macro]
  BY <1>1, <1>3, SetLoginIs
<1>9. QED
  BY <1>3, <1>4, <1>5, <1>6, <1>7, <1>8

(* The parser has read e entries, the last of them with its login or without. *)
Logged(p, entries, e, full) ==
  /\ p.keyword = "" /\ p.macro = FALSE
  /\ e # 0 => p.current = entries[e].machine
  /\ DOMAIN p.entries = {entries[i].machine : i \in 1 .. e}
  /\ \A i \in 1 .. e :
       (\A j \in i + 1 .. e : entries[j].machine # entries[i].machine) =>
         p.entries[entries[i].machine] = IF i = e /\ ~full THEN "" ELSE entries[i].login

(* With the words of an entry it is logged, with no login yet; with those of
   its login it is logged whole.                                           *)
LEMMA EnterLogs ==
  ASSUME NEW W, Words(W), NEW p \in Parser(W), NEW entries,
         NEW e \in Nat, NEW m \in W, m = entries[e + 1].machine, Logged(p, entries, e, TRUE)
  PROVE  /\ Logged(Enter(p, m), entries, e + 1, FALSE)
         /\ entries[e + 1].login = "" => Logged(Enter(p, m), entries, e + 1, TRUE)
<1>1. "" \in W
  BY DEF Words
<1>2. PICK d : d = [h \in DOMAIN p.entries \cup {m} |-> IF h = m THEN "" ELSE p.entries[h]]
  OBVIOUS
<1>3. PICK q : q = Enter(p, m)
  OBVIOUS
<1>4. q = [entries |-> d, current |-> m, keyword |-> "", macro |-> p.macro]
  BY <1>1, <1>2, <1>3, EnterIs
<1>5. /\ p.macro = FALSE /\ DOMAIN p.entries = {entries[i].machine : i \in 1 .. e}
      /\ \A i \in 1 .. e :
           (\A j \in i + 1 .. e : entries[j].machine # entries[i].machine) =>
             p.entries[entries[i].machine] = entries[i].login
  BY DEF Logged
<1>6. q.entries = d /\ q.current = m /\ q.keyword = "" /\ q.macro = FALSE
  BY <1>4, <1>5
<1>7. e + 1 # 0 /\ \A i \in 1 .. e + 1 : i \in 1 .. e \/ i = e + 1
  OBVIOUS
<1>8. \A i \in 1 .. e : i \in 1 .. e + 1 /\ e + 1 \in i + 1 .. e + 1 /\ i # e + 1
  OBVIOUS
<1>9. e + 1 \in 1 .. e + 1
  OBVIOUS
<1>10. DOMAIN d = {entries[i].machine : i \in 1 .. e + 1}
  BY <1>2, <1>5, <1>7, <1>8, <1>9
<1>11. ASSUME NEW i \in 1 .. e + 1,
              \A j \in i + 1 .. e + 1 : entries[j].machine # entries[i].machine
       PROVE  d[entries[i].machine] = IF i = e + 1 THEN "" ELSE entries[i].login
  <2>1. CASE i = e + 1
    BY <1>2, <2>1
  <2>2. CASE i # e + 1
    <3>1. i \in 1 .. e
      BY <2>2
    <3>2. entries[i].machine # m
      BY <1>8, <1>11, <3>1
    <3>3. \A j \in i + 1 .. e : j \in i + 1 .. e + 1
      BY <3>1
    <3>4. p.entries[entries[i].machine] = entries[i].login
      BY <1>5, <1>11, <3>1, <3>3
    <3>5. entries[i].machine \in DOMAIN p.entries
      BY <1>5, <3>1
    <3>6. QED
      BY <1>2, <2>2, <3>2, <3>4, <3>5
  <2>3. QED
    BY <2>1, <2>2
<1>12. QED
  BY <1>3, <1>6, <1>7, <1>10, <1>11 DEF Logged

LEMMA LoginLogs ==
  ASSUME NEW W, Words(W), NEW p \in Parser(W), NEW entries,
         NEW e \in Nat, e # 0, NEW l \in W, l = entries[e].login, Logged(p, entries, e, FALSE)
  PROVE  Logged(SetLogin(p, l), entries, e, TRUE)
<1>1. "" \in W
  BY DEF Words
<1>2. PICK d : d = [p.entries EXCEPT ![p.current] = l]
  OBVIOUS
<1>3. PICK q : q = SetLogin(p, l)
  OBVIOUS
<1>4. q = [entries |-> d, current |-> p.current, keyword |-> "", macro |-> p.macro]
  BY <1>1, <1>2, <1>3, SetLoginIs
<1>5. /\ p.macro = FALSE /\ p.current = entries[e].machine
      /\ DOMAIN p.entries = {entries[i].machine : i \in 1 .. e}
      /\ \A i \in 1 .. e :
           (\A j \in i + 1 .. e : entries[j].machine # entries[i].machine) =>
             p.entries[entries[i].machine] = IF i = e THEN "" ELSE entries[i].login
  BY DEF Logged
<1>6. q.entries = d /\ q.current = entries[e].machine /\ q.keyword = "" /\ q.macro = FALSE
  BY <1>4, <1>5
<1>7. p.entries \in [DOMAIN p.entries -> W]
  BY ParserIs
<1>8. DOMAIN d = DOMAIN p.entries
  BY <1>2, <1>7
<1>9. e \in 1 .. e /\ \A i \in 1 .. e : i # e => e \in i + 1 .. e
  OBVIOUS
<1>10. ASSUME NEW i \in 1 .. e,
              \A j \in i + 1 .. e : entries[j].machine # entries[i].machine
       PROVE  d[entries[i].machine] = entries[i].login
  <2>0. entries[i].machine \in DOMAIN p.entries
    BY <1>5
  <2>1. CASE i = e
    BY <1>2, <1>5, <1>7, <2>0, <2>1
  <2>2. CASE i # e
    <3>1. entries[i].machine # p.current
      BY <1>5, <1>9, <1>10, <2>2
    <3>2. p.entries[entries[i].machine] = entries[i].login
      BY <1>5, <1>10, <2>2
    <3>3. QED
      BY <1>2, <1>7, <2>0, <3>1, <3>2
  <2>3. QED
    BY <2>1, <2>2
<1>11. QED
  BY <1>3, <1>5, <1>6, <1>8, <1>10 DEF Logged

(* The entries of a file, and the pairs of words they are written with. *)
Entries(W) == Seq([machine : W, login : W])

FirstPair(entry) == IF entry.machine = "" THEN <<"default">> ELSE <<"machine", entry.machine>>

PairPlaces(off, entries, pairs) ==
  /\ off \in [0 .. Len(entries) -> Nat] /\ off[0] = 0 /\ Len(pairs) = off[Len(entries)]
  /\ \A i \in 1 .. Len(entries) :
       /\ off[i] = off[i - 1] + (IF entries[i].login = "" THEN 1 ELSE 2) /\ off[i] <= Len(pairs)
       /\ pairs[off[i - 1] + 1] = FirstPair(entries[i])
       /\ entries[i].login # "" => pairs[off[i - 1] + 2] = <<"login", entries[i].login>>

LEMMA BothAre ==
  ASSUME NEW S, NEW a \in S, NEW b \in S
  PROVE  /\ <<a>> \o <<b>> \in Seq(S) /\ Len(<<a>> \o <<b>>) = 2
         /\ (<<a>> \o <<b>>)[1] = a /\ (<<a>> \o <<b>>)[2] = b
  OBVIOUS

(* The pairs of an entry: its name, then its login when it has one. *)
LEMMA ItemIs ==
  ASSUME NEW W, Words(W), NEW entry \in [machine : W, login : W]
  PROVE  /\ PairsOf(entry) \in Seq(Seq(W))
         /\ Len(PairsOf(entry)) = (IF entry.login = "" THEN 1 ELSE 2)
         /\ PairsOf(entry)[1] = FirstPair(entry)
         /\ entry.login # "" => PairsOf(entry)[2] = <<"login", entry.login>>
<1>1. PICK item : item = PairsOf(entry)
  OBVIOUS
<1>2. entry.machine \in W /\ entry.login \in W
  OBVIOUS
<1>3. "default" \in W /\ "machine" \in W /\ "login" \in W
  BY DEF Words
<1>4. PICK first : first \in Seq(W) /\ first = FirstPair(entry)
  <2>1. <<"default">> \in Seq(W)
    BY <1>3, OneIs
  <2>2. <<"machine", entry.machine>> \in Seq(W)
    BY <1>2, <1>3, TwoAre
  <2>3. QED
    BY <2>1, <2>2 DEF FirstPair
<1>5. PICK second : second \in Seq(W) /\ second = <<"login", entry.login>>
  BY <1>2, <1>3, TwoAre
<1>6. /\ <<first>> \in Seq(Seq(W)) /\ Len(<<first>>) = 1 /\ <<first>>[1] = first
  BY <1>4, OneIs
<1>7. /\ <<second>> \in Seq(Seq(W)) /\ Len(<<second>>) = 1 /\ <<second>>[1] = second
  BY <1>5, OneIs
<1>8. item = <<first>> \o (IF entry.login = "" THEN <<>> ELSE <<second>>)
  BY <1>4, <1>5, <1>1 DEF FirstPair, PairsOf
<1>9. CASE entry.login = ""
  <2>1. item = <<first>> \o <<>>
    BY <1>8, <1>9
  <2>2. item = <<first>>
    BY <1>6, <2>1, ConcatEmptySeq
  <2>3. QED
    BY <1>4, <1>6, <1>9, <1>1, <2>2
<1>10. CASE entry.login # ""
  <2>1. item = <<first>> \o <<second>>
    BY <1>8, <1>10
  <2>2. /\ <<first>> \o <<second>> \in Seq(Seq(W)) /\ Len(<<first>> \o <<second>>) = 2
        /\ (<<first>> \o <<second>>)[1] = first /\ (<<first>> \o <<second>>)[2] = second
    <3>1. PICK S : S = Seq(W)
      OBVIOUS
    <3>2. first \in S /\ second \in S
      BY <1>4, <1>5, <3>1
    <3>3. /\ <<first>> \o <<second>> \in Seq(S) /\ Len(<<first>> \o <<second>>) = 2
          /\ (<<first>> \o <<second>>)[1] = first /\ (<<first>> \o <<second>>)[2] = second
      BY <3>2, BothAre
    <3>4. QED
      BY <3>1, <3>3
  <2>3. Len(item) = 2 /\ item[1] = first /\ item[2] = second
    BY <2>1, <2>2
  <2>4. item \in Seq(Seq(W))
    BY <2>1, <2>2
  <2>5. QED
    BY <1>4, <1>5, <1>10, <1>1, <2>3, <2>4
<1>11. QED
  BY <1>9, <1>10, <1>1

(* The pairs of all entries, and where those of each are. *)
LEMMA PairsAre ==
  ASSUME NEW W, Words(W), NEW entries, entries \in Entries(W)
  PROVE  /\ NetrcPairs(entries) \in Seq(Seq(W))
         /\ \E off : PairPlaces(off, entries, NetrcPairs(entries))
<1>1. entries \in Seq([machine : W, login : W])
  BY DEF Entries
<1>2. PICK n \in Nat : n = Len(entries) /\ DOMAIN entries = 1 .. n
  BY <1>1, LenProperties
<1>3. \A i \in 1 .. n : entries[i] \in [machine : W, login : W]
  BY <1>1, <1>2, ElementOfSeq
<1>4. PICK items : items = [i \in 1 .. n |-> PairsOf(entries[i])]
  OBVIOUS
<1>5. ASSUME NEW i \in 1 .. n
      PROVE  /\ items[i] \in Seq(Seq(W)) /\ Len(items[i]) = (IF entries[i].login = "" THEN 1 ELSE 2)
             /\ items[i][1] = FirstPair(entries[i])
             /\ entries[i].login # "" => items[i][2] = <<"login", entries[i].login>>
  <2>1. PICK entry \in [machine : W, login : W] : entry = entries[i]
    BY <1>3
  <2>2. items[i] = PairsOf(entry)
    BY <1>4, <2>1
  <2>3. /\ PairsOf(entry) \in Seq(Seq(W))
        /\ Len(PairsOf(entry)) = (IF entry.login = "" THEN 1 ELSE 2)
        /\ PairsOf(entry)[1] = FirstPair(entry)
        /\ entry.login # "" => PairsOf(entry)[2] = <<"login", entry.login>>
    BY ItemIs
  <2>4. QED
    BY <2>1, <2>2, <2>3
<1>6. DOMAIN items = 1 .. n /\ items \in [1 .. n -> Seq(Seq(W))]
  BY <1>4, <1>5
<1>7. items \in Seq(Seq(Seq(W))) /\ Len(items) = n
  BY <1>6
<1>8. NetrcPairs(entries) = FlattenSeq(items)
  BY <1>2, <1>4 DEF NetrcPairs
<1>9. PICK pairs : pairs = FlattenSeq(items)
  OBVIOUS
<1>10. pairs \in Seq(Seq(W)) /\ \E off : Placed(off, items, pairs)
  BY <1>7, <1>9, FlatPlaces
<1>11. PICK off : Placed(off, items, pairs)
  BY <1>10
<1>12. off \in [0 .. n -> Nat] /\ off[0] = 0 /\ Len(pairs) = off[n]
  BY <1>7, <1>11 DEF Placed
<1>13. ASSUME NEW i \in 1 .. n
       PROVE  /\ off[i] = off[i - 1] + (IF entries[i].login = "" THEN 1 ELSE 2)
              /\ off[i] <= Len(pairs)
              /\ pairs[off[i - 1] + 1] = FirstPair(entries[i])
              /\ entries[i].login # "" => pairs[off[i - 1] + 2] = <<"login", entries[i].login>>
  <2>1. /\ off[i] = off[i - 1] + Len(items[i]) /\ off[i] <= Len(pairs)
        /\ \A k \in 1 .. Len(items[i]) : pairs[off[i - 1] + k] = items[i][k]
    BY <1>7, <1>11 DEF Placed
  <2>2. CASE entries[i].login = ""
    <3>1. Len(items[i]) = 1
      BY <1>5, <2>2
    <3>2. 1 \in 1 .. 1
      OBVIOUS
    <3>3. QED
      BY <1>5, <2>1, <2>2, <3>1, <3>2
  <2>3. CASE entries[i].login # ""
    <3>1. Len(items[i]) = 2
      BY <1>5, <2>3
    <3>2. 1 \in 1 .. 2 /\ 2 \in 1 .. 2
      OBVIOUS
    <3>3. QED
      BY <1>5, <2>1, <2>3, <3>1, <3>2
  <2>4. QED
    BY <2>2, <2>3
<1>14. PairPlaces(off, entries, pairs)
  BY <1>2, <1>12, <1>13 DEF PairPlaces
<1>15. QED
  BY <1>8, <1>9, <1>10, <1>14

(* So many pairs have been read. *)
PairsRead(p, entries, off, j) ==
  \E e \in 0 .. Len(entries) :
    \/ j = off[e] /\ Logged(p, entries, e, TRUE)
    \/ /\ e # 0 /\ j = off[e] - 1 /\ entries[e].login # ""
       /\ Logged(p, entries, e, FALSE)

(* The words of a pair. *)
PairDone(p, pair) ==
  IF Len(pair) = 1 THEN ParseWord(p, pair[1]) ELSE ParseWord(ParseWord(p, pair[1]), pair[2])

(* One more pair is read: it begins the next entry, or is the login of the
   one begun.                                                              *)
LEMMA PairIsRead ==
  ASSUME NEW W, Words(W), NEW entries, entries \in Entries(W), NEW off, NEW pairs,
         PairPlaces(off, entries, pairs), NEW p \in Parser(W),
         NEW j \in Nat, j < Len(pairs), PairsRead(p, entries, off, j)
  PROVE  /\ Len(pairs[j + 1]) \in {1, 2}
         /\ PairsRead(PairDone(p, pairs[j + 1]), entries, off, j + 1)
<1>1. entries \in Seq([machine : W, login : W])
  BY DEF Entries
<1>2. PICK n \in Nat : n = Len(entries)
  BY <1>1, LenProperties
<1>3. \A i \in 1 .. n : entries[i].machine \in W /\ entries[i].login \in W
  <2>1. \A i \in 1 .. n : entries[i] \in [machine : W, login : W]
    BY <1>1, <1>2, ElementOfSeq
  <2>2. QED
    BY <2>1
<1>4. off \in [0 .. n -> Nat] /\ Len(pairs) = off[n]
  BY <1>2 DEF PairPlaces
<1>5. \A i \in 1 .. n :
           /\ off[i] = off[i - 1] + (IF entries[i].login = "" THEN 1 ELSE 2)
           /\ pairs[off[i - 1] + 1] = FirstPair(entries[i])
           /\ entries[i].login # "" => pairs[off[i - 1] + 2] = <<"login", entries[i].login>>
  BY <1>2 DEF PairPlaces
<1>6. PICK e \in 0 .. n : \/ j = off[e] /\ Logged(p, entries, e, TRUE)
                          \/ /\ e # 0 /\ j = off[e] - 1 /\ entries[e].login # ""
                             /\ Logged(p, entries, e, FALSE)
  BY <1>2 DEF PairsRead
<1>7. CASE j = off[e] /\ Logged(p, entries, e, TRUE)
  <2>1. e # n
    <3>1. j = off[e]
      BY <1>7
    <3>2. off[n] # j
      <4>1. PICK N \in Nat : N = off[n]
        BY <1>4
      <4>2. j < N
        BY <1>4, <4>1
      <4>3. QED
        BY <4>1, <4>2
    <3>3. QED
      BY <3>1, <3>2
  <2>2. PICK i \in 1 .. n : i = e + 1 /\ e = i - 1
    BY <2>1
  <2>3. /\ off[i] = j + (IF entries[i].login = "" THEN 1 ELSE 2)
        /\ pairs[j + 1] = FirstPair(entries[i])
    BY <1>5, <1>7, <2>2
  <2>4. PICK m \in W : m = entries[i].machine
    BY <1>3
  <2>5. /\ Logged(Enter(p, m), entries, i, FALSE)
        /\ entries[i].login = "" => Logged(Enter(p, m), entries, i, TRUE)
    <3>1. m = entries[e + 1].machine /\ e \in Nat
      BY <2>2, <2>4
    <3>2. QED
      BY <1>7, <2>2, <3>1, EnterLogs
  <2>6. p.keyword = "" /\ p.macro = FALSE
    BY <1>7 DEF Logged
  <2>7. Len(pairs[j + 1]) \in {1, 2} /\ PairDone(p, pairs[j + 1]) = Enter(p, m)
    <3>1. CASE m = ""
      <4>1. pairs[j + 1] = <<"default">>
        BY <2>3, <2>4, <3>1 DEF FirstPair
      <4>2. Len(<<"default">>) = 1 /\ <<"default">>[1] = "default"
        OBVIOUS
      <4>3. ParseWord(p, "default") = Enter(p, m)
        BY <2>6, <3>1, DefaultRead
      <4>4. QED
        BY <4>1, <4>2, <4>3 DEF PairDone
    <3>2. CASE m # ""
      <4>1. pairs[j + 1] = <<"machine", m>>
        BY <2>3, <2>4, <3>2 DEF FirstPair
      <4>2. Len(<<"machine", m>>) = 2 /\ <<"machine", m>>[1] = "machine" /\ <<"machine", m>>[2] = m
        OBVIOUS
      <4>3. ParseWord(ParseWord(p, "machine"), m) = Enter(p, m)
        BY <2>6, MachineRead
      <4>4. QED
        BY <4>1, <4>2, <4>3 DEF PairDone
    <3>3. QED
      BY <3>1, <3>2
  <2>8. PairsRead(Enter(p, m), entries, off, j + 1)
    <3>1. CASE entries[i].login = ""
      <4>1. j + 1 = off[i]
        BY <2>3, <3>1
      <4>2. i \in 0 .. Len(entries)
        BY <1>2
      <4>3. QED
        BY <2>5, <3>1, <4>1, <4>2 DEF PairsRead
    <3>2. CASE entries[i].login # ""
      <4>1. off[i] = j + 2
        BY <2>3, <3>2
      <4>2. (j + 2) - 1 = j + 1
        OBVIOUS
      <4>3. i # 0 /\ i \in 0 .. Len(entries)
        BY <1>2
      <4>4. QED
        BY <2>5, <3>2, <4>1, <4>2, <4>3 DEF PairsRead
    <3>3. QED
      BY <3>1, <3>2
  <2>9. QED
    BY <2>7, <2>8
<1>8. CASE /\ e # 0 /\ j = off[e] - 1 /\ entries[e].login # "" /\ Logged(p, entries, e, FALSE)
  <2>1. e \in 1 .. n /\ e - 1 \in 0 .. n
    <3>1. e # 0
      BY <1>8
    <3>2. QED
      BY <3>1
  <2>2. off[e - 1] \in Nat /\ off[e] \in Nat /\ off[e] = off[e - 1] + 2
    BY <1>5, <1>8, <1>4, <2>1
  <2>3. j + 1 = off[e] /\ j + 1 = off[e - 1] + 2
    <3>1. PICK o \in Nat : o = off[e - 1]
      BY <2>2
    <3>2. j = off[e] - 1
      BY <1>8
    <3>3. j = o + 2 - 1
      BY <2>2, <3>1, <3>2
    <3>4. j + 1 = o + 2
      BY <3>3
    <3>5. QED
      BY <2>2, <3>1, <3>4
  <2>4. PICK l \in W : l = entries[e].login
    BY <1>3, <2>1
  <2>5. pairs[j + 1] = <<"login", l>>
    BY <1>5, <1>8, <2>1, <2>3, <2>4
  <2>6. p.keyword = "" /\ p.current = entries[e].machine /\ entries[e].machine \in W
    BY <1>3, <1>8, <2>1 DEF Logged
  <2>7. p.current # NoEntry
    BY <2>6 DEF Words
  <2>8. ParseWord(ParseWord(p, "login"), l) = SetLogin(p, l)
    BY <2>6, <2>7, LoginRead
  <2>9. Logged(SetLogin(p, l), entries, e, TRUE)
    <3>1. e \in Nat
      OBVIOUS
    <3>2. QED
      BY <1>8, <2>4, <3>1, LoginLogs
  <2>10. Len(<<"login", l>>) = 2 /\ <<"login", l>>[1] = "login" /\ <<"login", l>>[2] = l
    OBVIOUS
  <2>11. PairDone(p, pairs[j + 1]) = SetLogin(p, l)
    BY <2>5, <2>8, <2>10 DEF PairDone
  <2>12. PairsRead(SetLogin(p, l), entries, off, j + 1)
    BY <1>2, <2>3, <2>9 DEF PairsRead
  <2>13. QED
    BY <2>5, <2>10, <2>11, <2>12
<1>9. QED
  BY <1>6, <1>7, <1>8

(* A pair stands behind place o of a line. *)
PairAt(line, o, pair) == \A k \in 1 .. Len(pair) : line[o + k] = pair[k]

(* The words of a pair in a line do what the pair does. *)
LEMMA PairWords ==
  ASSUME NEW h, NEW X, NEW base, NEW line, NEW pair, NEW o \in Nat, NEW len \in Nat,
         Len(pair) \in {1, 2}, o + Len(pair) <= len, PairAt(line, o, pair),
         WordByWord(h, X, base, len, line)
  PROVE  h[o + Len(pair)] = PairDone(h[o], pair)
<1>0. /\ \A k \in 1 .. len : h[k] = ParseWord(h[k - 1], line[k])
      /\ \A k \in 1 .. Len(pair) : line[o + k] = pair[k]
  BY DEF WordByWord, PairAt
<1>1. o + 1 \in 1 .. len /\ (o + 1) - 1 = o /\ (o + 2) - 1 = o + 1
  OBVIOUS
<1>2. h[o + 1] = ParseWord(h[o], line[o + 1])
  BY <1>0, <1>1
<1>3. 1 \in 1 .. Len(pair)
  <2>1. 1 \in 1 .. 1 /\ 1 \in 1 .. 2
    OBVIOUS
  <2>2. QED
    BY <2>1
<1>4. h[o + 1] = ParseWord(h[o], pair[1])
  BY <1>0, <1>2, <1>3
<1>5. CASE Len(pair) = 1
  BY <1>4, <1>5 DEF PairDone
<1>6. CASE Len(pair) = 2
  <2>1. o + 2 \in 1 .. len /\ 2 \in 1 .. Len(pair)
    BY <1>6
  <2>2. h[o + 2] = ParseWord(h[(o + 2) - 1], line[o + 2])
    BY <1>0, <2>1
  <2>3. line[o + 2] = pair[2]
    BY <1>0, <2>1
  <2>4. h[o + 2] = ParseWord(h[o + 1], pair[2])
    BY <1>1, <2>2, <2>3
  <2>5. Len(pair) # 1
    BY <1>6
  <2>6. QED
    BY <1>4, <1>6, <2>4, <2>5 DEF PairDone
<1>7. QED
  BY <1>5, <1>6

(* A line of whole pairs. *)
LEMMA LineIsRead ==
  ASSUME NEW W, Words(W), NEW entries, entries \in Entries(W), NEW off,
         NEW pairs, pairs \in Seq(Seq(W)), PairPlaces(off, entries, pairs),
         NEW p, p \in Parser(W), NEW a \in Nat, NEW b \in Nat, a <= b, b <= Len(pairs),
         PairsRead(p, entries, off, a)
  PROVE  /\ FlattenSeq(SubSeq(pairs, a + 1, b)) \in Seq(W)
         /\ FoldLeft(ParseWord, p, FlattenSeq(SubSeq(pairs, a + 1, b))) \in Parser(W)
         /\ PairsRead(FoldLeft(ParseWord, p, FlattenSeq(SubSeq(pairs, a + 1, b))), entries, off, b)
<1>1. PICK cut : cut = SubSeq(pairs, a + 1, b)
  OBVIOUS
<1>2. PICK n \in Nat : n = b - a /\ a + n = b
  OBVIOUS
<1>3. PICK N \in Nat : N = Len(pairs)
  BY LenProperties
<1>4. cut \in Seq(Seq(W)) /\ Len(cut) = n /\ \A i \in 1 .. n : cut[i] = pairs[a + i]
  <2>1. PICK S : S = Seq(W)
    OBVIOUS
  <2>2. pairs \in Seq(S) /\ a + 1 \in 1 .. Len(pairs) + 1 /\ b \in a .. Len(pairs)
    BY <1>3, <2>1
  <2>3. /\ SubSeq(pairs, a + 1, b) \in Seq(S) /\ Len(SubSeq(pairs, a + 1, b)) = b - a
        /\ \A i \in 1 .. b - a : SubSeq(pairs, a + 1, b)[i] = pairs[a + i]
    BY <1>2, <2>2, CutIs
  <2>4. QED
    BY <1>1, <1>2, <2>1, <2>3
<1>5. PICK line : line = FlattenSeq(cut)
  OBVIOUS
<1>6. line \in Seq(W) /\ \E at : Placed(at, cut, line)
  BY <1>4, <1>5, FlatPlaces
<1>7. PICK at : Placed(at, cut, line)
  BY <1>6
<1>8. PICK len \in Nat : len = Len(line) /\ line \in [1 .. len -> W]
  BY <1>6, LenProperties
<1>9. at \in [0 .. n -> Nat] /\ at[0] = 0 /\ len = at[n]
  BY <1>4, <1>7, <1>8 DEF Placed
<1>10. \A i \in 1 .. n : /\ at[i] = at[i - 1] + Len(cut[i]) /\ at[i] <= len
                         /\ \A k \in 1 .. Len(cut[i]) : line[at[i - 1] + k] = cut[i][k]
  BY <1>4, <1>7, <1>8 DEF Placed
<1>11. PICK h : WordByWord(h, Parser(W), p, len, line) /\ FoldLeft(ParseWord, p, line) = h[len]
  BY <1>8, WordsRead, SMTT(40)
<1>12. h[0] = p /\ \A k \in 0 .. len : h[k] \in Parser(W)
  BY <1>11 DEF WordByWord
<1> DEFINE wrong == {i \in 0 .. n : ~PairsRead(h[at[i]], entries, off, a + i)}
<1>13. wrong = {}
  <2> SUFFICES ASSUME wrong # {} PROVE FALSE
    OBVIOUS
  <2>1. PICK i : i = Min(wrong)
    OBVIOUS
  <2>2. i \in wrong /\ \A j \in wrong : i <= j
    <3>1. wrong \subseteq 0 .. n
      OBVIOUS
    <3> HIDE DEF wrong
    <3>2. wrong \subseteq Nat
      BY <3>1
    <3>3. QED
      BY <2>1, <3>2, Smallest
  <2>3. i \in 0 .. n /\ ~PairsRead(h[at[i]], entries, off, a + i)
    BY <2>2
  <2>4. i # 0
    <3>1. a + 0 = a
      OBVIOUS
    <3>2. QED
      BY <1>9, <1>12, <2>3, <3>1
  <2>5. i \in 1 .. n /\ i - 1 \in 0 .. n /\ ~(i <= i - 1)
    BY <2>3, <2>4
  <2>6. PairsRead(h[at[i - 1]], entries, off, a + (i - 1))
    BY <2>2, <2>5
  <2> HIDE DEF wrong
  <2>7. PICK o \in Nat : o = at[i - 1]
    BY <1>9, <2>5
  <2>8. PICK j \in Nat : j = a + (i - 1)
    BY <2>5
  <2>9. j + 1 = a + i /\ j < N
    BY <1>2, <1>3, <2>5, <2>8
  <2>10. PICK pair : pair = pairs[j + 1]
    OBVIOUS
  <2>11. cut[i] = pair
    BY <1>4, <2>5, <2>9, <2>10
  <2>12. at[i] = o + Len(pair) /\ at[i] <= len /\ \A k \in 1 .. Len(pair) : line[o + k] = pair[k]
    BY <1>10, <2>5, <2>7, <2>11
  <2>13. o <= len
    <3>1. at[i - 1] <= len
      <4>1. CASE i - 1 = 0
        BY <1>9, <4>1
      <4>2. CASE i - 1 # 0
        <5>1. i - 1 \in 1 .. n
          BY <2>5, <4>2
        <5>2. QED
          BY <1>10, <5>1
      <4>3. QED
        BY <4>1, <4>2
    <3>2. QED
      BY <2>7, <3>1
  <2>14. PICK q : q = h[o]
    OBVIOUS
  <2>15. q \in Parser(W)
    BY <1>12, <2>13, <2>14
  <2>16. PairsRead(q, entries, off, j) /\ j < Len(pairs)
    BY <1>3, <2>6, <2>7, <2>8, <2>9, <2>14
  <2>17. Len(pairs[j + 1]) \in {1, 2} /\ PairsRead(PairDone(q, pairs[j + 1]), entries, off, j + 1)
    BY <2>15, <2>16, PairIsRead
  <2>18. Len(pair) \in {1, 2} /\ PairsRead(PairDone(q, pair), entries, off, a + i)
    BY <2>9, <2>10, <2>17
  <2>19. h[o + Len(pair)] = PairDone(h[o], pair)
    <3>1. o + Len(pair) <= len
      BY <2>12
    <3>2. PairAt(line, o, pair)
      BY <2>12 DEF PairAt
    <3>3. Len(pair) \in {1, 2}
      BY <2>18
    <3>4. QED
      BY <1>11, <3>1, <3>2, <3>3, PairWords
  <2>20. QED
    BY <2>3, <2>12, <2>14, <2>18, <2>19
<1>14. n \in 0 .. n /\ len \in 0 .. len
  OBVIOUS
<1>15. PairsRead(h[len], entries, off, b)
  BY <1>2, <1>9, <1>13, <1>14
<1>16. h[len] \in Parser(W)
  BY <1>14, <1>12
<1>17. QED
  BY <1>1, <1>5, <1>6, <1>11, <1>15, <1>16

(* A line of the file leaves the parser's values what they are. *)
LEMMA LineIs ==
  ASSUME NEW W, Words(W), NEW p, p \in Parser(W), NEW line, line \in Seq(W)
  PROVE  /\ ParseNetrcLine(p, line) \in Parser(W)
         /\ p.macro = FALSE /\ FoldLeft(ParseWord, p, line).keyword = ""
              => ParseNetrcLine(p, line) = FoldLeft(ParseWord, p, line)
<1>1. "" \in W
  BY DEF Words
<1>2. CASE p.macro
  <2>1. (line # <<>>) \in BOOLEAN
    OBVIOUS
  <2>2. PICK m \in BOOLEAN : m = (line # <<>>)
    BY <2>1
  <2>3. ParseNetrcLine(p, line) = [p EXCEPT !.macro = m]
    BY <1>2, <2>2 DEF ParseNetrcLine
  <2>4. QED
    BY <1>2, <2>3 DEF Parser
<1>3. CASE ~p.macro
  <2>1. PICK r : r = FoldLeft(ParseWord, p, line)
    OBVIOUS
  <2>2. PICK n : n \in Nat /\ line \in [1 .. n -> W]
    BY LenProperties
  <2>3. PICK h : WordByWord(h, Parser(W), p, n, line) /\ FoldLeft(ParseWord, p, line) = h[n]
    BY <2>2, WordsRead
  <2>4. r \in Parser(W)
    <3>1. n \in 0 .. n
      BY <2>2
    <3>2. QED
      BY <2>1, <2>3, <3>1 DEF WordByWord
  <2>5. ParseNetrcLine(p, line) = [r EXCEPT !.keyword = ""]
    BY <1>3, <2>1 DEF ParseNetrcLine
  <2>6. [r EXCEPT !.keyword = ""] \in Parser(W)
    BY <1>1, <2>4 DEF Parser
  <2>7. r.keyword = "" => [r EXCEPT !.keyword = ""] = r
    BY <2>4 DEF Parser
  <2>8. QED
    BY <2>1, <2>5, <2>6, <2>7
<1>4. QED
  BY <1>2, <1>3

LEMMA LineStays ==
  ASSUME NEW W, Words(W), NEW p \in Parser(W), NEW line \in Seq(W)
  PROVE  ParseNetrcLine(p, line) \in Parser(W)
  BY LineIs

(* The lines of a file, one by one. *)
LineByLine(h, X, base, n, seq) ==
  /\ h[0] = base /\ \A k \in 1 .. n : h[k] = ParseNetrcLine(h[k - 1], seq[k])
  /\ \A k \in 0 .. n : h[k] \in X

(* The fold over a file goes line by line. *)
LEMMA LinesRead ==
  ASSUME NEW W, Words(W), NEW base, base \in Parser(W), NEW n, n \in Nat,
         NEW seq, seq \in [1 .. n -> Seq(W)]
  PROVE  \E h : LineByLine(h, Parser(W), base, n, seq) /\ FoldLeft(ParseNetrcLine, base, seq) = h[n]
<1>1. PICK X : X = Parser(W)
  OBVIOUS
<1>2. base \in X /\ \A x \in X : \A e \in Seq(W) : ParseNetrcLine(x, e) \in X
  BY <1>1, LineStays
<1> DEFINE step == [k \in 1 .. n |-> [x \in X |-> ParseNetrcLine(x, seq[k])]]
           Rule(iter) == iter = [s \in SUBSET DOMAIN seq |->
                                   IF s = {} THEN base
                                   ELSE ParseNetrcLine(iter[s \ {Max(s)}], seq[Max(s)])]
<1>3. DOMAIN seq = 1 .. n /\ \A k \in 1 .. n : seq[k] \in Seq(W)
  OBVIOUS
<1>4. step \in [1 .. n -> [X -> X]]
  BY <1>3, <1>2
<1>5. PICK g \in [SUBSET (1 .. n) -> X] : FoldRule(g, n, base, step)
  <2> HIDE DEF step
  <2>1. QED
    BY <1>4, <1>2, FoldExists
<1>6. Rule(g)
  <2>1. ASSUME NEW s \in SUBSET (1 .. n)
        PROVE  g[s] = IF s = {} THEN base ELSE ParseNetrcLine(g[s \ {Max(s)}], seq[Max(s)])
    <3>1. g[s] = IF s = {} THEN base ELSE step[Max(s)][g[s \ {Max(s)}]]
      BY <1>5 DEF FoldRule
    <3>2. CASE s = {}
      BY <3>1, <3>2
    <3>3. CASE s # {}
      <4>1. Max(s) \in 1 .. n /\ g[s \ {Max(s)}] \in X
        BY <1>3, <3>3, LastPlace
      <4>2. step[Max(s)][g[s \ {Max(s)}]] = ParseNetrcLine(g[s \ {Max(s)}], seq[Max(s)])
        BY <4>1
      <4>3. QED
        BY <3>1, <3>3, <4>2
    <3>4. QED
      BY <3>2, <3>3
  <2>2. g = [s \in SUBSET (1 .. n) |->
               IF s = {} THEN base ELSE ParseNetrcLine(g[s \ {Max(s)}], seq[Max(s)])]
    BY <2>1
  <2>3. QED
    BY <1>3, <2>2, Zenon
<1>7. PICK iter : iter = CHOOSE f : Rule(f)
  OBVIOUS
<1>8. FoldLeft(ParseNetrcLine, base, seq) = iter[DOMAIN seq]
  BY <1>7, Zenon DEF FoldLeft, MapThenFoldSet
<1>9. Rule(iter)
  <2> HIDE DEF Rule
  <2>1. QED
    BY <1>6, <1>7
<1>10. iter = [s \in SUBSET (1 .. n) |->
                IF s = {} THEN base ELSE ParseNetrcLine(iter[s \ {Max(s)}], seq[Max(s)])]
  BY <1>3, <1>9, Zenon
<1> HIDE DEF Rule, step
<1> DEFINE h == [k \in 0 .. n |-> iter[1 .. k]]
<1>11. h[0] = base
  <2>1. 1 .. 0 = {} /\ {} \in SUBSET (1 .. n)
    OBVIOUS
  <2>2. iter[{}] = base
    BY <1>10, <2>1
  <2>3. QED
    BY <2>1, <2>2
<1>12. ASSUME NEW k \in 1 .. n PROVE h[k] = ParseNetrcLine(h[k - 1], seq[k])
  <2>1. /\ 1 .. k \in SUBSET (1 .. n) /\ 1 .. k # {} /\ Max(1 .. k) = k
        /\ (1 .. k) \ {k} = 1 .. k - 1
    BY <1>3, FirstPlaces
  <2>2. iter[1 .. k] = ParseNetrcLine(iter[1 .. k - 1], seq[k])
    BY <1>10, <2>1
  <2>3. h[k] = iter[1 .. k] /\ h[k - 1] = iter[1 .. k - 1]
    BY <1>3
  <2>4. QED
    BY <2>2, <2>3
<1>13. FoldLeft(ParseNetrcLine, base, seq) = h[n]
  BY <1>3, <1>8
<1> HIDE DEF h
<1>14. \A k \in 0 .. n : h[k] \in X
  <2> DEFINE wrong == {k \in 0 .. n : h[k] \notin X}
  <2> SUFFICES ASSUME wrong # {} PROVE FALSE
    OBVIOUS
  <2>1. PICK k : k = Min(wrong)
    OBVIOUS
  <2>2. k \in wrong /\ \A j \in wrong : k <= j
    <3>1. wrong \subseteq Nat
      OBVIOUS
    <3>2. QED
      BY <2>1, <3>1, Smallest
  <2>3. k \in 0 .. n /\ h[k] \notin X
    BY <2>2
  <2>4. k # 0
    BY <1>11, <1>2, <2>3
  <2>5. k \in 1 .. n /\ k - 1 \in 0 .. n /\ ~(k <= k - 1)
    BY <2>3, <2>4
  <2>6. h[k - 1] \in X
    BY <2>2, <2>5
  <2> HIDE DEF wrong
  <2>7. h[k] \in X
    BY <1>3, <1>12, <1>2, <2>5, <2>6
  <2>8. QED
    BY <2>3, <2>7
<1>15. QED
  BY <1>1, <1>11, <1>12, <1>13, <1>14 DEF LineByLine

(* Up to the end of a line of whole pairs. *)
LEMMA PairsReadOn ==
  ASSUME NEW W, Words(W), NEW entries, entries \in Entries(W), NEW off,
         NEW pairs, pairs \in Seq(Seq(W)), PairPlaces(off, entries, pairs),
         NEW p, p \in Parser(W), NEW a \in Nat, NEW b \in Nat, a <= b, b <= Len(pairs),
         PairsRead(p, entries, off, a)
  PROVE  PairsRead(ParseNetrcLine(p, FlattenSeq(SubSeq(pairs, a + 1, b))), entries, off, b)
<1>1. PICK line : line = FlattenSeq(SubSeq(pairs, a + 1, b))
  OBVIOUS
<1>2. PICK r : r = FoldLeft(ParseWord, p, line)
  OBVIOUS
<1>3. line \in Seq(W) /\ r \in Parser(W) /\ PairsRead(r, entries, off, b)
  BY <1>1, <1>2, LineIsRead
<1>4. p.macro = FALSE
  BY DEF PairsRead, Logged
<1>5. r.keyword = ""
  BY <1>3 DEF PairsRead, Logged
<1>6. ParseNetrcLine(p, line) = r
  BY <1>2, <1>3, <1>4, <1>5, LineIs
<1>7. QED
  BY <1>1, <1>3, <1>6

(* Where the lines of whole pairs end. *)
Cuts(ends, n, N) ==
  /\ ends \in [1 .. n + 1 -> Nat] /\ ends[1] = 0 /\ ends[n + 1] = N
  /\ \A i \in 1 .. n : ends[i] <= ends[i + 1] /\ ends[i + 1] <= N

BodyAt(lines, d, n, pairs, ends) ==
  \A i \in 1 .. n : lines[d + i] = FlattenSeq(SubSeq(pairs, ends[i] + 1, ends[i + 1]))

(* The lines of the body, cut anywhere between two pairs, read all of them. *)
LEMMA BodyIsRead ==
  ASSUME NEW W, Words(W), NEW entries, entries \in Entries(W), NEW off,
         NEW pairs, pairs \in Seq(Seq(W)), PairPlaces(off, entries, pairs),
         NEW h, NEW base, NEW L \in Nat, NEW lines, LineByLine(h, Parser(W), base, L, lines),
         NEW d \in Nat, NEW n \in Nat, d + n <= L,
         NEW ends, Cuts(ends, n, Len(pairs)), BodyAt(lines, d, n, pairs, ends),
         PairsRead(h[d], entries, off, 0)
  PROVE  PairsRead(h[d + n], entries, off, Len(pairs))
<1>1. /\ ends \in [1 .. n + 1 -> Nat] /\ ends[1] = 0 /\ ends[n + 1] = Len(pairs)
      /\ \A i \in 1 .. n : ends[i] <= ends[i + 1] /\ ends[i + 1] <= Len(pairs)
  BY DEF Cuts
<1>2. /\ \A k \in 1 .. L : h[k] = ParseNetrcLine(h[k - 1], lines[k])
      /\ \A k \in 0 .. L : h[k] \in Parser(W)
  BY DEF LineByLine
<1> DEFINE wrong == {i \in 0 .. n : ~PairsRead(h[d + i], entries, off, ends[i + 1])}
<1>3. wrong = {}
  <2> SUFFICES ASSUME wrong # {} PROVE FALSE
    OBVIOUS
  <2>1. PICK i : i = Min(wrong)
    OBVIOUS
  <2>2. i \in wrong /\ \A j \in wrong : i <= j
    <3>1. wrong \subseteq 0 .. n
      OBVIOUS
    <3> HIDE DEF wrong
    <3>2. wrong \subseteq Nat
      BY <3>1
    <3>3. QED
      BY <2>1, <3>2, Smallest
  <2>3. i \in 0 .. n /\ ~PairsRead(h[d + i], entries, off, ends[i + 1])
    BY <2>2
  <2>4. i # 0
    <3>1. d + 0 = d /\ 0 + 1 = 1
      OBVIOUS
    <3>2. QED
      BY <1>1, <2>3, <3>1
  <2>5. i \in 1 .. n /\ i - 1 \in 0 .. n /\ ~(i <= i - 1) /\ (i - 1) + 1 = i
    BY <2>3, <2>4
  <2>6. PairsRead(h[d + (i - 1)], entries, off, ends[(i - 1) + 1])
    BY <2>2, <2>5
  <2> HIDE DEF wrong
  <2>7. d + i \in 1 .. L /\ (d + i) - 1 = d + (i - 1) /\ d + (i - 1) \in 0 .. L
    BY <2>5
  <2>8. PICK q : q = h[d + (i - 1)]
    OBVIOUS
  <2>9. q \in Parser(W) /\ PairsRead(q, entries, off, ends[i])
    BY <1>2, <2>5, <2>6, <2>7, <2>8
  <2>10. PICK a \in Nat : a = ends[i]
    BY <1>1, <2>5
  <2>11. PICK b \in Nat : b = ends[i + 1] /\ a <= b /\ b <= Len(pairs)
    BY <1>1, <2>5, <2>10
  <2>12. PairsRead(ParseNetrcLine(q, FlattenSeq(SubSeq(pairs, a + 1, b))), entries, off, b)
    BY <2>9, <2>10, <2>11, PairsReadOn
  <2>13. lines[d + i] = FlattenSeq(SubSeq(pairs, a + 1, b))
    BY <2>5, <2>10, <2>11 DEF BodyAt
  <2>14. h[d + i] = ParseNetrcLine(q, FlattenSeq(SubSeq(pairs, a + 1, b)))
    BY <1>2, <2>7, <2>8, <2>13
  <2>15. QED
    BY <2>3, <2>11, <2>12, <2>14
<1>4. n \in 0 .. n
  OBVIOUS
<1>5. QED
  BY <1>1, <1>3, <1>4

(* Where the lines of a file are cut. *)
Rising(cuts) == cuts \in Seq(Nat) /\ \A i, j \in DOMAIN cuts : i < j => cuts[i] <= cuts[j]

EndsOf(cuts, N) == <<0>> \o [i \in DOMAIN cuts |-> Min({cuts[i], N})] \o <<N>>

(* The ends of the lines, each cut short at the last pair, rise to it. *)
LEMMA EndsAre ==
  ASSUME NEW cuts, Rising(cuts), NEW N \in Nat
  PROVE  \E n \in Nat : Len(EndsOf(cuts, N)) - 1 = n /\ Cuts(EndsOf(cuts, N), n, N)
<1>1. cuts \in Seq(Nat) /\ \A i, j \in DOMAIN cuts : i < j => cuts[i] <= cuts[j]
  BY DEF Rising
<1>2. PICK ends : ends = EndsOf(cuts, N)
  OBVIOUS
<1>3. PICK m \in Nat : m = Len(cuts) /\ DOMAIN cuts = 1 .. m
  BY <1>1, LenProperties
<1>4. \A i \in 1 .. m : cuts[i] \in Nat
  BY <1>3, <1>1, ElementOfSeq
<1>5. PICK mid : mid = [i \in 1 .. m |-> Min({cuts[i], N})]
  OBVIOUS
<1>6. \A x, y \in Nat : Min({x, y}) \in {x, y} /\ Min({x, y}) <= x /\ Min({x, y}) <= y
  <2>1. ASSUME NEW x \in Nat, NEW y \in Nat
        PROVE  Min({x, y}) \in {x, y} /\ Min({x, y}) <= x /\ Min({x, y}) <= y
    <3>1. {x, y} \subseteq Nat /\ {x, y} # {}
      OBVIOUS
    <3>2. Min({x, y}) \in {x, y} /\ \A z \in {x, y} : Min({x, y}) <= z
      BY <3>1, Smallest
    <3>3. QED
      BY <3>2
  <2>2. QED
    BY <2>1
<1>7. \A i \in 1 .. m : mid[i] \in {cuts[i], N} /\ mid[i] <= cuts[i] /\ mid[i] <= N
  BY <1>4, <1>5, <1>6
<1>8. \A i \in 1 .. m : mid[i] \in Nat
  BY <1>4, <1>7
<1>9. mid \in Seq(Nat) /\ Len(mid) = m
  <2>1. mid \in [1 .. m -> Nat]
    BY <1>5, <1>8
  <2>2. QED
    BY <2>1
<1>10. \A i \in 1 .. m - 1 : mid[i] <= mid[i + 1]
  <2>1. ASSUME NEW i \in 1 .. m - 1 PROVE mid[i] <= mid[i + 1]
    <3>1. i \in 1 .. m /\ i + 1 \in 1 .. m /\ i < i + 1
      OBVIOUS
    <3>2. cuts[i] <= cuts[i + 1] /\ cuts[i] \in Nat /\ cuts[i + 1] \in Nat
      BY <1>3, <1>4, <1>1, <3>1
    <3>3. /\ mid[i] <= cuts[i] /\ mid[i] <= N /\ mid[i + 1] \in {cuts[i + 1], N}
          /\ mid[i] \in Nat
      BY <1>7, <1>8, <3>1
    <3>4. QED
      BY <3>2, <3>3
  <2>2. QED
    BY <2>1
<1>11. /\ <<0>> \in Seq(Nat) /\ Len(<<0>>) = 1 /\ <<0>>[1] = 0
      /\ <<N>> \in Seq(Nat) /\ Len(<<N>>) = 1 /\ <<N>>[1] = N
  OBVIOUS
<1>12. PICK s : s = <<0>> \o mid
  OBVIOUS
<1>13. s \in Seq(Nat) /\ Len(s) = m + 1 /\ s[1] = 0 /\ \A i \in 1 .. m : s[1 + i] = mid[i]
  <2>1. PICK f : f = <<0>> /\ Len(f) = 1 /\ f[1] = 0 /\ f \in Seq(Nat)
    BY <1>11
  <2>2. PICK T : T = Nat
    OBVIOUS
  <2>3. f \in Seq(T) /\ mid \in Seq(T)
    BY <1>9, <2>1, <2>2
  <2>4. /\ f \o mid \in Seq(T) /\ Len(f \o mid) = Len(f) + Len(mid)
        /\ \A i \in 1 .. Len(f) : (f \o mid)[i] = f[i]
        /\ \A i \in 1 .. Len(mid) : (f \o mid)[Len(f) + i] = mid[i]
    BY <2>3, ConcatIs
  <2>5. 1 \in 1 .. 1 /\ 1 + m = m + 1
    OBVIOUS
  <2>6. QED
    BY <1>9, <1>12, <2>1, <2>4, <2>5, <2>2
<1>14. ends = s \o <<N>>
  BY <1>3, <1>5, <1>12, <1>2 DEF EndsOf
<1>15. /\ ends \in Seq(Nat) /\ Len(ends) = m + 2 /\ ends[m + 2] = N
       /\ \A i \in 1 .. m + 1 : ends[i] = s[i]
  <2>1. PICK f : f = <<N>> /\ Len(f) = 1 /\ f[1] = N /\ f \in Seq(Nat)
    BY <1>11
  <2>2. PICK T : T = Nat
    OBVIOUS
  <2>3. s \in Seq(T) /\ f \in Seq(T)
    BY <1>13, <2>1, <2>2
  <2>4. /\ s \o f \in Seq(T) /\ Len(s \o f) = Len(s) + Len(f)
        /\ \A i \in 1 .. Len(s) : (s \o f)[i] = s[i]
        /\ \A i \in 1 .. Len(f) : (s \o f)[Len(s) + i] = f[i]
    BY <2>3, ConcatIs
  <2>5. 1 \in 1 .. 1 /\ (m + 1) + 1 = m + 2
    OBVIOUS
  <2>6. QED
    BY <1>13, <1>14, <2>1, <2>4, <2>5, <2>2, ZenonT(40)
<1>16. ends[1] = 0 /\ \A i \in 1 .. m : ends[1 + i] = mid[i]
  <2>1. 1 \in 1 .. m + 1 /\ \A i \in 1 .. m : 1 + i \in 1 .. m + 1
    OBVIOUS
  <2>2. QED
    BY <1>13, <1>15, <2>1
<1>17. ends \in [1 .. (m + 1) + 1 -> Nat]
  <2>1. (m + 1) + 1 = m + 2
    OBVIOUS
  <2>2. ends \in [1 .. m + 2 -> Nat]
    BY <1>15
  <2>3. QED
    BY <2>1, <2>2
<1>18. ASSUME NEW i \in 1 .. m + 1 PROVE ends[i] <= ends[i + 1] /\ ends[i + 1] <= N
  <2>1. CASE i = m + 1
    <3>1. ends[i + 1] = N
      BY <1>15, <2>1
    <3>2. ends[i] <= N
      <4>1. CASE m = 0
        BY <1>16, <2>1, <4>1
      <4>2. CASE m # 0
        <5>1. m \in 1 .. m /\ i = 1 + m
          BY <2>1, <4>2
        <5>2. QED
          BY <1>7, <1>16, <5>1
      <4>3. QED
        BY <4>1, <4>2
    <3>3. QED
      BY <3>1, <3>2
  <2>2. CASE i # m + 1
    <3>1. i \in 1 .. m
      BY <2>2
    <3>2. i + 1 = 1 + i
      OBVIOUS
    <3>3. ends[i + 1] = mid[i]
      BY <1>16, <3>1, <3>2
    <3>4. ends[i + 1] = mid[i] /\ mid[i] <= N /\ mid[i] \in Nat
      BY <1>7, <1>8, <3>1, <3>3
    <3>5. ends[i] <= mid[i]
      <4>1. CASE i = 1
        BY <1>16, <3>4, <4>1
      <4>2. CASE i # 1
        <5>1. PICK k \in 1 .. m - 1 : i = 1 + k /\ k + 1 = i
          BY <3>1, <4>2
        <5>2. k \in 1 .. m
          OBVIOUS
        <5>3. ends[i] = mid[k] /\ mid[k] <= mid[i]
          BY <1>10, <1>16, <5>1, <5>2
        <5>4. QED
          BY <5>3
      <4>3. QED
        BY <4>1, <4>2
    <3>6. QED
      BY <3>4, <3>5
  <2>3. QED
    BY <2>1, <2>2
<1>19. (m + 1) + 1 = m + 2 /\ (m + 2) - 1 = m + 1 /\ m + 1 \in Nat
  OBVIOUS
<1>20. Cuts(ends, m + 1, N)
  BY <1>15, <1>16, <1>17, <1>18, <1>19 DEF Cuts
<1>21. QED
  BY <1>15, <1>19, <1>20, <1>2

(* Before the first line nothing has been read. *)
LEMMA InitIs ==
  ASSUME NEW W, Words(W), NEW entries, NEW off, off[0] = 0, Len(entries) \in Nat
  PROVE  ParserInit \in Parser(W) /\ PairsRead(ParserInit, entries, off, 0)
<1>1. "" \in W
  BY DEF Words
<1>2. DOMAIN <<>> = {}
  OBVIOUS
<1>3. <<>> \in [DOMAIN <<>> -> W]
  BY <1>2
<1>4. [entries |-> <<>>, current |-> NoEntry, keyword |-> "", macro |-> FALSE] \in Parser(W)
  <2>1. PICK e : e = <<>>
    OBVIOUS
  <2>2. DOMAIN e \subseteq W /\ e \in [DOMAIN e -> W]
    BY <1>2, <1>3, <2>1
  <2>3. [entries |-> e, current |-> NoEntry, keyword |-> "", macro |-> FALSE] \in Parser(W)
    BY <1>1, <2>2, ParserMade
  <2>4. QED
    BY <2>1, <2>3
<1>5. {entries[i].machine : i \in 1 .. 0} = {}
  OBVIOUS
<1>6. \A i \in 1 .. 0 : FALSE
  OBVIOUS
<1>7. /\ ParserInit.entries = <<>> /\ ParserInit.keyword = "" /\ ParserInit.macro = FALSE
  BY DEF ParserInit
<1>8. Logged(ParserInit, entries, 0, TRUE)
  BY <1>2, <1>5, <1>6, <1>7 DEF Logged
<1>9. 0 \in 0 .. Len(entries)
  OBVIOUS
<1>10. QED
  BY <1>4, <1>8, <1>9 DEF PairsRead, ParserInit

Twice(p, a, b) == ParseWord(ParseWord(p, a), b)

LEMMA TwoWords ==
  ASSUME NEW W, Words(W), NEW p, p \in Parser(W), NEW a, a \in W, NEW b, b \in W,
         NEW words, words \in [1 .. 2 -> W], words[1] = a, words[2] = b
  PROVE  FoldLeft(ParseWord, p, words) = Twice(p, a, b)
<1>2. PICK n : n = 2
  OBVIOUS
<1>3. words \in [1 .. n -> W] /\ words[1] = a /\ words[2] = b
  BY <1>2
<1>4. n \in Nat
  BY <1>2
<1>5. PICK g : WordByWord(g, Parser(W), p, n, words) /\ FoldLeft(ParseWord, p, words) = g[n]
  BY <1>3, <1>4, WordsRead
<1>6. /\ g[0] = p /\ \A k \in 1 .. 2 : g[k] = ParseWord(g[k - 1], words[k])
  BY <1>2, <1>5 DEF WordByWord
<1>7. 1 \in 1 .. 2 /\ 2 \in 1 .. 2 /\ 1 - 1 = 0 /\ 2 - 1 = 1
  OBVIOUS
<1>8. g[1] = ParseWord(p, a) /\ g[2] = ParseWord(g[1], b)
  BY <1>3, <1>6, <1>7
<1>9. QED
  BY <1>2, <1>5, <1>8 DEF Twice

(* The lines of a macro leave nothing behind. *)
MacroFirst(lines) == lines[1] = <<"macdef", "init">> /\ lines[2] # <<>> /\ lines[3] = <<>>

(* A macro before the entries leaves the parser as it began: none of its
   words is taken for one of an entry.                                     *)
LEMMA MacroSkipped ==
  ASSUME NEW W, Words(W), ParserInit \in Parser(W),
         NEW h, NEW L \in Nat, L >= 3, NEW lines, LineByLine(h, Parser(W), ParserInit, L, lines),
         MacroFirst(lines)
  PROVE  h[3] = ParserInit
<1>1. lines[1] = <<"macdef", "init">> /\ lines[2] # <<>> /\ lines[3] = <<>>
  BY DEF MacroFirst
<1>2. h[0] = ParserInit /\ \A k \in 1 .. L : h[k] = ParseNetrcLine(h[k - 1], lines[k])
  BY DEF LineByLine
<1>3. /\ 1 \in 1 .. L /\ 2 \in 1 .. L /\ 3 \in 1 .. L
      /\ 1 - 1 = 0 /\ 2 - 1 = 1 /\ 3 - 1 = 2
  OBVIOUS
<1>4. /\ h[1] = ParseNetrcLine(ParserInit, <<"macdef", "init">>)
      /\ h[2] = ParseNetrcLine(h[1], lines[2]) /\ h[3] = ParseNetrcLine(h[2], <<>>)
  BY <1>2, <1>3, <1>1
<1>5. PICK M : M = [entries |-> <<>>, current |-> NoEntry, keyword |-> "", macro |-> TRUE]
  OBVIOUS
<1>6. FoldLeft(ParseWord, ParserInit, <<"macdef", "init">>) = M
  <2>1. "macdef" \in W /\ "init" \in W
    BY DEF Words
  <2>2. FoldLeft(ParseWord, ParserInit, <<"macdef", "init">>)
          = ParseWord(ParseWord(ParserInit, "macdef"), "init")
    <3>1. PICK a : a = "macdef" /\ a \in W
      BY <2>1
    <3>2. PICK b : b = "init" /\ b \in W
      BY <2>1
    <3>3. PICK p : p = ParserInit /\ p \in Parser(W)
      OBVIOUS
    <3>4. PICK words : words = <<a, b>>
      OBVIOUS
    <3>5. words \in [1 .. 2 -> W] /\ words[1] = a /\ words[2] = b
      BY <3>1, <3>2, <3>4
    <3>6. a \in W /\ b \in W /\ p \in Parser(W)
      BY <3>1, <3>2, <3>3
    <3>7. FoldLeft(ParseWord, p, words) = Twice(p, a, b)
      BY <3>5, <3>6, TwoWords
    <3>8. QED
      BY <3>1, <3>2, <3>3, <3>4, <3>7 DEF Twice
  <2>3. ParseWord(ParserInit, "macdef") = M
    BY <1>5 DEF ParseWord, ParserInit
  <2>4. ParseWord(M, "init") = M
    BY <1>5 DEF ParseWord
  <2>5. QED
    BY <2>2, <2>3, <2>4
<1>7. h[1] = M
  <2>1. ParserInit.macro = FALSE
    BY DEF ParserInit
  <2>2. h[1] = [M EXCEPT !.keyword = ""]
    BY <1>4, <1>6, <2>1 DEF ParseNetrcLine
  <2>3. QED
    BY <1>5, <2>2
<1>8. h[2] = M
  <2>1. PICK some \in BOOLEAN : some = (lines[2] # <<>>)
    OBVIOUS
  <2>2. M.macro = TRUE
    BY <1>5
  <2>3. h[2] = [M EXCEPT !.macro = some]
    BY <1>4, <1>7, <2>1, <2>2 DEF ParseNetrcLine
  <2>4. some = TRUE
    BY <1>1, <2>1
  <2>5. QED
    BY <1>5, <2>3, <2>4
<1>9. h[3] = ParserInit
  <2>1. PICK some \in BOOLEAN : some = (<<>> # <<>>)
    OBVIOUS
  <2>2. M.macro = TRUE
    BY <1>5
  <2>3. h[3] = [M EXCEPT !.macro = some]
    BY <1>4, <1>8, <2>1, <2>2 DEF ParseNetrcLine
  <2>4. some = FALSE
    BY <2>1
  <2>5. QED
    BY <1>5, <2>3, <2>4 DEF ParserInit
<1>10. QED
  BY <1>9

Body(pairs, ends) ==
  [i \in 1 .. Len(ends) - 1 |-> FlattenSeq(SubSeq(pairs, ends[i] + 1, ends[i + 1]))]

(* The lines of the body are the pairs between their ends. *)
LEMMA BodyIs ==
  ASSUME NEW W, NEW pairs, pairs \in Seq(Seq(W)), NEW ends, NEW n \in Nat,
         Len(ends) - 1 = n, Cuts(ends, n, Len(pairs))
  PROVE  /\ Body(pairs, ends) \in Seq(Seq(W)) /\ Len(Body(pairs, ends)) = n
         /\ BodyAt(Body(pairs, ends), 0, n, pairs, ends)
<1>1. \A i \in 1 .. n : /\ ends[i] \in Nat /\ ends[i + 1] \in Nat
                        /\ ends[i] <= ends[i + 1] /\ ends[i + 1] <= Len(pairs)
  <2>1. \A i \in 1 .. n : i \in 1 .. n + 1 /\ i + 1 \in 1 .. n + 1
    OBVIOUS
  <2>2. QED
    BY <2>1 DEF Cuts
<1>2. PICK body : body = Body(pairs, ends)
  OBVIOUS
<1>3. body = [i \in 1 .. n |-> FlattenSeq(SubSeq(pairs, ends[i] + 1, ends[i + 1]))]
  BY <1>2 DEF Body
<1>4. ASSUME NEW i \in 1 .. n PROVE body[i] \in Seq(W)
  <2>1. PICK a \in Nat : a = ends[i]
    BY <1>1
  <2>2. PICK b \in Nat : b = ends[i + 1] /\ a <= b /\ b <= Len(pairs)
    BY <1>1, <2>1
  <2>3. SubSeq(pairs, a + 1, b) \in Seq(Seq(W))
    <3>1. PICK S : S = Seq(W)
      OBVIOUS
    <3>2. pairs \in Seq(S)
      BY <3>1
    <3>3. /\ SubSeq(pairs, a + 1, b) \in Seq(S) /\ Len(SubSeq(pairs, a + 1, b)) = b - a
          /\ \A k \in 1 .. b - a : SubSeq(pairs, a + 1, b)[k] = pairs[a + k]
      BY <2>2, <3>2, CutIs, SMTT(40)
    <3>4. QED
      BY <3>1, <3>3
  <2>4. FlattenSeq(SubSeq(pairs, a + 1, b)) \in Seq(W)
    BY <2>3, FlatPlaces
  <2>5. QED
    BY <1>3, <2>1, <2>2, <2>4
<1>5. body \in Seq(Seq(W)) /\ Len(body) = n
  <2>1. PICK S : S = Seq(W)
    OBVIOUS
  <2>2. body \in [1 .. n -> S]
    BY <1>3, <1>4, <2>1
  <2>3. body \in Seq(S) /\ Len(body) = n
    BY <2>2
  <2>4. QED
    BY <2>1, <2>3
<1>6. BodyAt(body, 0, n, pairs, ends)
  <2>1. \A i \in 1 .. n : 0 + i = i
    OBVIOUS
  <2>2. QED
    BY <1>3, <2>1 DEF BodyAt
<1>7. QED
  BY <1>2, <1>5, <1>6

(* When all pairs have been read, all entries have. *)
LEMMA AllLogged ==
  ASSUME NEW entries, NEW n \in Nat, n = Len(entries), NEW off, NEW pairs,
         PairPlaces(off, entries, pairs), NEW p, PairsRead(p, entries, off, Len(pairs))
  PROVE  Logged(p, entries, n, TRUE)
<1>1. off \in [0 .. n -> Nat] /\ Len(pairs) = off[n]
  BY DEF PairPlaces
<1>2. \A i \in 1 .. n : off[i] <= off[n]
  BY <1>1 DEF PairPlaces
<1>3. \A i \in 1 .. n : off[i] = off[i - 1] + 1 \/ off[i] = off[i - 1] + 2
  BY DEF PairPlaces
<1>4. PICK e \in 0 .. n : \/ off[n] = off[e] /\ Logged(p, entries, e, TRUE)
                          \/ e # 0 /\ off[n] = off[e] - 1
  BY <1>1 DEF PairsRead
<1>5. off[e] <= off[n] /\ off[e] \in Nat /\ off[n] \in Nat
  <2>1. e \in 1 .. n \/ e = 0
    OBVIOUS
  <2>2. off[e] \in Nat /\ off[n] \in Nat
    BY <1>1
  <2>3. n \in 1 .. n \/ n = 0
    OBVIOUS
  <2>4. CASE e \in 1 .. n
    BY <1>2, <2>2, <2>4
  <2>5. CASE e = 0
    <3>1. off[0] = 0
      BY DEF PairPlaces
    <3>2. QED
      BY <2>2, <2>5, <3>1
  <2>6. QED
    BY <2>1, <2>4, <2>5
<1>6. ~(off[n] = off[e] - 1)
  BY <1>5
<1>7. off[n] = off[e] /\ Logged(p, entries, e, TRUE)
  BY <1>4, <1>6
<1>8. e = n
  <2> SUFFICES ASSUME e # n PROVE FALSE
    OBVIOUS
  <2>1. PICK i \in 1 .. n : i = e + 1 /\ i - 1 = e
    OBVIOUS
  <2>2. off[i] <= off[n] /\ (off[i] = off[e] + 1 \/ off[i] = off[e] + 2) /\ off[i] \in Nat
    BY <1>1, <1>2, <1>3, <2>1, SMTT(40)
  <2>3. QED
    BY <1>5, <1>7, <2>2
<1>9. QED
  BY <1>7, <1>8

(* The login for a host, when all entries have been read. *)
LEMMA EntryFound ==
  ASSUME NEW entries, NEW n \in Nat, DOMAIN entries = 1 .. n, NEW p,
         Logged(p, entries, n, TRUE), NEW m
  PROVE  /\ m \in DOMAIN p.entries <=> EntriesOf(entries, m) # {}
         /\ m \in DOMAIN p.entries => p.entries[m] = LoginOf(entries, m)
<1>1. PICK of : of = EntriesOf(entries, m)
  OBVIOUS
<1>2. \A i \in 1 .. n : i \in of <=> entries[i].machine = m
  BY <1>1 DEF EntriesOf
<1>3. of \subseteq 1 .. n
  BY <1>1 DEF EntriesOf
<1>4. DOMAIN p.entries = {entries[i].machine : i \in 1 .. n}
  BY DEF Logged
<1>5. m \in DOMAIN p.entries <=> of # {}
  BY <1>2, <1>3, <1>4
<1>6. ASSUME of # {} PROVE p.entries[m] = entries[Max(of)].login
  <2>1. PICK x : x = Max(of)
    OBVIOUS
  <2>2. x \in of /\ \A y \in of : x >= y
    <3>1. of \subseteq 0 .. n
      BY <1>3
    <3>2. QED
      BY <1>6, <2>1, <3>1, Largest
  <2>3. x \in 1 .. n /\ entries[x].machine = m
    BY <1>2, <1>3, <2>2
  <2>4. \A j \in x + 1 .. n : entries[j].machine # entries[x].machine
    <3>1. ASSUME NEW j \in x + 1 .. n PROVE j \in 1 .. n /\ ~(x >= j)
      BY <2>3
    <3>2. QED
      BY <1>2, <2>2, <2>3, <3>1
  <2>5. p.entries[entries[x].machine] = entries[x].login
    BY <2>3, <2>4 DEF Logged
  <2>6. QED
    BY <2>1, <2>3, <2>5
<1>7. QED
  BY <1>1, <1>5, <1>6 DEF LoginOf

MacroLines == <<<<"macdef", "init">>, <<"machine", "h", "login", "x">>, <<>>>>

LEMMA FourAre ==
  ASSUME NEW S, NEW a \in S, NEW b \in S, NEW c \in S, NEW d \in S
  PROVE  <<a, b, c, d>> \in Seq(S) /\ <<a, b, c, d>> # <<>>
  OBVIOUS

LEMMA MacroLinesAre ==
  ASSUME NEW W, Words(W)
  PROVE  MacroLines \in Seq(Seq(W)) /\ Len(MacroLines) = 3 /\ MacroFirst(MacroLines)
<1>1. {"macdef", "init", "machine", "h", "login", "x"} \subseteq W
  BY DEF Words
<1>2. PICK a : a = <<"macdef", "init">> /\ a \in Seq(W)
  <2>1. PICK x \in W, y \in W : x = "macdef" /\ y = "init"
    BY <1>1
  <2>2. <<x, y>> \in Seq(W)
    BY TwoAre
  <2>3. QED
    BY <2>1, <2>2
<1>3. PICK b : b = <<"machine", "h", "login", "x">> /\ b \in Seq(W) /\ b # <<>>
  <2>1. PICK x \in W, y \in W, z \in W, w \in W : x = "machine" /\ y = "h" /\ z = "login" /\ w = "x"
    BY <1>1
  <2>2. <<x, y, z, w>> \in Seq(W) /\ <<x, y, z, w>> # <<>>
    BY FourAre
  <2>3. QED
    BY <2>1, <2>2
<1>4. PICK c : c = <<>> /\ c \in Seq(W)
  BY EmptySeq
<1>5. MacroLines = <<a, b, c>>
  BY <1>2, <1>3, <1>4 DEF MacroLines
<1>6. PICK S : S = Seq(W)
  OBVIOUS
<1>7. a \in S /\ b \in S /\ c \in S
  BY <1>2, <1>3, <1>4, <1>6
<1>8. <<a, b, c>> \in Seq(S) /\ Len(<<a, b, c>>) = 3
  BY <1>7
<1>9. <<a, b, c>>[1] = a /\ <<a, b, c>>[2] = b /\ <<a, b, c>>[3] = c
  OBVIOUS
<1>10. QED
  BY <1>2, <1>3, <1>4, <1>5, <1>6, <1>8, <1>9 DEF MacroFirst

(* The file is the body, or the lines of a macro and the body. *)
LEMMA LinesAre ==
  ASSUME NEW W, Words(W), NEW c, c.macro \in BOOLEAN, Rising(c.ends),
         NetrcPairs(c.entries) \in Seq(Seq(W))
  PROVE  /\ NetrcLines(c) \in Seq(Seq(W))
         /\ \E d, n \in Nat : \E ends :
              /\ Len(NetrcLines(c)) = d + n /\ Cuts(ends, n, Len(NetrcPairs(c.entries)))
              /\ BodyAt(NetrcLines(c), d, n, NetrcPairs(c.entries), ends)
              /\ d = 0 \/ (d = 3 /\ MacroFirst(NetrcLines(c)))
<1>1. PICK pairs : pairs = NetrcPairs(c.entries)
  OBVIOUS
<1>2. PICK N : N \in Nat /\ N = Len(pairs)
  BY <1>1, LenProperties
<1>3. PICK ends : ends = EndsOf(c.ends, N)
  OBVIOUS
<1>4. PICK n \in Nat : Len(ends) - 1 = n /\ Cuts(ends, n, N)
  BY <1>2, <1>3, EndsAre
<1>5. PICK body : body = Body(pairs, ends)
  OBVIOUS
<1>6. body \in Seq(Seq(W)) /\ Len(body) = n /\ BodyAt(body, 0, n, pairs, ends)
  BY <1>1, <1>2, <1>4, <1>5, BodyIs
<1>7. NetrcLines(c) = IF c.macro THEN MacroLines \o body ELSE body
  BY <1>1, <1>2, <1>3, <1>5 DEF NetrcLines, EndsOf, Body, MacroLines
<1>8. CASE c.macro
  <2>1. PICK S : S = Seq(W)
    OBVIOUS
  <2>2. PICK first : first = MacroLines
    OBVIOUS
  <2>3. first \in Seq(S) /\ Len(first) = 3 /\ MacroFirst(first) /\ body \in Seq(S)
    BY <1>6, <2>1, <2>2, MacroLinesAre
  <2>4. /\ first \o body \in Seq(S) /\ Len(first \o body) = Len(first) + Len(body)
        /\ \A i \in 1 .. Len(first) : (first \o body)[i] = first[i]
        /\ \A i \in 1 .. Len(body) : (first \o body)[Len(first) + i] = body[i]
    <3>1. first \in Seq(S) /\ body \in Seq(S)
      BY <2>3
    <3>2. QED
      BY <3>1, ConcatIs
  <2>5. PICK lines : lines = first \o body
    OBVIOUS
  <2>6. /\ lines \in Seq(S) /\ Len(lines) = 3 + n
        /\ \A i \in 1 .. 3 : lines[i] = first[i]
        /\ \A i \in 1 .. n : lines[3 + i] = body[i]
    BY <1>6, <2>3, <2>4, <2>5
  <2>7. MacroFirst(lines)
    <3>1. 1 \in 1 .. 3 /\ 2 \in 1 .. 3 /\ 3 \in 1 .. 3
      OBVIOUS
    <3>2. lines[1] = first[1] /\ lines[2] = first[2] /\ lines[3] = first[3]
      BY <2>6, <3>1
    <3>3. QED
      BY <2>3, <3>2 DEF MacroFirst
  <2>8. BodyAt(lines, 3, n, pairs, ends)
    <3>1. \A i \in 1 .. n : 0 + i = i
      OBVIOUS
    <3>2. QED
      BY <1>6, <2>6, <3>1 DEF BodyAt
  <2>9. NetrcLines(c) = lines
    BY <1>7, <1>8, <2>2, <2>5
  <2>10. 3 \in Nat
    OBVIOUS
  <2>11. QED
    BY <1>1, <1>2, <1>4, <2>1, <2>6, <2>7, <2>8, <2>9, <2>10
<1>9. CASE ~c.macro
  <2>1. NetrcLines(c) = body
    BY <1>7, <1>9
  <2>2. 0 \in Nat /\ 0 + n = n
    OBVIOUS
  <2>3. QED
    BY <1>1, <1>2, <1>4, <1>6, <2>1, <2>2
<1>10. QED
  BY <1>8, <1>9

(* The files that are looked at, and what is known of one when it is read. *)
NetrcFile(W, c) == c.macro \in BOOLEAN /\ Rising(c.ends) /\ c.entries \in Entries(W)

ReadAs(p, c) == /\ ParseNetrc(NetrcLines(c)) = p.entries
                /\ Logged(p, c.entries, Len(c.entries), TRUE)

(* Whatever lines a file is cut into, all of its entries are logged when it
   has been read.                                                          *)
LEMMA LoginsKept ==
  ASSUME NEW W, Words(W), NEW c, NetrcFile(W, c)
  PROVE  \E p : ReadAs(p, c)
<1>1. c.macro \in BOOLEAN /\ Rising(c.ends) /\ c.entries \in Entries(W)
  BY DEF NetrcFile
<1>2. PICK entries : entries = c.entries
  OBVIOUS
<1>3. PICK pairs : pairs = NetrcPairs(entries)
  OBVIOUS
<1>4. pairs \in Seq(Seq(W)) /\ \E off : PairPlaces(off, entries, pairs)
  BY <1>2, <1>3, <1>1, PairsAre
<1>5. PICK off : PairPlaces(off, entries, pairs)
  BY <1>4
<1>6. PICK lines : lines = NetrcLines(c)
  OBVIOUS
<1>7. PICK d \in Nat, n \in Nat : \E ends :
         /\ Len(lines) = d + n /\ Cuts(ends, n, Len(pairs)) /\ BodyAt(lines, d, n, pairs, ends)
         /\ d = 0 \/ (d = 3 /\ MacroFirst(lines))
  BY <1>2, <1>3, <1>4, <1>6, <1>1, LinesAre
<1>8. PICK ends :
         /\ Len(lines) = d + n /\ Cuts(ends, n, Len(pairs)) /\ BodyAt(lines, d, n, pairs, ends)
         /\ d = 0 \/ (d = 3 /\ MacroFirst(lines))
  BY <1>7
<1>9. lines \in Seq(Seq(W))
  BY <1>2, <1>3, <1>4, <1>6, <1>1, LinesAre
<1>10. PICK L : L \in Nat /\ L = d + n /\ lines \in [1 .. L -> Seq(W)]
  <2>1. PICK S : S = Seq(W)
    OBVIOUS
  <2>2. lines \in Seq(S)
    BY <1>9, <2>1
  <2>3. lines \in [1 .. Len(lines) -> S]
    BY <2>2, LenProperties
  <2>4. QED
    BY <1>8, <2>1, <2>3
<1>11. Len(entries) \in Nat /\ off[0] = 0
  <2>1. Len(entries) \in Nat
    BY <1>2, <1>1, LenProperties DEF Entries
  <2>2. QED
    BY <1>5, <2>1 DEF PairPlaces
<1>12. ParserInit \in Parser(W) /\ PairsRead(ParserInit, entries, off, 0)
  BY <1>11, InitIs
<1>13. PICK h : /\ LineByLine(h, Parser(W), ParserInit, L, lines)
                /\ FoldLeft(ParseNetrcLine, ParserInit, lines) = h[L]
  <2>1. PICK base : base = ParserInit
    OBVIOUS
  <2>2. base \in Parser(W)
    BY <1>12, <2>1
  <2>3. PICK h : LineByLine(h, Parser(W), base, L, lines) /\ FoldLeft(ParseNetrcLine, base, lines) = h[L]
    BY <1>10, <2>2, LinesRead
  <2>4. QED
    BY <2>1, <2>3
<1>14. h[d] = ParserInit
  <2>1. CASE d = 0
    BY <1>13, <2>1 DEF LineByLine
  <2>2. CASE d = 3 /\ MacroFirst(lines)
    <3>1. L >= 3
      BY <1>10, <2>2
    <3>2. h[3] = ParserInit
      BY <1>10, <1>12, <1>13, <2>2, <3>1, MacroSkipped
    <3>3. QED
      BY <2>2, <3>2
  <2>3. QED
    BY <1>8, <2>1, <2>2
<1>15. PairsRead(h[d + n], entries, off, Len(pairs))
  <2>1. d + n <= L /\ L \in Nat
    BY <1>10
  <2>2. PairsRead(h[d], entries, off, 0)
    BY <1>12, <1>14
  <2>3. Cuts(ends, n, Len(pairs)) /\ BodyAt(lines, d, n, pairs, ends)
    BY <1>8
  <2>4. LineByLine(h, Parser(W), ParserInit, L, lines)
    BY <1>13
  <2>5. entries \in Entries(W)
    BY <1>2, <1>1
  <2>6. QED
    BY <1>4, <1>5, <2>1, <2>2, <2>3, <2>4, <2>5, BodyIsRead
<1>16. Logged(h[L], entries, Len(entries), TRUE)
  BY <1>5, <1>10, <1>11, <1>15, AllLogged
<1>17. ParseNetrc(lines) = h[L].entries
  BY <1>13 DEF ParseNetrc
<1>18. QED
  <2>1. PICK p : p = h[L]
    OBVIOUS
  <2>2. ReadAs(p, c)
    BY <1>2, <1>6, <1>16, <1>17, <2>1 DEF ReadAs
  <2>3. QED
    BY <2>2

EntryKept(p, entries, m) ==
  /\ m \in DOMAIN p.entries <=> EntriesOf(entries, m) # {}
  /\ m \in DOMAIN p.entries => p.entries[m] = LoginOf(entries, m)

(* A host finds the login it is to have: the one of its last entry, else of
   the default.                                                            *)
LEMMA LoginFound ==
  ASSUME NEW W, Words(W), NEW c, NetrcFile(W, c), NEW host
  PROVE  FindEntry(ParseNetrc(NetrcLines(c)), host) = WantedLogin(c.entries, host)
<1>1. PICK entries : entries = c.entries
  OBVIOUS
<1>2. PICK p : ReadAs(p, c)
  BY LoginsKept
<1>3. ParseNetrc(NetrcLines(c)) = p.entries /\ Logged(p, entries, Len(entries), TRUE)
  BY <1>1, <1>2 DEF ReadAs
<1>4. PICK n \in Nat : n = Len(entries) /\ DOMAIN entries = 1 .. n
  BY <1>1, LenProperties DEF Entries, NetrcFile
<1>5. ASSUME NEW m PROVE EntryKept(p, entries, m)
  <2>1. Logged(p, entries, n, TRUE) /\ DOMAIN entries = 1 .. n
    BY <1>3, <1>4
  <2>2. /\ m \in DOMAIN p.entries <=> EntriesOf(entries, m) # {}
        /\ m \in DOMAIN p.entries => p.entries[m] = LoginOf(entries, m)
    BY <2>1, EntryFound
  <2>3. QED
    BY <2>2 DEF EntryKept
<1>6. FindEntry(p.entries, host) = WantedLogin(entries, host)
  <2>1. EntryKept(p, entries, host) /\ EntryKept(p, entries, "")
    BY <1>5
  <2>2. QED
    BY <2>1 DEF FindEntry, WantedLogin, EntryKept
<1>7. QED
  BY <1>1, <1>3, <1>6

(* Each host gets the login of its last entry in the .netrc, or of the
   default, for any number of machines and logins with any names, those of the
   keywords included, however many lines the entries are cut into and whether
   or not a macro stands before them (ParseNetrc, FindEntry).              *)
THEOREM NetrcAlwaysKeepsLogins ==
  ASSUME NEW W, Words(W), subject = "netrc" => NetrcFile(W, input)
  PROVE  NetrcKeepsLogins
<1> SUFFICES ASSUME subject = "netrc", NEW host
             PROVE  FindEntry(ParseNetrc(NetrcLines(input)), host)
                      = WantedLogin(input.entries, host)
  BY DEF NetrcKeepsLogins
<1>1. PICK c : c = input
  OBVIOUS
<1>2. NetrcFile(W, c)
  BY <1>1
<1>3. FindEntry(ParseNetrc(NetrcLines(c)), host) = WantedLogin(c.entries, host)
  BY <1>2, LoginFound
<1>4. QED
  BY <1>1, <1>3
=============================================================================
