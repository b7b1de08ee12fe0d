----------------------------- MODULE RobotsProofs -----------------------------
(***************************************************************************)
(* The rules of robots.txt, for files, rules and paths of any length: which *)
(* lines of a file are obeyed, and what a rule with wildcards matches.      *)
(***************************************************************************)
EXTENDS InputProofs

(* What the parser of a robots.txt holds, and its lines, for rules in R. *)
RobotsParser(R) ==
  [group : [agents : BOOLEAN, applies : BOOLEAN, rules : Seq(R), delay : Nat],
   rules : Seq(R), delay : Nat]

RobotsLine(R, l) ==
  \/ l.key = "agent" /\ l.ours \in BOOLEAN
  \/ l.key = "rule" /\ [path |-> l.path, allowed |-> l.allowed] \in R
  \/ l.key = "delay" /\ l.delay \in Nat

(* The rules and the delay of the group that ends are taken, if it applies. *)
LEMMA FlushIs ==
  ASSUME NEW R, NEW p, p \in RobotsParser(R)
  PROVE  /\ flushGroup(p) \in RobotsParser(R) /\ flushGroup(p).group = NoGroup
         /\ p.group.applies => /\ flushGroup(p).rules = p.rules \o p.group.rules
                               /\ flushGroup(p).delay \in {p.delay, p.group.delay}
         /\ ~p.group.applies => flushGroup(p).rules = p.rules /\ flushGroup(p).delay = p.delay
<1>1. PICK g : g = p.group
  OBVIOUS
<1>2. /\ g.applies \in BOOLEAN /\ g.rules \in Seq(R) /\ g.delay \in Nat
      /\ p.rules \in Seq(R) /\ p.delay \in Nat
  BY <1>1 DEF RobotsParser
<1>3. NoGroup \in [agents : BOOLEAN, applies : BOOLEAN, rules : Seq(R), delay : Nat]
  <2>1. PICK e : e = <<>> /\ e \in Seq(R)
    BY EmptySeq
  <2>2. NoGroup = [agents |-> FALSE, applies |-> FALSE, rules |-> e, delay |-> 0]
    BY <2>1 DEF NoGroup
  <2>3. QED
    BY <2>1, <2>2
<1>4. PICK rules : rules = IF g.applies THEN p.rules \o g.rules ELSE p.rules
  OBVIOUS
<1>5. PICK delay : delay = IF g.applies /\ g.delay > p.delay THEN g.delay ELSE p.delay
  OBVIOUS
<1>6. rules \in Seq(R)
  BY <1>2, <1>4, ConcatIs
<1>7. delay \in Nat
  BY <1>2, <1>5
<1>8. flushGroup(p) = [group |-> NoGroup, rules |-> rules, delay |-> delay]
  <2>1. flushGroup(p) = [p EXCEPT !.group = NoGroup, !.rules = rules, !.delay = delay]
    BY <1>1, <1>4, <1>5 DEF flushGroup, RobotsParser
  <2>2. QED
    BY <2>1 DEF RobotsParser
<1>9. [group |-> NoGroup, rules |-> rules, delay |-> delay] \in RobotsParser(R)
  BY <1>3, <1>6, <1>7 DEF RobotsParser
<1>10. QED
  <2>1. PICK q : q = flushGroup(p)
    OBVIOUS
  <2>2. q \in RobotsParser(R) /\ q.group = NoGroup /\ q.rules = rules /\ q.delay = delay
    BY <1>8, <1>9, <2>1
  <2>3. delay \in {p.delay, g.delay}
    BY <1>5
  <2>4. ~g.applies => delay = p.delay
    BY <1>5
  <2>5. (g.applies => rules = p.rules \o g.rules) /\ (~g.applies => rules = p.rules)
    BY <1>4
  <2>6. QED
    BY <1>1, <2>1, <2>2, <2>3, <2>4, <2>5

(* What an agent line does: it ends a group that has rules, and joins the
   next one.                                                               *)
LEMMA AgentIs ==
  ASSUME NEW R, NEW p, p \in RobotsParser(R), NEW line, line.key = "agent", line.ours \in BOOLEAN,
         NEW q, q = ParseRobotsLine(p, line)
  PROVE  /\ q \in RobotsParser(R) /\ q.group.agents = TRUE
         /\ q.group.rules = <<>>
         /\ q.rules = EndGroup(p).rules /\ q.delay = EndGroup(p).delay
         /\ q.group.applies <=> EndGroup(p).group.applies \/ line.ours
         /\ q.group.delay = EndGroup(p).group.delay
<1>1. PICK e : e = EndGroup(p)
  OBVIOUS
<1>2. e \in RobotsParser(R) /\ e.group.rules = <<>>
  <2>1. CASE p.group.rules # <<>>
    <3>1. e = flushGroup(p)
      BY <1>1, <2>1 DEF EndGroup
    <3>2. flushGroup(p) \in RobotsParser(R) /\ flushGroup(p).group = NoGroup
      BY FlushIs
    <3>3. NoGroup.rules = <<>>
      BY DEF NoGroup
    <3>4. QED
      BY <3>1, <3>2, <3>3
  <2>2. CASE p.group.rules = <<>>
    BY <1>1, <2>2 DEF EndGroup
  <2>3. QED
    BY <2>1, <2>2
<1>3. PICK g : g = e.group
  OBVIOUS
<1>4. PICK b \in BOOLEAN : b = (g.applies \/ line.ours)
  OBVIOUS
<1>5. g \in [agents : BOOLEAN, applies : BOOLEAN, rules : Seq(R), delay : Nat]
  BY <1>2, <1>3 DEF RobotsParser
<1>6. g.applies \in BOOLEAN /\ g.rules \in Seq(R) /\ g.delay \in Nat
  BY <1>5
<1>7. q = [e EXCEPT !.group.agents = TRUE, !.group.applies = b]
  <2>1. q = [EndGroup(p) EXCEPT !.group.agents = TRUE, !.group.applies = @ \/ line.ours]
    BY DEF ParseRobotsLine
  <2>2. QED
    BY <1>1, <1>2, <1>3, <1>4, <2>1 DEF RobotsParser
<1>8. q = [group |-> [agents |-> TRUE, applies |-> b, rules |-> g.rules, delay |-> g.delay],
           rules |-> e.rules, delay |-> e.delay]
  <2>1. e = [group |-> g, rules |-> e.rules, delay |-> e.delay]
    BY <1>2, <1>3 DEF RobotsParser
  <2>2. [g EXCEPT !.agents = TRUE, !.applies = b]
          = [agents |-> TRUE, applies |-> b, rules |-> g.rules, delay |-> g.delay]
    <3>1. PICK h : h = [g EXCEPT !.agents = TRUE]
      OBVIOUS
    <3>2. h = [agents |-> TRUE, applies |-> g.applies, rules |-> g.rules, delay |-> g.delay]
      BY <1>5, <3>1
    <3>3. h \in [agents : BOOLEAN, applies : BOOLEAN, rules : Seq(R), delay : Nat]
      BY <1>6, <3>2
    <3>4. [h EXCEPT !.applies = b]
            = [agents |-> h.agents, applies |-> b, rules |-> h.rules, delay |-> h.delay]
      BY <3>3
    <3>5. [g EXCEPT !.agents = TRUE, !.applies = b] = [h EXCEPT !.applies = b]
      BY <1>5, <3>1
    <3>6. QED
      BY <3>2, <3>4, <3>5
  <2>3. q = [e EXCEPT !.group = [g EXCEPT !.agents = TRUE, !.applies = b]]
    BY <1>2, <1>3, <1>7 DEF RobotsParser
  <2>4. QED
    BY <1>2, <2>2, <2>3 DEF RobotsParser
<1>9. e.rules \in Seq(R) /\ e.delay \in Nat
  BY <1>2 DEF RobotsParser
<1>10. q \in RobotsParser(R)
  BY <1>6, <1>8, <1>9 DEF RobotsParser
<1>11. QED
  <2>1. q.group = [agents |-> TRUE, applies |-> b, rules |-> g.rules, delay |-> g.delay]
    BY <1>8
  <2>2. q.rules = e.rules /\ q.delay = e.delay
    BY <1>8
  <2>3. /\ q.group.agents = TRUE /\ q.group.applies = b
        /\ q.group.rules = g.rules /\ q.group.delay = g.delay
    BY <2>1
  <2>4. g.rules = <<>>
    BY <1>2, <1>3
  <2>5. q.group.applies <=> e.group.applies \/ line.ours
    BY <1>3, <1>4, <2>3
  <2>6. QED
    BY <1>1, <1>3, <1>10, <2>2, <2>3, <2>4, <2>5

(* What a rule does: it is one more of its group, unless its path is empty. *)
LEMMA RuleIs ==
  ASSUME NEW R, NEW p, p \in RobotsParser(R), NEW line, line.key = "rule",
         [path |-> line.path, allowed |-> line.allowed] \in R,
         NEW q, q = ParseRobotsLine(p, line)
  PROVE  /\ q \in RobotsParser(R) /\ q.group.agents = p.group.agents
         /\ q.rules = p.rules /\ q.delay = p.delay
         /\ q.group.applies = p.group.applies /\ q.group.delay = p.group.delay
         /\ line.path = <<>> => q.group.rules = p.group.rules
         /\ line.path # <<>> => /\ Len(q.group.rules) = Len(p.group.rules) + 1
                                /\ q.group.rules # <<>>
<1>1. PICK r : r = [path |-> line.path, allowed |-> line.allowed] /\ r \in R
  OBVIOUS
<1>2. PICK g : g = p.group
  OBVIOUS
<1>3. /\ g \in [agents : BOOLEAN, applies : BOOLEAN, rules : Seq(R), delay : Nat]
      /\ p.rules \in Seq(R) /\ p.delay \in Nat
  BY <1>2 DEF RobotsParser
<1>4. g.agents \in BOOLEAN /\ g.applies \in BOOLEAN /\ g.rules \in Seq(R) /\ g.delay \in Nat
  BY <1>3
<1>5. CASE line.path = <<>>
  <2>1. q = p
    BY <1>5 DEF ParseRobotsLine
  <2>2. QED
    BY <1>5, <2>1
<1>6. CASE line.path # <<>>
  <2>1. PICK rules : rules = Append(g.rules, r)
    OBVIOUS
  <2>2. rules \in Seq(R) /\ Len(rules) = Len(g.rules) + 1
    BY <1>1, <1>4, <2>1
  <2>3. rules # <<>>
    BY <1>4, <2>2
  <2>4. q = [p EXCEPT !.group.rules = rules]
    <3>1. q = [p EXCEPT !.group.rules = Append(@, [path |-> line.path, allowed |-> line.allowed])]
      BY <1>6 DEF ParseRobotsLine
    <3>2. QED
      BY <1>1, <1>2, <2>1, <3>1 DEF RobotsParser
  <2>5. q = [group |-> [agents |-> g.agents, applies |-> g.applies, rules |-> rules,
                        delay |-> g.delay],
             rules |-> p.rules, delay |-> p.delay]
    BY <1>2, <2>4 DEF RobotsParser
  <2>6. q \in RobotsParser(R)
    BY <1>3, <1>4, <2>2, <2>5 DEF RobotsParser
  <2>7. QED
    BY <1>2, <1>6, <2>2, <2>3, <2>5, <2>6
<1>7. QED
  BY <1>5, <1>6

(* What a delay does. *)
LEMMA DelayIs ==
  ASSUME NEW R, NEW p, p \in RobotsParser(R), NEW line, line.key = "delay", line.delay \in Nat,
         NEW q, q = ParseRobotsLine(p, line)
  PROVE  /\ q \in RobotsParser(R) /\ q.group.agents = p.group.agents
         /\ q.rules = p.rules /\ q.delay = p.delay
         /\ q.group.applies = p.group.applies /\ q.group.delay = line.delay
         /\ q.group.rules = p.group.rules
<1>1. q = [p EXCEPT !.group.delay = line.delay]
  BY DEF ParseRobotsLine
<1>2. QED
  BY <1>1 DEF RobotsParser

(* Every line leaves a parser. *)
LEMMA RobotsStay ==
  ASSUME NEW R, NEW p \in RobotsParser(R), NEW l, RobotsLine(R, l)
  PROVE  ParseRobotsLine(p, l) \in RobotsParser(R)
<1>1. PICK q : q = ParseRobotsLine(p, l)
  OBVIOUS
<1>2. CASE l.key = "agent" /\ l.ours \in BOOLEAN
  BY <1>1, <1>2, AgentIs
<1>3. CASE l.key = "rule" /\ [path |-> l.path, allowed |-> l.allowed] \in R
  BY <1>1, <1>3, RuleIs
<1>4. CASE l.key = "delay" /\ l.delay \in Nat
  BY <1>1, <1>4, DelayIs
<1>5. QED
  BY <1>2, <1>3, <1>4 DEF RobotsLine

(* The lines of a robots.txt, one by one. *)
RobotsByLine(h, X, base, n, seq) ==
  /\ h[0] = base /\ \A k \in 1 .. n : h[k] = ParseRobotsLine(h[k - 1], seq[k])
  /\ \A k \in 0 .. n : h[k] \in X

LinesOver(R, S) == \A l \in S : RobotsLine(R, l)

(* The fold over a file goes line by line. *)
LEMMA RobotsRead ==
  ASSUME NEW R, NEW S, LinesOver(R, S), NEW base, base \in RobotsParser(R), NEW n, n \in Nat,
         NEW seq, seq \in [1 .. n -> S]
  PROVE  \E h : /\ RobotsByLine(h, RobotsParser(R), base, n, seq)
                /\ FoldLeft(ParseRobotsLine, base, seq) = h[n]
<1>1. PICK X : X = RobotsParser(R)
  OBVIOUS
<1>2. base \in X /\ \A x \in X : \A e \in S : ParseRobotsLine(x, e) \in X
  BY <1>1, RobotsStay DEF LinesOver
<1> DEFINE step == [k \in 1 .. n |-> [x \in X |-> ParseRobotsLine(x, seq[k])]]
           Rule(iter) == iter = [s \in SUBSET DOMAIN seq |->
                                   IF s = {} THEN base
                                   ELSE ParseRobotsLine(iter[s \ {Max(s)}], seq[Max(s)])]
<1>3. DOMAIN seq = 1 .. n /\ \A k \in 1 .. n : seq[k] \in S
  OBVIOUS
<1>4. step \in [1 .. n -> [X -> X]]
  BY <1>3, <1>2
<1>5. PICK g \in [SUBSET (1 .. n) -> X] : FoldRule(g, n, base, step)
  <2> HIDE DEF step
  <2>1. QED
    BY <1>4, <1>2, FoldExists
<1>6. Rule(g)
  <2>1. ASSUME NEW s \in SUBSET (1 .. n)
        PROVE  g[s] = IF s = {} THEN base ELSE ParseRobotsLine(g[s \ {Max(s)}], seq[Max(s)])
    <3>1. g[s] = IF s = {} THEN base ELSE step[Max(s)][g[s \ {Max(s)}]]
      BY <1>5 DEF FoldRule
    <3>2. CASE s = {}
      BY <3>1, <3>2
    <3>3. CASE s # {}
      <4>1. Max(s) \in 1 .. n /\ g[s \ {Max(s)}] \in X
        BY <1>3, <3>3, LastPlace
      <4>2. step[Max(s)][g[s \ {Max(s)}]] = ParseRobotsLine(g[s \ {Max(s)}], seq[Max(s)])
        BY <4>1
      <4>3. QED
        BY <3>1, <3>3, <4>2
    <3>4. QED
      BY <3>2, <3>3
  <2>2. g = [s \in SUBSET (1 .. n) |->
               IF s = {} THEN base ELSE ParseRobotsLine(g[s \ {Max(s)}], seq[Max(s)])]
    BY <2>1
  <2>3. QED
    BY <1>3, <2>2, Zenon
<1>7. PICK iter : iter = CHOOSE f : Rule(f)
  OBVIOUS
<1>8. FoldLeft(ParseRobotsLine, base, seq) = iter[DOMAIN seq]
  BY <1>7, Zenon DEF FoldLeft, MapThenFoldSet
<1>9. Rule(iter)
  <2> HIDE DEF Rule
  <2>1. QED
    BY <1>6, <1>7
<1>10. iter = [s \in SUBSET (1 .. n) |->
                IF s = {} THEN base ELSE ParseRobotsLine(iter[s \ {Max(s)}], seq[Max(s)])]
  BY <1>3, <1>9, Zenon
<1> HIDE DEF Rule, step
<1> DEFINE h == [k \in 0 .. n |-> iter[1 .. k]]
<1>11. h[0] = base
  <2>1. 1 .. 0 = {} /\ {} \in SUBSET (1 .. n)
    OBVIOUS
  <2>2. iter[{}] = base
    BY <1>10, <2>1
  <2>3. QED
    BY <2>1, <2>2
<1>12. ASSUME NEW k \in 1 .. n PROVE h[k] = ParseRobotsLine(h[k - 1], seq[k])
  <2>1. /\ 1 .. k \in SUBSET (1 .. n) /\ 1 .. k # {} /\ Max(1 .. k) = k
        /\ (1 .. k) \ {k} = 1 .. k - 1
    BY <1>3, FirstPlaces
  <2>2. iter[1 .. k] = ParseRobotsLine(iter[1 .. k - 1], seq[k])
    BY <1>10, <2>1
  <2>3. h[k] = iter[1 .. k] /\ h[k - 1] = iter[1 .. k - 1]
    BY <1>3
  <2>4. QED
    BY <2>2, <2>3
<1>13. FoldLeft(ParseRobotsLine, base, seq) = h[n]
  BY <1>3, <1>8
<1> HIDE DEF h
<1>14. \A k \in 0 .. n : h[k] \in X
  <2> DEFINE wrong == {k \in 0 .. n : h[k] \notin X}
  <2> SUFFICES ASSUME wrong # {} PROVE FALSE
    OBVIOUS
  <2>1. PICK k : k = Min(wrong)
    OBVIOUS
  <2>2. k \in wrong /\ \A j \in wrong : k <= j
    <3>1. wrong \subseteq Nat
      OBVIOUS
    <3>2. QED
      BY <2>1, <3>1, Smallest
  <2>3. k \in 0 .. n /\ h[k] \notin X
    BY <2>2
  <2>4. k # 0
    BY <1>11, <1>2, <2>3
  <2>5. k \in 1 .. n /\ k - 1 \in 0 .. n /\ ~(k <= k - 1)
    BY <2>3, <2>4
  <2>6. h[k - 1] \in X
    BY <2>2, <2>5
  <2> HIDE DEF wrong
  <2>7. h[k] \in X
    BY <1>3, <1>12, <1>2, <2>5, <2>6
  <2>8. QED
    BY <2>3, <2>7
<1>15. QED
  BY <1>1, <1>11, <1>12, <1>13, <1>14 DEF RobotsByLine

(* Whose group a line belongs to, by the line before it. *)
IsAgent(lines, i) == lines[i].key = "agent"

(* A first line belongs to nobody, a line after one that is no agent line to
   whom that one did, and one after an agent line to that agent and those
   just before it.                                                         *)
LEMMA OursFirst == ASSUME NEW lines PROVE ~Ours(lines, 1)
<1>1. 1 .. 1 - 1 = {}
  OBVIOUS
<1>2. QED
  BY <1>1 DEF Ours, AgentsOf

LEMMA OursStays ==
  ASSUME NEW lines, NEW k \in Nat, ~IsAgent(lines, k + 1)
  PROVE  Ours(lines, (k + 1) + 1) <=> Ours(lines, k + 1)
<1>1. \A j \in 1 .. k + 1 : IsAgent(lines, j) => j \in 1 .. k
  <2>1. \A j \in 1 .. k + 1 : j \in 1 .. k \/ j = k + 1
    OBVIOUS
  <2>2. QED
    BY <2>1
<1>2. 1 .. k \subseteq 1 .. k + 1 /\ (k + 1) - 1 = k /\ ((k + 1) + 1) - 1 = k + 1
  OBVIOUS
<1>3. {j \in 1 .. k + 1 : IsAgent(lines, j)} = {j \in 1 .. k : IsAgent(lines, j)}
  BY <1>1, <1>2
<1>4. AgentsOf(lines, (k + 1) + 1) = AgentsOf(lines, k + 1)
  BY <1>2, <1>3 DEF AgentsOf, IsAgent
<1>5. QED
  BY <1>4 DEF Ours

LEMMA OursJoins ==
  ASSUME NEW lines, NEW k \in Nat, IsAgent(lines, k + 1)
  PROVE  Ours(lines, (k + 1) + 1)
           <=> lines[k + 1].ours \/ (k # 0 /\ IsAgent(lines, k) /\ Ours(lines, k + 1))
<1>1. PICK last : last = {j \in 1 .. k + 1 : IsAgent(lines, j)}
  OBVIOUS
<1>2. PICK before : before = {j \in 1 .. k : IsAgent(lines, j)}
  OBVIOUS
<1>3. k + 1 \in 1 .. k + 1 /\ \A j \in 1 .. k + 1 : j \in 1 .. k \/ j = k + 1
  OBVIOUS
<1>4. last = before \cup {k + 1}
  <2>1. \A j \in 1 .. k : j \in 1 .. k + 1
    OBVIOUS
  <2>2. \A j : j \in last <=> j \in before \cup {k + 1}
    BY <1>1, <1>2, <1>3, <2>1
  <2>3. QED
    BY <2>2
<1>5. Max(last) = k + 1
  <2>1. last \subseteq 0 .. k + 1 /\ last # {} /\ k + 1 \in Nat
    BY <1>1, <1>4
  <2>2. PICK m : m = Max(last)
    OBVIOUS
  <2>3. m \in last /\ \A y \in last : m >= y
    BY <2>1, <2>2, Largest
  <2>4. m \in 0 .. k + 1 /\ m >= k + 1
    BY <1>4, <2>1, <2>3
  <2>5. QED
    BY <2>2, <2>4
<1>6. AgentsOf(lines, (k + 1) + 1) = {j \in last : j .. k + 1 \subseteq last}
  <2>1. ((k + 1) + 1) - 1 = k + 1
    OBVIOUS
  <2>2. QED
    BY <1>1, <1>5, <2>1 DEF AgentsOf, IsAgent
<1>7. k + 1 \in AgentsOf(lines, (k + 1) + 1)
  <2>1. (k + 1) .. (k + 1) = {k + 1}
    OBVIOUS
  <2>2. QED
    BY <1>4, <1>6, <2>1
<1>8. CASE k # 0 /\ IsAgent(lines, k)
  <2>1. k \in before
    BY <1>2, <1>8
  <2>2. Max(before) = k
    <3>1. before \subseteq 0 .. k /\ before # {}
      BY <1>2, <2>1
    <3>2. PICK m : m = Max(before)
      OBVIOUS
    <3>3. m \in before /\ \A y \in before : m >= y
      BY <3>1, <3>2, Largest
    <3>4. m \in 0 .. k /\ m >= k
      BY <2>1, <3>1, <3>3
    <3>5. QED
      BY <3>2, <3>4
  <2>3. AgentsOf(lines, k + 1) = {j \in before : j .. k \subseteq before}
    <3>1. (k + 1) - 1 = k
      OBVIOUS
    <3>2. QED
      BY <1>2, <2>2, <3>1 DEF AgentsOf, IsAgent
  <2>4. ASSUME NEW j \in before
        PROVE  j .. k + 1 \subseteq last <=> j .. k \subseteq before
    <3>1. j \in 1 .. k
      BY <1>2
    <3>2. j .. k + 1 = (j .. k) \cup {k + 1} /\ k + 1 \notin j .. k
      BY <3>1
    <3>3. QED
      BY <1>4, <3>2
  <2>5. AgentsOf(lines, (k + 1) + 1) = AgentsOf(lines, k + 1) \cup {k + 1}
    <3>1. k + 1 \notin before
      BY <1>2
    <3>2. \A j : j \in AgentsOf(lines, (k + 1) + 1) <=> j \in AgentsOf(lines, k + 1) \cup {k + 1}
      BY <1>4, <1>6, <1>7, <2>3, <2>4, <3>1
    <3>3. QED
      BY <3>2
  <2>6. QED
    BY <1>8, <2>5 DEF Ours
<1>9. CASE ~(k # 0 /\ IsAgent(lines, k))
  <2>1. k \notin before
    BY <1>2, <1>9
  <2>2. ASSUME NEW j \in before PROVE ~(j .. k + 1 \subseteq last)
    <3>1. j \in 1 .. k /\ k \in j .. k + 1 /\ k # k + 1
      BY <1>2
    <3>2. QED
      BY <1>4, <2>1, <3>1
  <2>3. AgentsOf(lines, (k + 1) + 1) = {k + 1}
    <3>1. \A j : j \in AgentsOf(lines, (k + 1) + 1) <=> j \in {k + 1}
      BY <1>4, <1>6, <1>7, <2>2
    <3>2. QED
      BY <3>1
  <2>4. QED
    BY <1>9, <2>3 DEF Ours
<1>10. QED
  BY <1>8, <1>9

(* The rules and the delays of the groups that name this program. *)
IsDelay(line) == line.key = "delay"

RulesUpTo(lines, k) == {i \in 1 .. k : IsRule(lines[i]) /\ Ours(lines, i)}

DelaysUpTo(lines, k) ==
  {0} \cup {lines[i].delay : i \in {j \in 1 .. k : IsDelay(lines[j]) /\ Ours(lines, j)}}

(* There is a rule after the last agent line. *)
RuleSince(lines, k) ==
  \E j \in 1 .. k : IsRule(lines[j]) /\ \A i \in j .. k : ~IsAgent(lines, i)

(* What has been read of the file after k lines. *)
CountRead(p) == Len(p.rules) + (IF p.group.applies THEN Len(p.group.rules) ELSE 0)

GroupsRead(p, lines, k) ==
  /\ p.group.agents <=> k # 0
  /\ p.group.applies <=> Ours(lines, k + 1)
  /\ k = 0 \/ IsAgent(lines, k) => p.group.rules = <<>> /\ p.group.delay = 0
  /\ RuleSince(lines, k) => p.group.rules # <<>>
  /\ CountRead(p) = Cardinality(RulesUpTo(lines, k))
  /\ p.delay \in DelaysUpTo(lines, k)
  /\ p.group.applies => p.group.delay \in DelaysUpTo(lines, k)

(* One more rule, or none. *)
LEMMA RulesCounted ==
  ASSUME NEW lines, NEW k \in Nat
  PROVE  /\ IsFiniteSet(RulesUpTo(lines, k)) /\ Cardinality(RulesUpTo(lines, k)) \in Nat
         /\ IsRule(lines[k + 1]) /\ Ours(lines, k + 1)
              => Cardinality(RulesUpTo(lines, k + 1)) = Cardinality(RulesUpTo(lines, k)) + 1
         /\ ~(IsRule(lines[k + 1]) /\ Ours(lines, k + 1))
              => RulesUpTo(lines, k + 1) = RulesUpTo(lines, k)
<1>1. PICK T : T = RulesUpTo(lines, k)
  OBVIOUS
<1>2. IsFiniteSet(T) /\ Cardinality(T) \in Nat
  <2>1. IsFiniteSet(1 .. k)
    BY FS_Interval
  <2>2. T \subseteq 1 .. k
    BY <1>1 DEF RulesUpTo
  <2>3. IsFiniteSet(T)
    BY <2>1, <2>2, FS_Subset
  <2>4. QED
    BY <2>3, FS_CardinalityType
<1>3. k + 1 \notin T /\ \A j : j \in 1 .. k + 1 <=> j \in 1 .. k \/ j = k + 1
  BY <1>1 DEF RulesUpTo
<1>4. CASE IsRule(lines[k + 1]) /\ Ours(lines, k + 1)
  <2>1. \A j : j \in RulesUpTo(lines, k + 1) <=> j \in T \cup {k + 1}
    BY <1>1, <1>3, <1>4 DEF RulesUpTo
  <2>2. RulesUpTo(lines, k + 1) = T \cup {k + 1}
    BY <2>1
  <2>3. Cardinality(T \cup {k + 1}) = Cardinality(T) + 1
    BY <1>2, <1>3, FS_AddElement
  <2>4. QED
    BY <1>1, <1>2, <1>4, <2>2, <2>3
<1>5. CASE ~(IsRule(lines[k + 1]) /\ Ours(lines, k + 1))
  <2>1. \A j : j \in RulesUpTo(lines, k + 1) <=> j \in T
    BY <1>1, <1>3, <1>5 DEF RulesUpTo
  <2>2. RulesUpTo(lines, k + 1) = T
    BY <2>1
  <2>3. QED
    BY <1>1, <1>2, <1>5, <2>2
<1>6. QED
  BY <1>4, <1>5

(* One more delay, or none. *)
LEMMA DelaysStay ==
  ASSUME NEW lines, NEW k \in Nat
  PROVE  /\ DelaysUpTo(lines, k) \subseteq DelaysUpTo(lines, k + 1) /\ 0 \in DelaysUpTo(lines, k)
         /\ IsDelay(lines[k + 1]) /\ Ours(lines, k + 1)
              => lines[k + 1].delay \in DelaysUpTo(lines, k + 1)
<1>1. k + 1 \in 1 .. k + 1 /\ 1 .. k \subseteq 1 .. k + 1
  OBVIOUS
<1>2. DelaysUpTo(lines, k) \subseteq DelaysUpTo(lines, k + 1) /\ 0 \in DelaysUpTo(lines, k)
  BY <1>1 DEF DelaysUpTo
<1>3. ASSUME IsDelay(lines[k + 1]), Ours(lines, k + 1)
      PROVE  lines[k + 1].delay \in DelaysUpTo(lines, k + 1)
  BY <1>1, <1>3 DEF DelaysUpTo
<1>4. QED
  BY <1>2, <1>3

(* The next line is a rule or a delay. *)
LEMMA OtherRead ==
  ASSUME NEW R, NEW p, p \in RobotsParser(R), NEW lines, NEW k \in Nat,
         RobotsLine(R, lines[k + 1]), ~IsAgent(lines, k + 1), k # 0, GroupsRead(p, lines, k),
         NEW q, q = ParseRobotsLine(p, lines[k + 1])
  PROVE  GroupsRead(q, lines, k + 1)
<1>1. PICK line : line = lines[k + 1]
  OBVIOUS
<1>2. Ours(lines, (k + 1) + 1) <=> Ours(lines, k + 1)
  BY OursStays
<1>3. /\ p.group.rules \in Seq(R) /\ p.rules \in Seq(R)
      /\ Len(p.rules) \in Nat /\ Len(p.group.rules) \in Nat
  BY LenProperties DEF RobotsParser
<1>4. /\ k + 1 # 0 /\ k + 1 \in Nat /\ k + 1 \in 1 .. k + 1
      /\ \A j \in 1 .. k + 1 : j \in 1 .. k \/ j = k + 1
  OBVIOUS
<1>5. DelaysUpTo(lines, k) \subseteq DelaysUpTo(lines, k + 1)
  BY DelaysStay
<1>6. /\ p.group.agents /\ (p.group.applies <=> Ours(lines, k + 1))
      /\ RuleSince(lines, k) => p.group.rules # <<>>
      /\ CountRead(p) = Cardinality(RulesUpTo(lines, k))
      /\ p.delay \in DelaysUpTo(lines, k)
      /\ p.group.applies => p.group.delay \in DelaysUpTo(lines, k)
  BY DEF GroupsRead
<1>7. RuleSince(lines, k + 1) => RuleSince(lines, k) \/ IsRule(line)
  <2> SUFFICES ASSUME NEW j \in 1 .. k + 1, IsRule(lines[j]), \A i \in j .. k + 1 : ~IsAgent(lines, i),
                      j # k + 1
               PROVE  RuleSince(lines, k)
    BY <1>1 DEF RuleSince
  <2>1. j \in 1 .. k /\ j .. k \subseteq j .. k + 1
    OBVIOUS
  <2>2. QED
    BY <2>1 DEF RuleSince
<1>8. CASE line.key = "rule" /\ [path |-> line.path, allowed |-> line.allowed] \in R
  <2>1. /\ q.group.agents = p.group.agents
        /\ q.rules = p.rules /\ q.delay = p.delay
        /\ q.group.applies = p.group.applies /\ q.group.delay = p.group.delay
        /\ line.path = <<>> => q.group.rules = p.group.rules
        /\ line.path # <<>> => Len(q.group.rules) = Len(p.group.rules) + 1 /\ q.group.rules # <<>>
    BY <1>1, <1>8, RuleIs
  <2>2. IsRule(line) <=> line.path # <<>>
    BY <1>8 DEF IsRule
  <2>3. RuleSince(lines, k + 1) => q.group.rules # <<>>
    BY <1>6, <1>7, <2>1, <2>2
  <2>4. CountRead(q) = Cardinality(RulesUpTo(lines, k + 1))
    <3>1. CASE IsRule(line) /\ Ours(lines, k + 1)
      <4>1. Cardinality(RulesUpTo(lines, k + 1)) = Cardinality(RulesUpTo(lines, k)) + 1
        BY <1>1, <3>1, RulesCounted
      <4>2. CountRead(q) = CountRead(p) + 1
        <5>1. PICK m \in Nat, n \in Nat : m = Len(p.rules) /\ n = Len(p.group.rules)
          BY <1>3
        <5>2. p.group.applies /\ q.group.applies
          BY <1>6, <2>1, <3>1
        <5>3. Len(q.rules) = m /\ Len(q.group.rules) = n + 1
          BY <2>1, <2>2, <3>1, <5>1
        <5>4. CountRead(p) = m + n /\ CountRead(q) = m + (n + 1)
          BY <5>1, <5>2, <5>3 DEF CountRead
        <5>5. m + (n + 1) = (m + n) + 1
          OBVIOUS
        <5>6. QED
          BY <5>4, <5>5
      <4>3. QED
        BY <1>6, <4>1, <4>2
    <3>2. CASE ~(IsRule(line) /\ Ours(lines, k + 1))
      <4>1. RulesUpTo(lines, k + 1) = RulesUpTo(lines, k)
        BY <1>1, <3>2, RulesCounted
      <4>2. CountRead(q) = CountRead(p)
        BY <1>6, <2>1, <2>2, <3>2 DEF CountRead
      <4>3. QED
        BY <1>6, <4>1, <4>2
    <3>3. QED
      BY <3>1, <3>2
  <2>5. QED
    BY <1>2, <1>4, <1>5, <1>6, <2>1, <2>3, <2>4 DEF GroupsRead
<1>9. CASE line.key = "delay" /\ line.delay \in Nat
  <2>1. /\ q.group.agents = p.group.agents
        /\ q.rules = p.rules /\ q.delay = p.delay
        /\ q.group.applies = p.group.applies /\ q.group.delay = line.delay
        /\ q.group.rules = p.group.rules
    BY <1>1, <1>9, DelayIs
  <2>2. ~IsRule(line) /\ IsDelay(line)
    BY <1>9 DEF IsRule, IsDelay
  <2>3. RuleSince(lines, k + 1) => q.group.rules # <<>>
    BY <1>6, <1>7, <2>1, <2>2
  <2>4. CountRead(q) = Cardinality(RulesUpTo(lines, k + 1))
    <3>1. RulesUpTo(lines, k + 1) = RulesUpTo(lines, k)
      BY <1>1, <2>2, RulesCounted
    <3>2. CountRead(q) = CountRead(p)
      BY <2>1 DEF CountRead
    <3>3. QED
      BY <1>6, <3>1, <3>2
  <2>5. q.group.applies => q.group.delay \in DelaysUpTo(lines, k + 1)
    BY <1>1, <1>6, <2>1, <2>2, DelaysStay
  <2>6. QED
    BY <1>2, <1>4, <1>5, <1>6, <2>1, <2>3, <2>4, <2>5 DEF GroupsRead
<1>10. ~(line.key = "agent")
  BY <1>1 DEF IsAgent
<1>11. QED
  BY <1>1, <1>8, <1>9, <1>10 DEF RobotsLine

(* A file begins with an agent line, and a group has a rule before the next
   one begins.                                                             *)
LEMMA RuleBefore ==
  ASSUME NEW lines, NEW n \in Nat, DOMAIN lines = 1 .. n, lines # <<>>, GroupsHaveRules(lines),
         NEW k \in Nat, k # 0, k + 1 <= n, IsAgent(lines, k + 1), ~IsAgent(lines, k)
  PROVE  RuleSince(lines, k)
<1>1. IsAgent(lines, 1)
  BY DEF GroupsHaveRules, IsAgent
<1>2. PICK before : before = {j \in 1 .. k : IsAgent(lines, j)}
  OBVIOUS
<1>3. 1 \in before /\ before \subseteq 0 .. k
  BY <1>1, <1>2
<1>4. PICK m : m = Max(before)
  OBVIOUS
<1>5. m \in before /\ \A y \in before : m >= y
  BY <1>3, <1>4, Largest
<1>6. m \in 1 .. k /\ IsAgent(lines, m) /\ \A i \in m + 1 .. k : ~IsAgent(lines, i)
  <2>1. m \in 1 .. k /\ IsAgent(lines, m)
    BY <1>2, <1>5
  <2>2. ASSUME NEW i \in m + 1 .. k, IsAgent(lines, i) PROVE FALSE
    <3>1. i \in 1 .. k /\ ~(m >= i)
      BY <2>1
    <3>2. i \in before
      BY <1>2, <2>2, <3>1
    <3>3. QED
      BY <1>5, <3>1, <3>2
  <2>3. QED
    BY <2>1, <2>2
<1>7. m \in 1 .. n /\ k + 1 \in 1 .. n /\ m < k + 1 /\ k \in m .. k + 1
  BY <1>6
<1>8. \E j \in m .. k + 1 : IsRule(lines[j])
  <2>1. \/ \A j \in m .. k + 1 : IsAgent(lines, j)
        \/ \E j \in m .. k + 1 : IsRule(lines[j])
    BY <1>6, <1>7 DEF GroupsHaveRules, IsAgent
  <2>2. QED
    BY <1>7, <2>1
<1>9. PICK j \in m .. k + 1 : IsRule(lines[j])
  BY <1>8
<1>10. ~IsAgent(lines, j)
  BY <1>9 DEF IsRule, IsAgent
<1>11. j # m /\ j # k + 1
  BY <1>6, <1>10
<1>12. j \in 1 .. k /\ j .. k \subseteq m + 1 .. k
  BY <1>6, <1>11
<1>13. QED
  BY <1>6, <1>9, <1>12 DEF RuleSince

(* The next line is an agent line. *)
LEMMA AgentRead ==
  ASSUME NEW R, NEW p, p \in RobotsParser(R), NEW lines, NEW k \in Nat,
         RobotsLine(R, lines[k + 1]), IsAgent(lines, k + 1),
         k # 0 /\ ~IsAgent(lines, k) => RuleSince(lines, k), GroupsRead(p, lines, k),
         NEW q, q = ParseRobotsLine(p, lines[k + 1])
  PROVE  GroupsRead(q, lines, k + 1)
<1>1. PICK line : line = lines[k + 1]
  OBVIOUS
<1>2. PICK e : e = EndGroup(p)
  OBVIOUS
<1>3. line.key = "agent" /\ line.ours \in BOOLEAN
  <2>1. line.key = "agent"
    BY <1>1 DEF IsAgent
  <2>2. QED
    BY <1>1, <2>1 DEF RobotsLine
<1>4. /\ q.group.agents = TRUE /\ q.group.rules = <<>>
      /\ q.rules = e.rules /\ q.delay = e.delay
      /\ q.group.applies <=> e.group.applies \/ line.ours
      /\ q.group.delay = e.group.delay
  <2>1. q = ParseRobotsLine(p, line) /\ line.key = "agent" /\ line.ours \in BOOLEAN
    BY <1>1, <1>3
  <2>2. /\ q \in RobotsParser(R) /\ q.group.agents = TRUE
        /\ q.group.rules = <<>>
        /\ q.rules = EndGroup(p).rules /\ q.delay = EndGroup(p).delay
        /\ q.group.applies <=> EndGroup(p).group.applies \/ line.ours
        /\ q.group.delay = EndGroup(p).group.delay
    BY <2>1, AgentIs, ZenonT(40)
  <2>3. QED
    BY <1>2, <2>2
<1>5. /\ p.group.agents <=> k # 0
      /\ p.group.applies <=> Ours(lines, k + 1)
      /\ k = 0 \/ IsAgent(lines, k) => p.group.rules = <<>> /\ p.group.delay = 0
      /\ RuleSince(lines, k) => p.group.rules # <<>>
      /\ CountRead(p) = Cardinality(RulesUpTo(lines, k))
      /\ p.delay \in DelaysUpTo(lines, k)
      /\ p.group.applies => p.group.delay \in DelaysUpTo(lines, k)
  BY DEF GroupsRead
<1>6. Ours(lines, (k + 1) + 1)
        <=> line.ours \/ (k # 0 /\ IsAgent(lines, k) /\ Ours(lines, k + 1))
  BY <1>1, OursJoins
<1>7. DelaysUpTo(lines, k) \subseteq DelaysUpTo(lines, k + 1) /\ 0 \in DelaysUpTo(lines, k + 1)
  <2>1. k + 1 \in Nat
    OBVIOUS
  <2>2. DelaysUpTo(lines, k) \subseteq DelaysUpTo(lines, k + 1)
    BY DelaysStay
  <2>3. 0 \in DelaysUpTo(lines, k + 1)
    BY <2>1, DelaysStay
  <2>4. QED
    BY <2>2, <2>3
<1>8. RulesUpTo(lines, k + 1) = RulesUpTo(lines, k)
  <2>1. ~IsRule(lines[k + 1])
    BY <1>1, <1>3 DEF IsRule
  <2>2. QED
    BY <2>1, RulesCounted
<1>9. /\ p.rules \in Seq(R) /\ p.group.rules \in Seq(R) /\ p.group.applies \in BOOLEAN
      /\ Len(p.rules) \in Nat /\ Len(p.group.rules) \in Nat
  BY LenProperties DEF RobotsParser
<1>10. Len(<<>>) = 0
  OBVIOUS
<1>11. /\ e.group.applies <=> k # 0 /\ IsAgent(lines, k) /\ Ours(lines, k + 1)
       /\ e.group.delay = 0 /\ Len(e.rules) = CountRead(p)
       /\ e.delay \in DelaysUpTo(lines, k)
  <2>1. CASE k = 0 \/ IsAgent(lines, k)
    <3>1. e = p /\ p.group.rules = <<>> /\ p.group.delay = 0
      BY <1>2, <1>5, <2>1 DEF EndGroup
    <3>2. CountRead(p) = Len(p.rules)
      BY <1>9, <1>10, <3>1 DEF CountRead
    <3>3. k = 0 => ~Ours(lines, k + 1)
      <4>1. 0 + 1 = 1
        OBVIOUS
      <4>2. QED
        BY <4>1, OursFirst
    <3>4. QED
      BY <1>5, <2>1, <3>1, <3>2, <3>3
  <2>2. CASE k # 0 /\ ~IsAgent(lines, k)
    <3>1. e = flushGroup(p)
      BY <1>2, <1>5, <2>2 DEF EndGroup
    <3>2. /\ e.group = NoGroup
          /\ p.group.applies => /\ e.rules = p.rules \o p.group.rules
                                /\ e.delay \in {p.delay, p.group.delay}
          /\ ~p.group.applies => e.rules = p.rules /\ e.delay = p.delay
      BY <3>1, FlushIs
    <3>3. e.group.applies = FALSE /\ e.group.delay = 0
      BY <3>2 DEF NoGroup
    <3>4. Len(e.rules) = CountRead(p)
      <4>1. CASE p.group.applies
        <5>1. Len(p.rules \o p.group.rules) = Len(p.rules) + Len(p.group.rules)
          BY <1>9, ConcatIs
        <5>2. QED
          BY <3>2, <4>1, <5>1 DEF CountRead
      <4>2. CASE ~p.group.applies
        BY <1>9, <3>2, <4>2 DEF CountRead
      <4>3. QED
        BY <4>1, <4>2
    <3>5. e.delay \in DelaysUpTo(lines, k)
      BY <1>5, <1>9, <3>2
    <3>6. QED
      BY <2>2, <3>3, <3>4, <3>5
  <2>3. QED
    BY <2>1, <2>2
<1>12. CountRead(q) = Cardinality(RulesUpTo(lines, k + 1))
  <2>1. PICK c \in Nat : c = CountRead(p)
    BY <1>5, RulesCounted
  <2>2. Len(q.rules) = c /\ Len(q.group.rules) = 0
    BY <1>4, <1>10, <1>11, <2>1
  <2>3. CountRead(q) = c
    BY <2>2 DEF CountRead
  <2>4. QED
    BY <1>5, <1>8, <2>1, <2>3
<1>13. ~RuleSince(lines, k + 1)
  <2>1. \A j \in 1 .. k + 1 : k + 1 \in j .. k + 1
    OBVIOUS
  <2>2. QED
    BY <2>1 DEF RuleSince
<1>14. k + 1 # 0
  OBVIOUS
<1>15. QED
  <2>1. q.group.applies <=> Ours(lines, (k + 1) + 1)
    BY <1>4, <1>6, <1>11
  <2>2. q.delay \in DelaysUpTo(lines, k + 1) /\ q.group.delay \in DelaysUpTo(lines, k + 1)
    BY <1>4, <1>7, <1>11
  <2>3. QED
    BY <1>4, <1>11, <1>12, <1>13, <1>14, <2>1, <2>2 DEF GroupsRead

RobotsInit == [group |-> NoGroup, rules |-> <<>>, delay |-> 0]

(* Before the first line nothing has been read. *)
LEMMA RobotsBegin ==
  ASSUME NEW R, NEW lines
  PROVE  RobotsInit \in RobotsParser(R) /\ GroupsRead(RobotsInit, lines, 0)
<1>1. PICK e : e = <<>> /\ e \in Seq(R) /\ Len(e) = 0
  BY EmptySeq
<1>2. NoGroup = [agents |-> FALSE, applies |-> FALSE, rules |-> e, delay |-> 0]
  BY <1>1 DEF NoGroup
<1>3. RobotsInit = [group |-> NoGroup, rules |-> e, delay |-> 0]
  BY <1>1 DEF RobotsInit
<1>4. RobotsInit \in RobotsParser(R)
  BY <1>1, <1>2, <1>3 DEF RobotsParser
<1>5. /\ RobotsInit.group.agents = FALSE /\ RobotsInit.group.applies = FALSE
      /\ RobotsInit.group.rules = e /\ RobotsInit.group.delay = 0
      /\ RobotsInit.rules = e /\ RobotsInit.delay = 0
  BY <1>2, <1>3
<1>6. ~Ours(lines, 0 + 1)
  <2>1. 0 + 1 = 1
    OBVIOUS
  <2>2. QED
    BY <2>1, OursFirst
<1>7. 1 .. 0 = {}
  OBVIOUS
<1>8. ~RuleSince(lines, 0)
  BY <1>7 DEF RuleSince
<1>9. CountRead(RobotsInit) = Cardinality(RulesUpTo(lines, 0))
  <2>1. RulesUpTo(lines, 0) = {}
    BY <1>7 DEF RulesUpTo
  <2>2. CountRead(RobotsInit) = 0
    BY <1>1, <1>5 DEF CountRead
  <2>3. QED
    BY <2>1, <2>2, FS_EmptySet
<1>10. 0 \in DelaysUpTo(lines, 0)
  BY DEF DelaysUpTo
<1>11. GroupsRead(RobotsInit, lines, 0)
  BY <1>1, <1>5, <1>6, <1>8, <1>9, <1>10 DEF GroupsRead
<1>12. QED
  BY <1>4, <1>11

(* The lines of a file, and what it has when its last line is read. *)
RobotsFile(S, R, lines) == lines \in Seq(S) /\ LinesOver(R, S)

(* After all lines of a file whose groups have rules, all of them are read. *)
LEMMA GroupsAreRead ==
  ASSUME NEW R, NEW S, NEW lines, RobotsFile(S, R, lines), GroupsHaveRules(lines),
         NEW n \in Nat, DOMAIN lines = 1 .. n
  PROVE  \E p : /\ FoldLeft(ParseRobotsLine, RobotsInit, lines) = p
                /\ p \in RobotsParser(R) /\ GroupsRead(p, lines, n)
<1>1. lines \in [1 .. n -> S]
  BY LenProperties DEF RobotsFile
<1>2. LinesOver(R, S)
  BY DEF RobotsFile
<1>3. PICK base : base = RobotsInit
  OBVIOUS
<1>4. base \in RobotsParser(R)
  BY <1>3, RobotsBegin
<1>5. PICK h : /\ RobotsByLine(h, RobotsParser(R), base, n, lines)
               /\ FoldLeft(ParseRobotsLine, base, lines) = h[n]
  BY <1>1, <1>2, <1>4, RobotsRead
<1>6. /\ h[0] = base /\ \A k \in 1 .. n : h[k] = ParseRobotsLine(h[k - 1], lines[k])
      /\ \A k \in 0 .. n : h[k] \in RobotsParser(R)
  BY <1>5 DEF RobotsByLine
<1> DEFINE wrong == {k \in 0 .. n : ~GroupsRead(h[k], lines, k)}
<1>7. wrong = {}
  <2> SUFFICES ASSUME wrong # {} PROVE FALSE
    OBVIOUS
  <2>1. PICK m : m = Min(wrong)
    OBVIOUS
  <2>2. m \in wrong /\ \A j \in wrong : m <= j
    <3>1. wrong \subseteq 0 .. n
      OBVIOUS
    <3> HIDE DEF wrong
    <3>2. wrong \subseteq Nat
      BY <3>1
    <3>3. QED
      BY <2>1, <3>2, Smallest
  <2>3. m \in 0 .. n /\ ~GroupsRead(h[m], lines, m)
    BY <2>2
  <2>4. m # 0
    BY <1>3, <1>6, <2>3, RobotsBegin
  <2>5. PICK k \in Nat : m = k + 1 /\ m - 1 = k /\ k \in 0 .. n /\ ~(m <= k) /\ m \in 1 .. n
    BY <2>3, <2>4
  <2>6. GroupsRead(h[k], lines, k)
    BY <2>2, <2>5
  <2> HIDE DEF wrong
  <2>7. PICK p : p = h[k]
    OBVIOUS
  <2>8. PICK q : q = h[m]
    OBVIOUS
  <2>9. /\ p \in RobotsParser(R) /\ GroupsRead(p, lines, k)
        /\ q = ParseRobotsLine(p, lines[k + 1])
    BY <1>6, <2>5, <2>6, <2>7, <2>8
  <2>10. RobotsLine(R, lines[k + 1])
    BY <1>1, <1>2, <2>5 DEF LinesOver
  <2>11. CASE IsAgent(lines, k + 1)
    <3>1. ASSUME k # 0, ~IsAgent(lines, k) PROVE RuleSince(lines, k)
      <4>1. lines # <<>>
        <5>1. 1 .. 0 = {} /\ m \in DOMAIN lines /\ DOMAIN <<>> = {}
          BY <2>5
        <5>2. QED
          BY <5>1
      <4>2. k + 1 <= n
        BY <2>5
      <4>3. QED
        BY <2>11, <3>1, <4>1, <4>2, RuleBefore
    <3>2. k # 0 /\ ~IsAgent(lines, k) => RuleSince(lines, k)
      BY <3>1
    <3>3. GroupsRead(q, lines, k + 1)
      BY <2>9, <2>10, <2>11, <3>2, AgentRead
    <3>4. QED
      BY <2>3, <2>5, <2>8, <3>3
  <2>12. CASE ~IsAgent(lines, k + 1)
    <3>1. k # 0
      <4>1. k = 0 => IsAgent(lines, 1)
        <5>1. 1 .. 0 = {} /\ m \in DOMAIN lines /\ DOMAIN <<>> = {}
          BY <2>5
        <5>2. lines # <<>>
          BY <5>1
        <5>3. QED
          BY <5>2 DEF GroupsHaveRules, IsAgent
      <4>2. 0 + 1 = 1
        OBVIOUS
      <4>3. QED
        BY <2>12, <4>1, <4>2
    <3>2. GroupsRead(q, lines, k + 1)
      BY <2>9, <2>10, <2>12, <3>1, OtherRead
    <3>3. QED
      BY <2>3, <2>5, <2>8, <3>2
  <2>13. QED
    BY <2>11, <2>12
<1>8. n \in 0 .. n
  OBVIOUS
<1>9. GroupsRead(h[n], lines, n)
  BY <1>7, <1>8
<1>10. QED
  BY <1>3, <1>5, <1>6, <1>8, <1>9

(* The groups of other programs are never obeyed, and all rules of ours are. *)
LEMMA GroupsAlwaysApart ==
  ASSUME NEW R, NEW S, subject = "robots" => RobotsFile(S, R, input)
  PROVE  GroupsApart
<1> SUFFICES ASSUME subject = "robots", GroupsHaveRules(input)
             PROVE  /\ Len(parseRobotsTxt(input).rules)
                         = Cardinality({i \in DOMAIN input : IsRule(input[i]) /\ Ours(input, i)})
                    /\ parseRobotsTxt(input).delay
                         \in {0} \cup {input[i].delay :
                                         i \in {j \in DOMAIN input : /\ input[j].key = "delay"
                                                                     /\ Ours(input, j)}}
  BY DEF GroupsApart
<1>1. PICK lines : lines = input
  OBVIOUS
<1>2. RobotsFile(S, R, lines) /\ GroupsHaveRules(lines)
  BY <1>1
<1>3. PICK n \in Nat : DOMAIN lines = 1 .. n
  BY <1>2, LenProperties DEF RobotsFile
<1>4. PICK p : /\ FoldLeft(ParseRobotsLine, RobotsInit, lines) = p
               /\ p \in RobotsParser(R) /\ GroupsRead(p, lines, n)
  BY <1>2, <1>3, GroupsAreRead
<1>5. parseRobotsTxt(lines) = IF p.group.agents THEN flushGroup(p) ELSE p
  BY <1>4 DEF parseRobotsTxt, RobotsInit
<1>6. PICK q : q = parseRobotsTxt(lines)
  OBVIOUS
<1>7. /\ p.group.agents <=> n # 0
      /\ p.group.applies <=> Ours(lines, n + 1)
      /\ CountRead(p) = Cardinality(RulesUpTo(lines, n))
      /\ p.delay \in DelaysUpTo(lines, n)
      /\ p.group.applies => p.group.delay \in DelaysUpTo(lines, n)
  BY <1>4 DEF GroupsRead
<1>8. /\ p.rules \in Seq(R) /\ p.group.rules \in Seq(R) /\ p.group.applies \in BOOLEAN
      /\ Len(p.rules) \in Nat /\ Len(p.group.rules) \in Nat
  BY <1>4, LenProperties DEF RobotsParser
<1>9. Len(q.rules) = CountRead(p) /\ q.delay \in DelaysUpTo(lines, n)
  <2>1. CASE p.group.applies
    <3>1. p.group.agents
      <4>1. n = 0 => ~Ours(lines, n + 1)
        <5>1. 0 + 1 = 1
          OBVIOUS
        <5>2. QED
          BY <5>1, OursFirst
      <4>2. QED
        BY <1>7, <2>1, <4>1
    <3>2. q.rules = p.rules \o p.group.rules /\ q.delay \in {p.delay, p.group.delay}
      <4>1. q = flushGroup(p)
        BY <1>5, <1>6, <3>1
      <4>2. QED
        BY <1>4, <2>1, <4>1, FlushIs
    <3>3. Len(p.rules \o p.group.rules) = Len(p.rules) + Len(p.group.rules)
      BY <1>8, ConcatIs
    <3>4. QED
      BY <1>7, <2>1, <3>2, <3>3 DEF CountRead
  <2>2. CASE ~p.group.applies
    <3>1. q.rules = p.rules /\ q.delay = p.delay
      <4>1. q = flushGroup(p) \/ q = p
        BY <1>5, <1>6
      <4>2. flushGroup(p).rules = p.rules /\ flushGroup(p).delay = p.delay
        BY <1>4, <2>2, FlushIs
      <4>3. QED
        BY <4>1, <4>2
    <3>2. QED
      BY <1>7, <1>8, <2>2, <3>1 DEF CountRead
  <2>3. QED
    BY <2>1, <2>2
<1>10. Len(q.rules) = Cardinality({i \in DOMAIN lines : IsRule(lines[i]) /\ Ours(lines, i)})
  BY <1>3, <1>7, <1>9 DEF RulesUpTo
<1>11. q.delay \in {0} \cup {lines[i].delay : i \in {j \in DOMAIN lines : lines[j].key = "delay" /\ Ours(lines, j)}}
  BY <1>3, <1>9 DEF DelaysUpTo, IsDelay
<1>12. QED
  BY <1>1, <1>6, <1>10, <1>11

-----------------------------------------------------------------------------

(* The glob of the filter.  A row says from which characters on the rest of the
   pattern fits; Cell makes one from the row of the next place.              *)
MatchRule(f, str, pattern) ==
  f = [j \in 1 .. Len(pattern) + 1 |->
        [i \in 1 .. Len(str) + 1 |->
           IF j > Len(pattern) THEN i > Len(str)
           ELSE IF pattern[j] = "*"
                THEN \E k \in i .. Len(str) + 1 : f[j + 1][k]
                ELSE /\ i <= Len(str)
                     /\ pattern[j] \in {"?", str[i]}
                     /\ f[j + 1][i + 1]]]

IsStar(pattern, j) == pattern[j] = "*"

Fits(pattern, j, c) == pattern[j] \in {"?", c}

Cell(str, pattern, L, j, i, row) ==
  IF IsStar(pattern, j) THEN \E k \in i .. L + 1 : row[k]
  ELSE i <= L /\ Fits(pattern, j, str[i]) /\ row[i + 1]

(* The rows of a pattern with m places, over a name of L characters. *)
Rows(M, str, pattern, L, m) ==
  /\ \A i \in 1 .. L + 1 : M[m + 1][i] <=> i = L + 1
  /\ \A j \in 1 .. m : \A i \in 1 .. L + 1 :
       M[j][i] <=> Cell(str, pattern, L, j, i, M[j + 1])

RowsByCell(M, str, pattern, L, m) ==
  /\ M \in [1 .. m + 1 -> [1 .. L + 1 -> BOOLEAN]]
  /\ \A i \in 1 .. L + 1 : M[m + 1][i] = (i > L)
  /\ \A j \in 1 .. m : \A i \in 1 .. L + 1 : M[j][i] = Cell(str, pattern, L, j, i, M[j + 1])

(* The rows of the glob exist, made from the last one on. *)
LEMMA RowsExist ==
  ASSUME NEW str, NEW pattern, NEW L, L \in Nat, NEW m, m \in Nat
  PROVE  \E M : RowsByCell(M, str, pattern, L, m)
<1> DEFINE X == [1 .. L + 1 -> BOOLEAN]
           base == [i \in 1 .. L + 1 |-> i > L]
           jump == [t \in 1 .. m |-> t - 1]
           step == [t \in 1 .. m |-> [row \in X |->
                     [i \in 1 .. L + 1 |-> Cell(str, pattern, L, m + 1 - t, i, row)]]]
<1>1. base \in X
  OBVIOUS
<1>2. jump \in [1 .. m -> Nat] /\ \A t \in 1 .. m : jump[t] < t
  OBVIOUS
<1>3. step \in [1 .. m -> [X -> X]]
  <2>1. ASSUME NEW j, NEW row \in X, NEW i \in 1 .. L + 1
        PROVE  Cell(str, pattern, L, j, i, row) \in BOOLEAN
    <3>1. (\E k \in i .. L + 1 : row[k]) \in BOOLEAN
      OBVIOUS
    <3>2. (i <= L /\ Fits(pattern, j, str[i]) /\ row[i + 1]) \in BOOLEAN
      OBVIOUS
    <3>3. QED
      BY <3>1, <3>2 DEF Cell
  <2>2. QED
    BY <2>1
<1>4. PICK g \in [0 .. m -> X] : JumpRule(g, m, base, jump, step)
  <2> HIDE DEF X, base, jump, step
  <2>1. QED
    BY <1>1, <1>2, <1>3, JumpExists
<1>5. \A t \in 1 .. m : \A i \in 1 .. L + 1 :
        g[t][i] = Cell(str, pattern, L, m + 1 - t, i, g[t - 1])
  <2>1. ASSUME NEW t \in 1 .. m, NEW i \in 1 .. L + 1
        PROVE  g[t][i] = Cell(str, pattern, L, m + 1 - t, i, g[t - 1])
    <3>1. g[t] = step[t][g[jump[t]]] /\ jump[t] = t - 1
      BY <1>4 DEF JumpRule
    <3>2. PICK row : row = g[t - 1] /\ row \in X
      <4>1. t - 1 \in 0 .. m
        OBVIOUS
      <4> HIDE DEF X
      <4>2. QED
        BY <4>1
    <3>3. g[t] = step[t][row]
      BY <3>1, <3>2
    <3>4. step[t][row] = [k \in 1 .. L + 1 |-> Cell(str, pattern, L, m + 1 - t, k, row)]
      BY <3>2
    <3>5. QED
      BY <3>2, <3>3, <3>4
  <2>2. QED
    BY <2>1
<1>6. g[0] = base
  BY <1>4 DEF JumpRule
<1> DEFINE M == [j \in 1 .. m + 1 |-> g[m + 1 - j]]
<1>7. \A j \in 1 .. m + 1 : m + 1 - j \in 0 .. m /\ M[j] = g[m + 1 - j]
  OBVIOUS
<1>8. M \in [1 .. m + 1 -> X]
  <2> HIDE DEF X
  <2>1. QED
    BY <1>7
<1>9. \A i \in 1 .. L + 1 : M[m + 1][i] = (i > L)
  <2>1. m + 1 \in 1 .. m + 1 /\ m + 1 - (m + 1) = 0
    OBVIOUS
  <2>2. M[m + 1] = base
    BY <1>6, <1>7, <2>1
  <2>3. QED
    BY <2>2
<1>10. \A j \in 1 .. m : \A i \in 1 .. L + 1 : M[j][i] = Cell(str, pattern, L, j, i, M[j + 1])
  <2>1. ASSUME NEW j \in 1 .. m, NEW i \in 1 .. L + 1
        PROVE  M[j][i] = Cell(str, pattern, L, j, i, M[j + 1])
    <3>1. PICK t \in 1 .. m : t = m + 1 - j /\ m + 1 - t = j /\ t - 1 = m + 1 - (j + 1)
      OBVIOUS
    <3>2. j \in 1 .. m + 1 /\ j + 1 \in 1 .. m + 1
      OBVIOUS
    <3>3. M[j] = g[t] /\ M[j + 1] = g[t - 1]
      BY <1>7, <3>1, <3>2
    <3> HIDE DEF M
    <3>4. QED
      BY <1>5, <3>1, <3>3
  <2>2. QED
    BY <2>1
<1> HIDE DEF M
<1>11. QED
  BY <1>8, <1>9, <1>10 DEF RowsByCell

(* The value of the filter's glob at a place, as its definition has it. *)
Rest(str, pattern, j, i, f) ==
  IF j > Len(pattern) THEN i > Len(str)
  ELSE IF pattern[j] = "*"
       THEN \E k \in i .. Len(str) + 1 : f[j + 1][k]
       ELSE /\ i <= Len(str)
            /\ pattern[j] \in {"?", str[i]}
            /\ f[j + 1][i + 1]

(* The glob is the first cell of its rows. *)
LEMMA GlobIs ==
  ASSUME NEW str, NEW pattern, NEW L, L \in Nat, L = Len(str), NEW m, m \in Nat, m = Len(pattern)
  PROVE  \E M : Rows(M, str, pattern, L, m) /\ (simpleGlobMatch(str, pattern) <=> M[1][1])
<1>0. PICK g : RowsByCell(g, str, pattern, L, m)
  BY RowsExist
<1>1. /\ g \in [1 .. m + 1 -> [1 .. L + 1 -> BOOLEAN]]
      /\ \A i \in 1 .. L + 1 : g[m + 1][i] = (i > L)
      /\ \A j \in 1 .. m : \A i \in 1 .. L + 1 : g[j][i] = Cell(str, pattern, L, j, i, g[j + 1])
  BY <1>0 DEF RowsByCell
<1>2. \A f : MatchRule(f, str, pattern)
        <=> f = [j \in 1 .. m + 1 |-> [i \in 1 .. L + 1 |-> Rest(str, pattern, j, i, f)]]
  <2>1. ASSUME NEW f
        PROVE  MatchRule(f, str, pattern)
                 <=> f = [j \in 1 .. Len(pattern) + 1 |->
                            [i \in 1 .. Len(str) + 1 |-> Rest(str, pattern, j, i, f)]]
    BY Zenon DEF MatchRule, Rest
  <2>2. QED
    BY <2>1
<1>3. \A f : \A i : \A j \in 1 .. m : Rest(str, pattern, j, i, f) = Cell(str, pattern, L, j, i, f[j + 1])
  <2>1. ASSUME NEW f, NEW i, NEW j \in 1 .. m
        PROVE  Rest(str, pattern, j, i, f) = Cell(str, pattern, L, j, i, f[j + 1])
    <3>1. ~(j > Len(pattern))
      OBVIOUS
    <3>2. QED
      BY <3>1 DEF Rest, Cell, IsStar, Fits
  <2>2. QED
    BY <2>1
<1>4. \A f : \A i : Rest(str, pattern, m + 1, i, f) = (i > L)
  <2>1. m + 1 > Len(pattern)
    OBVIOUS
  <2>2. QED
    BY <2>1 DEF Rest
<1>5. \A j \in 1 .. m + 1 : j \in 1 .. m \/ j = m + 1
  OBVIOUS
<1>6. g = [j \in 1 .. m + 1 |-> [i \in 1 .. L + 1 |-> Rest(str, pattern, j, i, g)]]
  <2>1. ASSUME NEW j \in 1 .. m + 1, NEW i \in 1 .. L + 1
        PROVE  g[j][i] = Rest(str, pattern, j, i, g)
    <3>1. CASE j \in 1 .. m
      <4>1. g[j][i] = Cell(str, pattern, L, j, i, g[j + 1])
        BY <1>1, <3>1
      <4>2. Rest(str, pattern, j, i, g) = Cell(str, pattern, L, j, i, g[j + 1])
        BY <1>3, <3>1
      <4>3. QED
        BY <4>1, <4>2
    <3>2. CASE j = m + 1
      <4>1. g[m + 1][i] = (i > L)
        BY <1>1
      <4>2. Rest(str, pattern, m + 1, i, g) = (i > L)
        BY <1>4
      <4>3. QED
        BY <3>2, <4>1, <4>2
    <3>3. QED
      BY <1>5, <3>1, <3>2
  <2>2. ASSUME NEW j \in 1 .. m + 1
        PROVE  g[j] = [i \in 1 .. L + 1 |-> Rest(str, pattern, j, i, g)]
    <3>1. g[j] \in [1 .. L + 1 -> BOOLEAN]
      BY <1>1
    <3>2. QED
      BY <2>1, <3>1
  <2>3. QED
    BY <1>1, <2>2
<1>7. MatchRule(g, str, pattern)
  BY <1>2, <1>6
<1>8. PICK M : M = CHOOSE f : MatchRule(f, str, pattern)
  OBVIOUS
<1>9. MatchRule(M, str, pattern)
  BY <1>7, <1>8
<1>10. M = [j \in 1 .. m + 1 |-> [i \in 1 .. L + 1 |-> Rest(str, pattern, j, i, M)]]
  BY <1>2, <1>9
<1>11. \A j \in 1 .. m + 1 : \A i \in 1 .. L + 1 : M[j][i] = Rest(str, pattern, j, i, M)
  <2>1. ASSUME NEW j \in 1 .. m + 1, NEW i \in 1 .. L + 1
        PROVE  M[j][i] = Rest(str, pattern, j, i, M)
    <3>1. M[j] = [k \in 1 .. L + 1 |-> Rest(str, pattern, j, k, M)]
      BY <1>10
    <3>2. QED
      BY <3>1
  <2>2. QED
    BY <2>1
<1>12. Rows(M, str, pattern, L, m)
  <2>1. \A i \in 1 .. L + 1 : i > L <=> i = L + 1
    OBVIOUS
  <2>2. m + 1 \in 1 .. m + 1 /\ \A j \in 1 .. m : j \in 1 .. m + 1
    OBVIOUS
  <2>3. \A i \in 1 .. L + 1 : M[m + 1][i] <=> i = L + 1
    BY <1>4, <1>11, <2>1, <2>2
  <2>4. \A j \in 1 .. m : \A i \in 1 .. L + 1 : M[j][i] <=> Cell(str, pattern, L, j, i, M[j + 1])
    BY <1>3, <1>11, <2>2
  <2>5. QED
    BY <2>3, <2>4 DEF Rows
<1>13. simpleGlobMatch(str, pattern) = M[1][1]
  BY <1>8, Zenon DEF simpleGlobMatch, MatchRule
<1>14. QED
  BY <1>12, <1>13

(* A part of the pattern without wildcards, and where it stands in the name. *)
Literal(pattern, a, n) ==
  \A t \in 0 .. n - 1 : ~IsStar(pattern, a + t) /\ \A c : Fits(pattern, a + t, c) => pattern[a + t] = c

Same(str, k, pattern, a, n) == \A t \in 0 .. n - 1 : str[k + t + 1] = pattern[a + t]

(* A part without wildcards fits where the name has the same characters. *)
LEMMA LiteralIs ==
  ASSUME NEW M, NEW str, NEW pattern, NEW L \in Nat, NEW m \in Nat, Rows(M, str, pattern, L, m),
         NEW a \in Nat, a # 0, NEW n \in Nat, a + n <= m + 1, Literal(pattern, a, n), NEW k \in 0 .. L
  PROVE  M[a][k + 1] <=> k + n <= L /\ Same(str, k, pattern, a, n) /\ M[a + n][k + n + 1]
<1> DEFINE claim(t) == M[a][k + 1] <=> k + t <= L /\ Same(str, k, pattern, a, t) /\ M[a + t][k + t + 1]
           wrong == {t \in 0 .. n : ~claim(t)}
<1>1. wrong = {}
  <2> SUFFICES ASSUME wrong # {} PROVE FALSE
    OBVIOUS
  <2>1. PICK u : u = Min(wrong)
    OBVIOUS
  <2>2. u \in wrong /\ \A j \in wrong : u <= j
    <3>1. wrong \subseteq 0 .. n
      OBVIOUS
    <3> HIDE DEF wrong
    <3>2. wrong \subseteq Nat
      BY <3>1
    <3>3. QED
      BY <2>1, <3>2, Smallest
  <2>3. u \in 0 .. n /\ ~claim(u)
    BY <2>2
  <2>4. u # 0
    <3>1. claim(0)
      <4>1. k + 0 <= L /\ a + 0 = a /\ k + 0 + 1 = k + 1 /\ 0 .. 0 - 1 = {}
        OBVIOUS
      <4>2. Same(str, k, pattern, a, 0)
        BY <4>1 DEF Same
      <4>3. QED
        BY <4>1, <4>2
    <3>2. QED
      BY <2>3, <3>1
  <2>5. PICK t \in Nat : u = t + 1 /\ t \in 0 .. n - 1 /\ t \in 0 .. n /\ ~(u <= t)
    <3>1. u - 1 \in Nat /\ u = (u - 1) + 1 /\ u - 1 \in 0 .. n - 1 /\ u - 1 \in 0 .. n /\ ~(u <= u - 1)
      BY <2>3, <2>4
    <3>2. QED
      BY <3>1
  <2>6. claim(t)
    BY <2>2, <2>5
  <2>7. M[a][k + 1] <=> k + t <= L /\ Same(str, k, pattern, a, t) /\ M[a + t][k + t + 1]
    BY <2>6
  <2>8. k + t <= L => (M[a + t][k + t + 1] <=> /\ k + t + 1 <= L /\ str[k + t + 1] = pattern[a + t]
                                              /\ M[a + t + 1][k + t + 1 + 1])
    <3> SUFFICES ASSUME k + t <= L
                 PROVE  M[a + t][k + t + 1] <=> /\ k + t + 1 <= L /\ str[k + t + 1] = pattern[a + t]
                                                /\ M[a + t + 1][k + t + 1 + 1]
      OBVIOUS
    <3>1. PICK j \in 1 .. m : j = a + t
      BY <2>5
    <3>2. PICK i \in 1 .. L + 1 : i = k + t + 1
      OBVIOUS
    <3>3. M[j][i] <=> Cell(str, pattern, L, j, i, M[j + 1])
      BY DEF Rows
    <3>4. ~IsStar(pattern, j) /\ \A c : Fits(pattern, j, c) => pattern[j] = c
      BY <2>5, <3>1 DEF Literal
    <3>5. Fits(pattern, j, str[i]) <=> str[i] = pattern[j]
      <4>1. str[i] = pattern[j] => Fits(pattern, j, str[i])
        BY DEF Fits
      <4>2. QED
        BY <3>4, <4>1
    <3>6. M[j][i] <=> i <= L /\ str[i] = pattern[j] /\ M[j + 1][i + 1]
      BY <3>3, <3>4, <3>5 DEF Cell
    <3>7. QED
      BY <3>1, <3>2, <3>6
  <2>9. Same(str, k, pattern, a, t + 1)
          <=> Same(str, k, pattern, a, t) /\ str[k + t + 1] = pattern[a + t]
    <3>1. \A s : s \in 0 .. (t + 1) - 1 <=> s \in 0 .. t - 1 \/ s = t
      OBVIOUS
    <3>2. QED
      BY <3>1 DEF Same
  <2>10. /\ k + (t + 1) = k + t + 1 /\ a + (t + 1) = a + t + 1
         /\ k + t + 1 <= L => k + t <= L
    OBVIOUS
  <2>11. claim(t + 1)
    <3> HIDE DEF wrong
    <3>1. QED
      BY <2>7, <2>8, <2>9, <2>10
  <2>12. QED
    BY <2>3, <2>5, <2>11
<1>2. n \in 0 .. n
  OBVIOUS
<1>3. QED
  BY <1>1, <1>2

-----------------------------------------------------------------------------

(* The matcher of robots rules. *)
LEMMA StarBeforeIs ==
  ASSUME NEW pattern, NEW i \in Nat, i # 0
  PROVE  /\ StarBefore(pattern, i) \in 0 .. i - 1
         /\ StarBefore(pattern, i) # 0 => IsStar(pattern, StarBefore(pattern, i))
         /\ \A j \in StarBefore(pattern, i) + 1 .. i - 1 : ~IsStar(pattern, j)
<1>1. PICK T : T = {0} \cup {j \in 1 .. i - 1 : IsStar(pattern, j)}
  OBVIOUS
<1>2. PICK s : s = Max(T)
  OBVIOUS
<1>3. s \in T /\ \A y \in T : s >= y
  <2>1. T \subseteq 0 .. i /\ T # {}
    BY <1>1
  <2>2. QED
    BY <1>2, <2>1, Largest
<1>4. s \in 0 .. i - 1 /\ (s # 0 => IsStar(pattern, s))
  <2>1. 0 \in 0 .. i - 1
    OBVIOUS
  <2>2. QED
    BY <1>1, <1>3, <2>1
<1>5. \A j \in s + 1 .. i - 1 : ~IsStar(pattern, j)
  <2>1. ASSUME NEW j \in s + 1 .. i - 1, IsStar(pattern, j) PROVE FALSE
    <3>1. j \in 1 .. i - 1 /\ ~(s >= j)
      BY <1>4
    <3>2. j \in T
      BY <1>1, <2>1, <3>1
    <3>3. QED
      BY <1>3, <3>1, <3>2
  <2>2. QED
    BY <2>1
<1>6. StarBefore(pattern, i) = s
  BY <1>1, <1>2 DEF StarBefore, IsStar
<1>7. QED
  BY <1>4, <1>5, <1>6

(* A part of the pattern is a part of the name. *)
LEMMA CutsAgree ==
  ASSUME NEW C, NEW path, path \in Seq(C), NEW pattern, pattern \in Seq(C),
         NEW s, s \in Nat, NEW len, len \in Nat, s + len <= Len(pattern),
         NEW q, q \in Nat, q + len <= Len(path)
  PROVE  SubSeq(path, q + 1, q + len) = SubSeq(pattern, s + 1, s + len)
           <=> Same(path, q, pattern, s + 1, len)
<1>1. PICK a : a = SubSeq(path, q + 1, q + len)
  OBVIOUS
<1>2. PICK b : b = SubSeq(pattern, s + 1, s + len)
  OBVIOUS
<1>3. PICK x \in Nat : x = q + len /\ q <= x /\ x <= Len(path) /\ x - q = len
  OBVIOUS
<1>4. PICK y \in Nat : y = s + len /\ s <= y /\ y <= Len(pattern) /\ y - s = len
  OBVIOUS
<1>5. /\ a \in Seq(C) /\ Len(a) = len /\ \A i \in 1 .. len : a[i] = path[q + i]
  <2>1. /\ SubSeq(path, q + 1, x) \in Seq(C) /\ Len(SubSeq(path, q + 1, x)) = x - q
        /\ \A i \in 1 .. x - q : SubSeq(path, q + 1, x)[i] = path[q + i]
    BY <1>3, CutIs
  <2>2. QED
    BY <1>1, <1>3, <2>1
<1>6. /\ b \in Seq(C) /\ Len(b) = len /\ \A i \in 1 .. len : b[i] = pattern[s + i]
  <2>1. /\ SubSeq(pattern, s + 1, y) \in Seq(C) /\ Len(SubSeq(pattern, s + 1, y)) = y - s
        /\ \A i \in 1 .. y - s : SubSeq(pattern, s + 1, y)[i] = pattern[s + i]
    BY <1>4, CutIs
  <2>2. QED
    BY <1>2, <1>4, <2>1
<1>7. a = b <=> \A i \in 1 .. len : a[i] = b[i]
  <2>1. a \in [1 .. len -> C] /\ b \in [1 .. len -> C]
    BY <1>5, <1>6, LenProperties
  <2>2. QED
    BY <2>1
<1>8. (\A i \in 1 .. len : a[i] = b[i]) <=> Same(path, q, pattern, s + 1, len)
  <2>1. ASSUME NEW i \in 1 .. len PROVE a[i] = path[q + i] /\ b[i] = pattern[s + i]
    BY <1>5, <1>6
  <2>2. ASSUME \A i \in 1 .. len : a[i] = b[i], NEW t \in 0 .. len - 1
        PROVE  path[q + t + 1] = pattern[s + 1 + t]
    <3>1. PICK i \in 1 .. len : i = t + 1 /\ q + i = q + t + 1 /\ s + i = s + 1 + t
      OBVIOUS
    <3>2. a[i] = b[i]
      BY <2>2
    <3>3. a[i] = path[q + i] /\ b[i] = pattern[s + i]
      BY <2>1
    <3>4. QED
      BY <3>1, <3>2, <3>3
  <2>3. ASSUME Same(path, q, pattern, s + 1, len), NEW i \in 1 .. len PROVE a[i] = b[i]
    <3>1. PICK t \in 0 .. len - 1 : i = t + 1 /\ q + i = q + t + 1 /\ s + i = s + 1 + t
      OBVIOUS
    <3>2. path[q + t + 1] = pattern[s + 1 + t]
      BY <2>3 DEF Same
    <3>3. QED
      BY <2>1, <3>1, <3>2
  <2>4. QED
    BY <2>2, <2>3 DEF Same
<1>9. QED
  BY <1>1, <1>2, <1>7, <1>8

(* Where a part, len characters after the star or beginning s, ends: v, having
   been looked for from pos on.                                              *)
PartEnds(v, path, L, pattern, s, len, pos) ==
  /\ v \in -1 .. L
  /\ v >= 0 => \E k \in 0 .. L : /\ pos >= 0 /\ pos <= k /\ v = k + len
                                 /\ Same(path, k, pattern, s + 1, len)
                                 /\ s = 0 /\ pos = 0 => k = 0
  /\ \A k \in 0 .. L : (/\ pos >= 0 /\ pos <= k /\ k + len <= L
                        /\ Same(path, k, pattern, s + 1, len) /\ (s = 0 => k = 0))
                         => v >= 0 /\ v <= k + len

(* Where a part ends is the end of the first of its places, or -1 when it has
   none.                                                                   *)
LEMMA PartIs ==
  ASSUME NEW C, NEW path, path \in Seq(C), NEW pattern, pattern \in Seq(C),
         NEW L, L \in Nat, L = Len(path), NEW i, i \in Nat, i # 0, i <= Len(pattern) + 1,
         NEW pos, pos \in -1 .. L
  PROVE  PartEnds(EndOfPart(path, pattern, i, pos), path, L, pattern,
                  StarBefore(pattern, i), i - 1 - StarBefore(pattern, i), pos)
<1>1. PICK s : s \in Nat /\ s = StarBefore(pattern, i) /\ s \in 0 .. i - 1
  BY StarBeforeIs
<1>2. PICK len \in Nat : len = i - 1 - s /\ s + len = i - 1
  BY <1>1
<1>3. PICK v : v = EndOfPart(path, pattern, i, pos)
  OBVIOUS
<1>4. Len(pattern) \in Nat /\ s + len <= Len(pattern)
  BY <1>1, <1>2, LenProperties
<1>5. PICK part : part = PartBefore(pattern, i)
  OBVIOUS
<1>6. part = SubSeq(pattern, s + 1, s + len) /\ Len(part) = len /\ part \in Seq(C)
  <2>1. PICK y \in Nat : y = s + len /\ s <= y /\ y <= Len(pattern) /\ y - s = len
    BY <1>1, <1>2, <1>4
  <2>2. /\ SubSeq(pattern, s + 1, y) \in Seq(C) /\ Len(SubSeq(pattern, s + 1, y)) = y - s
        /\ \A x \in 1 .. y - s : SubSeq(pattern, s + 1, y)[x] = pattern[s + x]
    <3>1. s \in Nat /\ s <= y /\ y <= Len(pattern)
      BY <1>1, <2>1
    <3>2. QED
      BY <3>1, CutIs
  <2>3. part = SubSeq(pattern, s + 1, y)
    BY <1>1, <1>2, <1>5, <2>1 DEF PartBefore
  <2>4. QED
    BY <2>1, <2>2, <2>3
<1>7. part = <<>> <=> len = 0
  BY <1>6, EmptySeq
<1>8. PICK places : places = Places(path, part, pos)
  OBVIOUS
<1>9. v = IF pos < 0 \/ part = <<>> THEN pos
          ELSE IF places # {} /\ (s = 0 => Min(places) = 0) THEN Min(places) + len ELSE -1
  BY <1>1, <1>3, <1>5, <1>6, <1>8 DEF EndOfPart
<1>10. CASE pos < 0
  <2>1. v = pos
    BY <1>9, <1>10
  <2>2. ~(pos >= 0) /\ ~(v >= 0)
    BY <1>10, <2>1
  <2>3. PartEnds(v, path, L, pattern, s, len, pos)
    BY <2>1, <2>2 DEF PartEnds
  <2>4. QED
    BY <1>1, <1>2, <1>3, <2>3
<1>11. CASE pos >= 0 /\ len = 0
  <2>1. v = pos
    BY <1>7, <1>9, <1>11
  <2>2. \A k : Same(path, k, pattern, s + 1, len)
    <3>1. 0 .. len - 1 = {}
      BY <1>11
    <3>2. QED
      BY <3>1 DEF Same
  <2>3. pos \in 0 .. L /\ pos + len = pos
    BY <1>11
  <2>4. \A k \in 0 .. L : pos <= k => v <= k + len
    BY <1>11, <2>1
  <2>5. PartEnds(v, path, L, pattern, s, len, pos)
    BY <1>11, <2>1, <2>2, <2>3, <2>4 DEF PartEnds
  <2>6. QED
    BY <1>1, <1>2, <1>3, <2>5
<1>12. CASE pos >= 0 /\ len # 0
  <2>1. \A k : k \in places
                 <=> k \in pos .. L - len /\ Same(path, k, pattern, s + 1, len)
    <3>1. ASSUME NEW k \in pos .. L - len
          PROVE  SubSeq(path, k + 1, k + len) = part <=> Same(path, k, pattern, s + 1, len)
      <4>1. k \in Nat /\ k + len <= Len(path) /\ s \in Nat /\ len \in Nat
        BY <1>1, <1>12
      <4>2. SubSeq(path, k + 1, k + len) = SubSeq(pattern, s + 1, s + len)
              <=> Same(path, k, pattern, s + 1, len)
        BY <1>4, <4>1, CutsAgree
      <4>3. QED
        BY <1>6, <4>2
    <3>2. places = {q \in pos .. L - len : SubSeq(path, q + 1, q + len) = part}
      BY <1>6, <1>8 DEF Places
    <3>3. QED
      BY <3>1, <3>2
  <2>2. \A k \in pos .. L - len : k \in 0 .. L /\ k \in Nat /\ k + len \in 0 .. L /\ pos <= k
    BY <1>12
  <2>3. CASE places = {}
    <3>1. v = -1
      BY <1>7, <1>9, <1>12, <2>3
    <3>2. \A k \in 0 .. L : ~(pos <= k /\ k + len <= L /\ Same(path, k, pattern, s + 1, len))
      <4>1. \A k \in 0 .. L : pos <= k /\ k + len <= L => k \in pos .. L - len
        OBVIOUS
      <4>2. QED
        BY <2>1, <2>3, <4>1
    <3>3. v \in -1 .. L /\ ~(v >= 0)
      BY <3>1
    <3>4. PartEnds(v, path, L, pattern, s, len, pos)
      BY <3>2, <3>3 DEF PartEnds
    <3>5. QED
      BY <1>1, <1>2, <1>3, <3>4
  <2>4. CASE places # {}
    <3>1. PICK first : first = Min(places)
      OBVIOUS
    <3>2. first \in places /\ \A k \in places : first <= k
      <4>1. places \subseteq Nat
        BY <2>1, <2>2
      <4>2. QED
        BY <2>4, <3>1, <4>1, Smallest
    <3>3. first \in 0 .. L /\ first + len \in 0 .. L /\ pos <= first /\ Same(path, first, pattern, s + 1, len)
      BY <2>1, <2>2, <3>2
    <3>4. v = IF s = 0 => first = 0 THEN first + len ELSE -1
      BY <1>7, <1>9, <1>12, <2>4, <3>1
    <3>5. v \in -1 .. L
      BY <3>3, <3>4
    <3>6. v >= 0 => v = first + len /\ (s = 0 /\ pos = 0 => first = 0)
      BY <3>4
    <3>7. ASSUME NEW k \in 0 .. L, pos <= k, k + len <= L, Same(path, k, pattern, s + 1, len),
                 s = 0 => k = 0
          PROVE  v >= 0 /\ v <= k + len
      <4>1. k \in pos .. L - len
        BY <1>12, <3>7
      <4>2. first <= k
        BY <2>1, <3>2, <3>7, <4>1
      <4>3. s = 0 => first = 0
        BY <3>3, <3>7, <4>2
      <4>4. QED
        BY <3>3, <3>4, <4>2, <4>3
    <3>8. PartEnds(v, path, L, pattern, s, len, pos)
      BY <1>12, <3>3, <3>5, <3>6, <3>7 DEF PartEnds
    <3>9. QED
      BY <1>1, <1>2, <1>3, <3>8
  <2>5. QED
    BY <2>3, <2>4
<1>13. pos < 0 \/ (pos >= 0 /\ len = 0) \/ (pos >= 0 /\ len # 0)
  OBVIOUS
<1>14. QED
  BY <1>10, <1>11, <1>12, <1>13

EndRule(f, path, pattern) ==
  f = [i \in 0 .. Len(pattern) + 1 |->
        IF i = 0 THEN 0 ELSE EndOfPart(path, pattern, i, f[StarBefore(pattern, i)])]

(* The ends of all parts, each looked for from the end of the one before. *)
PartsEnd(E, path, L, pattern, N) ==
  /\ E[0] = 0 /\ \A i \in 0 .. N : E[i] \in -1 .. L
  /\ \A i \in 1 .. N :
       PartEnds(E[i], path, L, pattern, StarBefore(pattern, i),
                i - 1 - StarBefore(pattern, i), E[StarBefore(pattern, i)])

Anchored(pattern, n) == pattern[n] = "$"

GlobByEnds(E, path, pattern, n) ==
  /\ E[IF Anchored(pattern, n) THEN StarBefore(pattern, n + 1) ELSE n + 1] >= 0
  /\ Anchored(pattern, n) => IsSuffix(Front(PartBefore(pattern, n + 1)), path)

(* The ends of all parts exist, and the matcher looks at the last. *)
LEMMA EndsExist ==
  ASSUME NEW C, NEW path, path \in Seq(C), NEW pattern, pattern \in Seq(C),
         NEW L, L \in Nat, L = Len(path), NEW n, n \in Nat, n = Len(pattern)
  PROVE  \E E : /\ PartsEnd(E, path, L, pattern, n + 1)
                /\ matchRobotsGlob(path, pattern) <=> GlobByEnds(E, path, pattern, n)
<1> DEFINE X == -1 .. L
           N == n + 1
           jump == [i \in 1 .. N |-> StarBefore(pattern, i)]
           step == [i \in 1 .. N |-> [pos \in X |-> EndOfPart(path, pattern, i, pos)]]
<1>1. 0 \in X /\ N \in Nat
  OBVIOUS
<1>2. \A i \in 1 .. N : StarBefore(pattern, i) \in Nat /\ StarBefore(pattern, i) < i /\ StarBefore(pattern, i) \in 0 .. N
  <2>1. ASSUME NEW i \in 1 .. N
        PROVE  StarBefore(pattern, i) \in Nat /\ StarBefore(pattern, i) < i /\ StarBefore(pattern, i) \in 0 .. N
    <3>1. i \in Nat /\ i # 0
      OBVIOUS
    <3>2. StarBefore(pattern, i) \in 0 .. i - 1
      BY <3>1, StarBeforeIs
    <3>3. QED
      BY <3>2
  <2>2. QED
    BY <2>1
<1>3. ASSUME NEW i \in 1 .. N, NEW pos \in X
      PROVE  PartEnds(EndOfPart(path, pattern, i, pos), path, L, pattern,
                      StarBefore(pattern, i), i - 1 - StarBefore(pattern, i), pos)
  <2>1. i \in Nat /\ i # 0 /\ i <= Len(pattern) + 1 /\ pos \in -1 .. L
    OBVIOUS
  <2>2. QED
    BY <2>1, PartIs
<1>4. \A i \in 1 .. N : \A pos \in X : EndOfPart(path, pattern, i, pos) \in X
  BY <1>3 DEF PartEnds
<1>5. jump \in [1 .. N -> Nat] /\ \A i \in 1 .. N : jump[i] < i
  BY <1>2
<1>6. step \in [1 .. N -> [X -> X]]
  BY <1>4
<1>7. PICK g \in [0 .. N -> X] : JumpRule(g, N, 0, jump, step)
  <2> HIDE DEF X, N, jump, step
  <2>1. QED
    BY <1>1, <1>5, <1>6, JumpExists
<1>8. g[0] = 0 /\ \A i \in 1 .. N : g[i] = EndOfPart(path, pattern, i, g[StarBefore(pattern, i)])
  <2>1. ASSUME NEW i \in 1 .. N PROVE g[i] = EndOfPart(path, pattern, i, g[StarBefore(pattern, i)])
    <3>1. g[i] = step[i][g[jump[i]]] /\ jump[i] = StarBefore(pattern, i)
      BY <1>7 DEF JumpRule
    <3>2. g[StarBefore(pattern, i)] \in X
      <4> HIDE DEF X, N
      <4>1. QED
        BY <1>2
    <3>3. QED
      BY <3>1, <3>2
  <2>2. g[0] = 0
    BY <1>7 DEF JumpRule
  <2>3. QED
    BY <2>1, <2>2
<1> HIDE DEF jump, step
<1>9. EndRule(g, path, pattern)
  <2>1. ASSUME NEW i \in 0 .. N
        PROVE  g[i] = IF i = 0 THEN 0 ELSE EndOfPart(path, pattern, i, g[StarBefore(pattern, i)])
    <3>1. i = 0 \/ i \in 1 .. N
      OBVIOUS
    <3>2. QED
      BY <1>8, <3>1
  <2>2. g = [i \in 0 .. N |->
               IF i = 0 THEN 0 ELSE EndOfPart(path, pattern, i, g[StarBefore(pattern, i)])]
    BY <2>1
  <2>3. N = Len(pattern) + 1
    OBVIOUS
  <2> HIDE DEF N
  <2>4. QED
    BY <2>2, <2>3 DEF EndRule
<1>10. PICK E : E = CHOOSE f : EndRule(f, path, pattern)
  OBVIOUS
<1>11. EndRule(E, path, pattern)
  BY <1>9, <1>10
<1>12. \A i \in 0 .. N : E[i] = IF i = 0 THEN 0 ELSE EndOfPart(path, pattern, i, E[StarBefore(pattern, i)])
  <2>1. ASSUME NEW i \in 0 .. N
        PROVE  E[i] = IF i = 0 THEN 0 ELSE EndOfPart(path, pattern, i, E[StarBefore(pattern, i)])
    <3>1. i \in 0 .. Len(pattern) + 1
      OBVIOUS
    <3>2. QED
      BY <1>11, <3>1 DEF EndRule
  <2>2. QED
    BY <2>1
<1> DEFINE wrong == {i \in 0 .. N : E[i] \notin X}
<1>13. wrong = {}
  <2> SUFFICES ASSUME wrong # {} PROVE FALSE
    OBVIOUS
  <2>1. PICK i : i = Min(wrong)
    OBVIOUS
  <2>2. i \in wrong /\ \A j \in wrong : i <= j
    <3>1. wrong \subseteq Nat
      OBVIOUS
    <3> HIDE DEF wrong
    <3>2. QED
      BY <2>1, <3>1, Smallest
  <2>3. i \in 0 .. N /\ E[i] \notin X
    BY <2>2
  <2>4. i # 0
    BY <1>1, <1>12, <2>3
  <2>5. i \in 1 .. N
    BY <2>3, <2>4
  <2>6. E[StarBefore(pattern, i)] \in X
    <3>1. StarBefore(pattern, i) \in 0 .. N /\ StarBefore(pattern, i) < i /\ StarBefore(pattern, i) \in Nat
      BY <1>2, <2>5
    <3>2. ~(i <= StarBefore(pattern, i))
      BY <2>5, <3>1
    <3>3. QED
      BY <2>2, <3>1, <3>2
  <2> HIDE DEF wrong, X, N
  <2>7. E[i] \in X
    BY <1>4, <1>12, <2>3, <2>4, <2>5, <2>6
  <2>8. QED
    BY <2>3, <2>7
<1>14. \A i \in 0 .. N : E[i] \in X
  BY <1>13
<1> HIDE DEF wrong
<1>15. PartsEnd(E, path, L, pattern, N)
  <2>1. E[0] = 0
    <3>1. 0 \in 0 .. N
      OBVIOUS
    <3>2. QED
      BY <1>12, <3>1
  <2>2. ASSUME NEW i \in 1 .. N
        PROVE  PartEnds(E[i], path, L, pattern, StarBefore(pattern, i),
                        i - 1 - StarBefore(pattern, i), E[StarBefore(pattern, i)])
    <3>1. i \in 0 .. N /\ i # 0
      OBVIOUS
    <3>2. E[i] = EndOfPart(path, pattern, i, E[StarBefore(pattern, i)])
      BY <1>12, <3>1
    <3>3. PICK pos \in X : pos = E[StarBefore(pattern, i)]
      BY <1>2, <1>14
    <3>4. PartEnds(EndOfPart(path, pattern, i, pos), path, L, pattern,
                   StarBefore(pattern, i), i - 1 - StarBefore(pattern, i), pos)
      BY <1>3
    <3>5. QED
      BY <3>2, <3>3, <3>4
  <2>3. QED
    BY <1>14, <2>1, <2>2 DEF PartsEnd
<1>16. matchRobotsGlob(path, pattern) <=> GlobByEnds(E, path, pattern, n)
  <2>1. matchRobotsGlob(path, pattern) <=> GlobByEnds(E, path, pattern, Len(pattern))
    BY <1>10, Zenon DEF matchRobotsGlob, EndRule, GlobByEnds, Anchored
  <2>2. QED
    BY <2>1
<1>17. QED
  BY <1>15, <1>16

(* The glob says before its place Q what the rule says, without a "?". *)
Agree(pattern, rule, Q) == \A j \in 1 .. Q - 1 : pattern[j] = rule[j] /\ rule[j] # "?"

(* A part of the rule is one of the glob. *)
LEMMA PartsAgree ==
  ASSUME NEW pattern, NEW rule, NEW Q \in Nat, Agree(pattern, rule, Q), NEW q \in 1 .. Q,
         NEW s, s \in 0 .. q - 1, s = StarBefore(rule, q), NEW len, len = q - 1 - s
  PROVE  /\ s # 0 => IsStar(pattern, s)
         /\ Literal(pattern, s + 1, len)
         /\ \A path : \A k : Same(path, k, pattern, s + 1, len) <=> Same(path, k, rule, s + 1, len)
<1>1. q \in Nat /\ q # 0
  OBVIOUS
<1>2. /\ s # 0 => IsStar(rule, s)
      /\ \A j \in s + 1 .. q - 1 : ~IsStar(rule, j)
  BY <1>1, StarBeforeIs
<1>3. \A j \in 1 .. q - 1 : pattern[j] = rule[j] /\ rule[j] # "?"
  BY DEF Agree
<1>4. \A t \in 0 .. len - 1 : s + 1 + t \in s + 1 .. q - 1 /\ s + 1 + t \in 1 .. q - 1
  OBVIOUS
<1>5. s # 0 => IsStar(pattern, s)
  <2>1. s # 0 => s \in 1 .. q - 1
    OBVIOUS
  <2>2. QED
    BY <1>2, <1>3, <2>1 DEF IsStar
<1>6. Literal(pattern, s + 1, len)
  <2>1. ASSUME NEW j \in 1 .. q - 1, ~IsStar(rule, j)
        PROVE  ~IsStar(pattern, j) /\ \A c : Fits(pattern, j, c) => pattern[j] = c
    BY <1>3, <2>1 DEF IsStar, Fits
  <2>2. QED
    BY <1>2, <1>4, <2>1 DEF Literal
<1>7. \A path : \A k : Same(path, k, pattern, s + 1, len) <=> Same(path, k, rule, s + 1, len)
  BY <1>3, <1>4 DEF Same
<1>8. QED
  BY <1>5, <1>6, <1>7

(* The matcher has come as far as the glob, and not beyond it. *)
Reached(E, M, L, q) == E[q] >= 0 /\ \E i \in 0 .. L : E[q] <= i /\ M[q][i + 1]

(* The glob, too, has the part up to q somewhere after the end of the last. *)
FitsAt(E, M, path, L, rule, s, len, q, k) ==
  /\ E[s] >= 0 /\ E[s] <= k /\ k + len <= L /\ (s = 0 => k = 0)
  /\ Same(path, k, rule, s + 1, len) /\ M[q][k + len + 1]

PartAt(rule, q, s, len) == s = StarBefore(rule, q) /\ len = q - 1 - s

(* Where the glob fits there is a place for the next part, not before the end
   of the one before.                                                      *)
LEMMA PartFound ==
  ASSUME NEW path, NEW L \in Nat, NEW pattern, NEW m \in Nat, NEW M, Rows(M, path, pattern, L, m),
         NEW rule, NEW N \in Nat, NEW E, PartsEnd(E, path, L, rule, N),
         NEW Q \in Nat, Q <= m + 1, Q <= N, Agree(pattern, rule, Q), M[1][1],
         NEW q \in 1 .. Q, StarBefore(rule, q) # 0 => Reached(E, M, L, StarBefore(rule, q)),
         NEW s, NEW len, PartAt(rule, q, s, len)
  PROVE  \E k \in 0 .. L : FitsAt(E, M, path, L, rule, s, len, q, k)
<1>1. s \in Nat /\ s = StarBefore(rule, q) /\ s \in 0 .. q - 1
  <2>1. q \in Nat /\ q # 0
    OBVIOUS
  <2>2. StarBefore(rule, q) \in 0 .. q - 1
    BY <2>1, StarBeforeIs
  <2>3. QED
    BY <2>1, <2>2 DEF PartAt
<1>2. len \in Nat /\ len = q - 1 - s /\ s + 1 + len = q
  BY <1>1 DEF PartAt
<1>3. /\ s # 0 => IsStar(pattern, s)
      /\ Literal(pattern, s + 1, len)
      /\ \A k : Same(path, k, pattern, s + 1, len) <=> Same(path, k, rule, s + 1, len)
  <2>1. s \in 0 .. q - 1 /\ s = StarBefore(rule, q) /\ len = q - 1 - s
    BY <1>1, <1>2
  <2>2. QED
    BY <2>1, PartsAgree
<1>4. \E k \in 0 .. L : E[s] <= k /\ M[s + 1][k + 1] /\ (s = 0 => k = 0) /\ E[s] >= 0
  <2>1. CASE s = 0
    <3>1. E[0] = 0
      BY DEF PartsEnd
    <3>2. 0 \in 0 .. L /\ 0 + 1 = 1
      OBVIOUS
    <3>3. QED
      BY <2>1, <3>1, <3>2
  <2>2. CASE s # 0
    <3>1. PICK i \in 0 .. L : E[s] <= i /\ M[s][i + 1] /\ E[s] >= 0
      BY <1>1, <2>2 DEF Reached
    <3>2. PICK j \in 1 .. m : j = s
      BY <1>1, <2>2
    <3>3. M[s][i + 1] <=> Cell(path, pattern, L, s, i + 1, M[s + 1])
      <4>1. i + 1 \in 1 .. L + 1
        OBVIOUS
      <4>2. QED
        BY <3>2, <4>1 DEF Rows
    <3>4. PICK x \in i + 1 .. L + 1 : M[s + 1][x]
      BY <1>3, <2>2, <3>1, <3>3 DEF Cell
    <3>5. PICK k \in 0 .. L : x = k + 1 /\ i <= k
      <4>1. x - 1 \in 0 .. L /\ x = (x - 1) + 1 /\ i <= x - 1
        OBVIOUS
      <4>2. QED
        BY <4>1
    <3>6. E[s] \in -1 .. L
      <4>1. s \in 0 .. N
        BY <1>1
      <4>2. QED
        BY <4>1 DEF PartsEnd
    <3>7. E[s] <= k
      BY <3>1, <3>5, <3>6
    <3>8. QED
      BY <2>2, <3>1, <3>4, <3>5, <3>7
  <2>3. QED
    BY <2>1, <2>2
<1>5. PICK k \in 0 .. L : E[s] <= k /\ M[s + 1][k + 1] /\ (s = 0 => k = 0) /\ E[s] >= 0
  BY <1>4
<1>6. k + len <= L /\ Same(path, k, pattern, s + 1, len) /\ M[s + 1 + len][k + len + 1]
  <2>1. PICK a \in Nat : a = s + 1 /\ a # 0 /\ a + len <= m + 1
    BY <1>1, <1>2
  <2>2. PICK t \in Nat : t = len /\ a + t <= m + 1
    BY <1>2, <2>1
  <2>3. Literal(pattern, a, t)
    BY <1>3, <2>1, <2>2
  <2>4. M[a][k + 1] <=> k + t <= L /\ Same(path, k, pattern, a, t) /\ M[a + t][k + t + 1]
    BY <2>1, <2>3, <2>2, LiteralIs
  <2>5. QED
    BY <1>5, <2>1, <2>4, <2>2
<1>7. QED
  BY <1>2, <1>3, <1>5, <1>6 DEF FitsAt

(* So the matcher, which takes the first place, finds one too, and the glob
   can still go on from there.                                             *)
LEMMA PartReached ==
  ASSUME NEW path, NEW L \in Nat, NEW pattern, NEW m \in Nat, NEW M, Rows(M, path, pattern, L, m),
         NEW rule, NEW N \in Nat, NEW E, PartsEnd(E, path, L, rule, N),
         NEW Q \in Nat, Q <= m + 1, Q <= N, Agree(pattern, rule, Q), M[1][1],
         NEW q \in 1 .. Q, StarBefore(rule, q) # 0 => Reached(E, M, L, StarBefore(rule, q))
  PROVE  Reached(E, M, L, q)
<1>1. PICK s : s = StarBefore(rule, q) /\ s \in 0 .. q - 1
  <2>1. q \in Nat /\ q # 0
    OBVIOUS
  <2>2. QED
    BY <2>1, StarBeforeIs
<1>2. PICK len : len = q - 1 - s /\ len \in Nat
  BY <1>1
<1>3. PICK k \in 0 .. L : FitsAt(E, M, path, L, rule, s, len, q, k)
  <2>1. PartAt(rule, q, s, len)
    BY <1>1, <1>2 DEF PartAt
  <2>2. QED
    BY <2>1, PartFound
<1>4. /\ E[s] >= 0 /\ E[s] <= k /\ k + len <= L /\ (s = 0 => k = 0)
      /\ Same(path, k, rule, s + 1, len) /\ M[q][k + len + 1]
  BY <1>3 DEF FitsAt
<1>5. PartEnds(E[q], path, L, rule, s, len, E[s])
  <2>1. q \in 1 .. N
    OBVIOUS
  <2>2. QED
    BY <1>1, <1>2, <2>1 DEF PartsEnd
<1>6. E[q] >= 0 /\ E[q] <= k + len
  BY <1>4, <1>5 DEF PartEnds
<1>7. PICK i \in 0 .. L : i = k + len
  BY <1>2, <1>4
<1>8. QED
  BY <1>4, <1>6, <1>7 DEF Reached

(* And all parts are found. *)
LEMMA AllReached ==
  ASSUME NEW path, NEW L \in Nat, NEW pattern, NEW m \in Nat, NEW M, Rows(M, path, pattern, L, m),
         NEW rule, NEW N \in Nat, NEW E, PartsEnd(E, path, L, rule, N),
         NEW Q \in Nat, Q <= m + 1, Q <= N, Agree(pattern, rule, Q), M[1][1]
  PROVE  \A q \in 1 .. Q : Reached(E, M, L, q)
<1> DEFINE wrong == {q \in 1 .. Q : ~Reached(E, M, L, q)}
<1> SUFFICES ASSUME wrong # {} PROVE FALSE
  OBVIOUS
<1>1. PICK q : q = Min(wrong)
  OBVIOUS
<1>2. q \in wrong /\ \A j \in wrong : q <= j
  <2>1. wrong \subseteq Nat
    OBVIOUS
  <2> HIDE DEF wrong
  <2>2. QED
    BY <1>1, <2>1, Smallest
<1>3. q \in 1 .. Q /\ ~Reached(E, M, L, q)
  BY <1>2
<1>4. StarBefore(rule, q) \in 0 .. q - 1
  <2>1. q \in Nat /\ q # 0
    BY <1>3
  <2>2. QED
    BY <2>1, StarBeforeIs
<1>5. StarBefore(rule, q) # 0 => Reached(E, M, L, StarBefore(rule, q))
  <2> SUFFICES ASSUME StarBefore(rule, q) # 0 PROVE Reached(E, M, L, StarBefore(rule, q))
    OBVIOUS
  <2>1. StarBefore(rule, q) \in 1 .. Q /\ ~(q <= StarBefore(rule, q))
    BY <1>3, <1>4
  <2>2. QED
    BY <1>2, <2>1
<1> HIDE DEF wrong
<1>6. Reached(E, M, L, q)
  BY <1>3, <1>5, PartReached
<1>7. QED
  BY <1>3, <1>6

(* Where the matcher ends the glob can go on from. *)
LEMMA GlobFollows ==
  ASSUME NEW path, NEW L \in Nat, NEW pattern, NEW m \in Nat, NEW M, Rows(M, path, pattern, L, m),
         NEW rule, NEW N \in Nat, NEW E, PartsEnd(E, path, L, rule, N),
         NEW Q \in Nat, Q <= m + 1, Q <= N, Agree(pattern, rule, Q)
  PROVE  \A q \in 1 .. Q : E[q] >= 0 /\ M[q][E[q] + 1] => M[1][1]
<1> DEFINE wrong == {q \in 1 .. Q : ~(E[q] >= 0 /\ M[q][E[q] + 1] => M[1][1])}
<1> SUFFICES ASSUME wrong # {} PROVE FALSE
  OBVIOUS
<1>1. PICK q : q = Min(wrong)
  OBVIOUS
<1>2. q \in wrong /\ \A j \in wrong : q <= j
  <2>1. wrong \subseteq Nat
    OBVIOUS
  <2> HIDE DEF wrong
  <2>2. QED
    BY <1>1, <2>1, Smallest
<1>3. q \in 1 .. Q /\ E[q] >= 0 /\ M[q][E[q] + 1] /\ ~M[1][1]
  BY <1>2
<1>4. PICK s : s = StarBefore(rule, q) /\ s \in 0 .. q - 1 /\ s \in Nat
  <2>1. q \in Nat /\ q # 0
    BY <1>3
  <2>2. QED
    BY <2>1, StarBeforeIs
<1>5. \A j \in 1 .. q - 1 : E[j] >= 0 /\ M[j][E[j] + 1] => M[1][1]
  <2>1. \A j \in 1 .. q - 1 : j \in 1 .. Q /\ ~(q <= j)
    BY <1>3
  <2>2. QED
    BY <1>2, <2>1
<1> HIDE DEF wrong
<1>6. PICK len : len = q - 1 - s /\ len \in Nat /\ s + 1 + len = q
  BY <1>3, <1>4
<1>7. /\ s # 0 => IsStar(pattern, s)
      /\ Literal(pattern, s + 1, len)
      /\ \A k : Same(path, k, pattern, s + 1, len) <=> Same(path, k, rule, s + 1, len)
  <2>1. s \in 0 .. q - 1 /\ s = StarBefore(rule, q) /\ len = q - 1 - s
    BY <1>4, <1>6
  <2>2. QED
    BY <1>3, <2>1, PartsAgree
<1>8. PartEnds(E[q], path, L, rule, s, len, E[s])
  <2>1. q \in 1 .. N
    BY <1>3
  <2>2. QED
    BY <1>4, <1>6, <2>1 DEF PartsEnd
<1>9. PICK k \in 0 .. L : /\ E[s] >= 0 /\ E[s] <= k /\ E[q] = k + len
                          /\ Same(path, k, rule, s + 1, len) /\ (s = 0 /\ E[s] = 0 => k = 0)
  BY <1>3, <1>8 DEF PartEnds
<1>10. E[q] \in -1 .. L /\ E[s] \in -1 .. L
  <2>1. q \in 0 .. N /\ s \in 0 .. N
    BY <1>3, <1>4
  <2>2. QED
    BY <2>1 DEF PartsEnd
<1>11. M[s + 1][k + 1]
  <2>1. PICK a \in Nat : a = s + 1 /\ a # 0 /\ a + len <= m + 1
    BY <1>3, <1>4, <1>6
  <2>2. Literal(pattern, a, len)
    BY <1>7, <2>1
  <2>3. M[a][k + 1] <=> k + len <= L /\ Same(path, k, pattern, a, len) /\ M[a + len][k + len + 1]
    BY <1>6, <2>1, <2>2, LiteralIs
  <2>4. k + len <= L
    BY <1>9, <1>10
  <2>5. QED
    BY <1>3, <1>6, <1>7, <1>9, <2>1, <2>3, <2>4
<1>12. CASE s = 0
  <2>1. E[0] = 0
    BY DEF PartsEnd
  <2>2. k = 0 /\ 0 + 1 = 1
    BY <1>9, <1>12, <2>1
  <2>3. QED
    BY <1>3, <1>11, <1>12, <2>2
<1>13. CASE s # 0
  <2>1. PICK e \in 0 .. L : e = E[s]
    BY <1>9, <1>10
  <2>2. s \in 1 .. m /\ s \in 1 .. q - 1
    BY <1>3, <1>4, <1>13
  <2>3. M[s][e + 1] <=> Cell(path, pattern, L, s, e + 1, M[s + 1])
    <3>1. e + 1 \in 1 .. L + 1
      OBVIOUS
    <3>2. QED
      BY <2>2, <3>1 DEF Rows
  <2>4. k + 1 \in e + 1 .. L + 1
    BY <1>9, <2>1
  <2>5. M[s][e + 1]
    BY <1>7, <1>11, <1>13, <2>3, <2>4 DEF Cell
  <2>6. QED
    BY <1>3, <1>5, <1>9, <2>1, <2>2, <2>5
<1>14. QED
  BY <1>12, <1>13

(* A name and a rule of the characters in C, no "?" in the rule. *)
NoMark(rule, n) == \A j \in 1 .. n : rule[j] # "?"

(* The rows of the glob that an open rule stands for, and of a closed one. *)
OpenRows(M, path, rule, L, n) ==
  /\ Rows(M, path, Append(rule, "*"), L, n + 1)
  /\ Agree(Append(rule, "*"), rule, n + 1)
  /\ \A i \in 1 .. L + 1 : M[n + 1][i]
  /\ simpleGlobMatch(path, Append(rule, "*")) <=> M[1][1]

ShutRows(M, path, rule, L, n) ==
  /\ Rows(M, path, Front(rule), L, n - 1)
  /\ Agree(Front(rule), rule, n)
  /\ simpleGlobMatch(path, Front(rule)) <=> M[1][1]

(* The rows of an open rule. *)
LEMMA OpenRowsExist ==
  ASSUME NEW C, NEW path, NEW rule, rule \in Seq(C), NEW L, L \in Nat, L = Len(path),
         NEW n, n \in Nat, n = Len(rule), NoMark(rule, n)
  PROVE  \E M : OpenRows(M, path, rule, L, n)
<1>1. PICK pattern : pattern = Append(rule, "*")
  OBVIOUS
<1>2. /\ Len(pattern) = n + 1 /\ pattern[n + 1] = "*"
      /\ \A j \in 1 .. n : pattern[j] = rule[j]
  <2>1. PICK star : star = "*"
    OBVIOUS
  <2>2. PICK S : S = C \cup {star}
    OBVIOUS
  <2>3. rule \in Seq(S) /\ star \in S
    <3>1. rule \in [1 .. n -> C]
      BY LenProperties
    <3>2. rule \in [1 .. n -> S]
      BY <2>2, <3>1
    <3>3. QED
      BY <2>2, <3>2
  <2>4. /\ Len(Append(rule, star)) = Len(rule) + 1
        /\ \A j \in 1 .. Len(rule) : Append(rule, star)[j] = rule[j]
        /\ Append(rule, star)[Len(rule) + 1] = star
    BY <2>3, AppendProperties
  <2>5. QED
    BY <1>1, <2>1, <2>4
<1>3. PICK m \in Nat : m = n + 1 /\ m = Len(pattern)
  BY <1>2
<1>4. PICK M : Rows(M, path, pattern, L, m) /\ (simpleGlobMatch(path, pattern) <=> M[1][1])
  BY <1>3, GlobIs
<1>5. Agree(pattern, rule, n + 1)
  <2>1. (n + 1) - 1 = n
    OBVIOUS
  <2>2. QED
    BY <1>2, <2>1 DEF Agree, NoMark
<1>6. ASSUME NEW i \in 1 .. L + 1 PROVE M[n + 1][i]
  <2>1. n + 1 \in 1 .. m /\ m + 1 = (n + 1) + 1
    BY <1>3
  <2>2. M[n + 1][i] <=> Cell(path, pattern, L, n + 1, i, M[m + 1])
    BY <1>4, <2>1 DEF Rows
  <2>3. L + 1 \in 1 .. L + 1 /\ L + 1 \in i .. L + 1
    OBVIOUS
  <2>4. M[m + 1][L + 1]
    BY <1>4, <2>3 DEF Rows
  <2>5. IsStar(pattern, n + 1)
    BY <1>2 DEF IsStar
  <2>6. QED
    BY <2>2, <2>3, <2>4, <2>5 DEF Cell
<1>7. OpenRows(M, path, rule, L, n)
  BY <1>1, <1>3, <1>4, <1>5, <1>6 DEF OpenRows
<1>8. QED
  BY <1>7

(* The rows of a closed rule. *)
LEMMA ShutRowsExist ==
  ASSUME NEW C, NEW path, NEW rule, rule \in Seq(C), rule # <<>>, NEW L, L \in Nat, L = Len(path),
         NEW n, n \in Nat, n = Len(rule), NoMark(rule, n)
  PROVE  \E M : ShutRows(M, path, rule, L, n)
<1>1. PICK pattern : pattern = Front(rule)
  OBVIOUS
<1>2. n # 0 /\ Len(pattern) = n - 1 /\ \A j \in 1 .. n - 1 : pattern[j] = rule[j]
  <2>1. /\ Len(rule) \in Nat \ {0} /\ Len(Front(rule)) = Len(rule) - 1
        /\ \A i \in 1 .. Len(rule) - 1 : Front(rule)[i] = rule[i]
    BY FrontIs
  <2>2. QED
    BY <1>1, <2>1
<1>3. PICK m \in Nat : m = n - 1 /\ m = Len(pattern)
  BY <1>2, SMTT(40)
<1>4. PICK M : Rows(M, path, pattern, L, m) /\ (simpleGlobMatch(path, pattern) <=> M[1][1])
  BY <1>3, GlobIs
<1>5. Agree(pattern, rule, n)
  <2>1. \A j \in 1 .. n - 1 : j \in 1 .. n
    OBVIOUS
  <2>2. QED
    BY <1>2, <2>1 DEF Agree, NoMark
<1>6. ShutRows(M, path, rule, L, n)
  BY <1>1, <1>3, <1>4, <1>5 DEF ShutRows
<1>7. QED
  BY <1>6

(* A rule with a star and no "$" at its end: the matcher and the glob agree. *)
LEMMA OpenStar ==
  ASSUME NEW C, NEW path, path \in Seq(C), NEW rule, rule \in Seq(C),
         NEW L, L \in Nat, L = Len(path), NEW n, n \in Nat, n = Len(rule), NoMark(rule, n),
         ~Anchored(rule, n)
  PROVE  simpleGlobMatch(path, Append(rule, "*")) <=> matchRobotsGlob(path, rule)
<1>1. PICK M : OpenRows(M, path, rule, L, n)
  BY OpenRowsExist
<1>2. PICK E : /\ PartsEnd(E, path, L, rule, n + 1)
               /\ matchRobotsGlob(path, rule) <=> GlobByEnds(E, path, rule, n)
  BY EndsExist
<1>3. PICK N \in Nat : N = n + 1 /\ N <= N + 1 /\ N <= N /\ N \in 1 .. N
  OBVIOUS
<1>4. PICK pattern : pattern = Append(rule, "*")
  OBVIOUS
<1>5. /\ Rows(M, path, pattern, L, N) /\ Agree(pattern, rule, N)
      /\ \A i \in 1 .. L + 1 : M[N][i]
      /\ simpleGlobMatch(path, pattern) <=> M[1][1]
  BY <1>1, <1>3, <1>4 DEF OpenRows
<1>6. PartsEnd(E, path, L, rule, N)
  BY <1>2, <1>3
<1>7. matchRobotsGlob(path, rule) <=> E[N] >= 0
  BY <1>2, <1>3 DEF GlobByEnds
<1>8. ASSUME M[1][1] PROVE E[N] >= 0
  <2>1. \A q \in 1 .. N : Reached(E, M, L, q)
    BY <1>3, <1>5, <1>6, <1>8, AllReached
  <2>2. QED
    BY <1>3, <2>1 DEF Reached
<1>9. ASSUME E[N] >= 0 PROVE M[1][1]
  <2>1. \A q \in 1 .. N : E[q] >= 0 /\ M[q][E[q] + 1] => M[1][1]
    BY <1>3, <1>5, <1>6, GlobFollows
  <2>2. E[N] \in -1 .. L
    <3>1. N \in 0 .. N
      BY <1>3
    <3>2. QED
      BY <1>6, <3>1 DEF PartsEnd
  <2>3. E[N] + 1 \in 1 .. L + 1
    BY <1>9, <2>2
  <2>4. QED
    BY <1>3, <1>5, <1>9, <2>1, <2>3
<1>10. QED
  BY <1>4, <1>5, <1>7, <1>8, <1>9

(* What stands at the end of a sequence is a suffix of it. *)
LEMMA SuffixHere ==
  ASSUME NEW C, NEW f, f \in Seq(C), NEW g, g \in Seq(C), NEW k, k \in Nat, k + Len(f) = Len(g),
         \A t \in 1 .. Len(f) : f[t] = g[k + t]
  PROVE  IsSuffix(f, g)
<1>1. PICK a \in Nat : a = Len(f)
  BY LenProperties
<1>2. PICK b \in Nat : b = Len(g) /\ b = k + a
  BY <1>1, LenProperties
<1>3. f \in [1 .. a -> C] /\ g \in [1 .. b -> C]
  BY <1>1, <1>2, LenProperties
<1>4. PICK x : x = Reverse(f) /\ x = [i \in 1 .. a |-> f[a - i + 1]]
  BY <1>1 DEF Reverse
<1>5. PICK y : y = Reverse(g) /\ y = [i \in 1 .. b |-> g[b - i + 1]]
  BY <1>2 DEF Reverse
<1>6. x \in Seq(C) /\ Len(x) = a
  <2>1. \A i \in 1 .. a : a - i + 1 \in 1 .. a
    OBVIOUS
  <2>2. x \in [1 .. a -> C]
    BY <1>3, <1>4, <2>1
  <2>3. QED
    BY <2>2
<1>7. y \in Seq(C) /\ Len(y) = b
  <2>1. \A i \in 1 .. b : b - i + 1 \in 1 .. b
    OBVIOUS
  <2>2. y \in [1 .. b -> C]
    BY <1>3, <1>5, <2>1
  <2>3. QED
    BY <2>2
<1>8. \A i \in 1 .. a : x[i] = y[i]
  <2>1. ASSUME NEW i \in 1 .. a PROVE x[i] = y[i]
    <3>1. a - i + 1 \in 1 .. a /\ k + (a - i + 1) = (k + a) - i + 1
      OBVIOUS
    <3>2. i \in 1 .. b
      BY <1>2
    <3>3. PICK t \in 1 .. a : t = a - i + 1 /\ k + t = b - i + 1 /\ i \in 1 .. b
      BY <1>2, <3>1, <3>2
    <3>4. x[i] = f[t] /\ y[i] = g[k + t]
      BY <1>4, <1>5, <3>3
    <3>5. f[t] = g[k + t]
      BY <1>1
    <3>6. QED
      BY <3>4, <3>5
  <2>2. QED
    BY <2>1
<1>9. IsPrefix(x, y)
  <2>1. Len(x) <= Len(y) /\ \A i \in 1 .. Len(x) : x[i] = y[i]
    BY <1>2, <1>6, <1>7, <1>8
  <2>2. x \in Seq(C) /\ y \in Seq(C)
    BY <1>6, <1>7
  <2>3. IsPrefix(x, y) <=> Len(x) <= Len(y) /\ \A i \in 1 .. Len(x) : x[i] = y[i]
    BY <2>2, PrefixIs
  <2>4. QED
    BY <2>1, <2>3
<1>10. QED
  BY <1>4, <1>5, <1>9 DEF IsSuffix

(* The last star is the same from a place behind it. *)
LEMMA LastStar ==
  ASSUME NEW rule, NEW n \in Nat, n # 0, ~IsStar(rule, n)
  PROVE  StarBefore(rule, n + 1) = StarBefore(rule, n)
<1>1. (n + 1) - 1 = n
  OBVIOUS
<1>2. {j \in 1 .. n : IsStar(rule, j)} = {j \in 1 .. n - 1 : IsStar(rule, j)}
  <2>1. \A j \in 1 .. n : j \in 1 .. n - 1 \/ j = n
    OBVIOUS
  <2>2. \A j \in 1 .. n - 1 : j \in 1 .. n
    OBVIOUS
  <2>3. \A j : j \in {i \in 1 .. n : IsStar(rule, i)} <=> j \in {i \in 1 .. n - 1 : IsStar(rule, i)}
    BY <2>1, <2>2
  <2>4. QED
    BY <2>3
<1>3. QED
  BY <1>1, <1>2 DEF StarBefore, IsStar

(* A rule with a star and a "$" at its end: the matcher covers what the glob
   does.                                                                     *)
LEMMA ShutStar ==
  ASSUME NEW C, NEW path, path \in Seq(C), NEW rule, rule \in Seq(C),
         NEW L, L \in Nat, L = Len(path), NEW n, n \in Nat, n = Len(rule), NoMark(rule, n),
         Anchored(rule, n), Contains(rule, "*"), simpleGlobMatch(path, Front(rule))
  PROVE  matchRobotsGlob(path, rule)
<1>1. PICK star \in 1 .. n : IsStar(rule, star)
  BY DEF Contains, IsStar
<1>2. n # 0 /\ rule # <<>>
  <2>1. n # 0
    BY <1>1
  <2>2. Len(<<>>) = 0
    OBVIOUS
  <2>3. QED
    BY <2>1, <2>2
<1>3. ~IsStar(rule, n)
  BY DEF Anchored, IsStar
<1>4. PICK s : s = StarBefore(rule, n) /\ s \in 1 .. n - 1
  <2>1. /\ StarBefore(rule, n) \in 0 .. n - 1
        /\ \A j \in StarBefore(rule, n) + 1 .. n - 1 : ~IsStar(rule, j)
    BY <1>2, StarBeforeIs
  <2>2. star # n
    BY <1>1, <1>3
  <2>3. star \in 1 .. n - 1
    BY <2>2
  <2>4. StarBefore(rule, n) # 0
    <3>1. 0 + 1 = 1
      OBVIOUS
    <3>2. QED
      BY <1>1, <2>1, <2>3, <3>1
  <2>5. QED
    BY <2>1, <2>4
<1>5. StarBefore(rule, n + 1) = s
  BY <1>2, <1>3, <1>4, LastStar
<1>6. PICK M : ShutRows(M, path, rule, L, n)
  BY <1>2, ShutRowsExist
<1>7. PICK E : /\ PartsEnd(E, path, L, rule, n + 1)
               /\ matchRobotsGlob(path, rule) <=> GlobByEnds(E, path, rule, n)
  BY EndsExist
<1>8. PICK m \in Nat : m = n - 1 /\ n <= m + 1 /\ m + 1 = n
  BY <1>2
<1>9. PICK N \in Nat : N = n + 1 /\ n <= N
  OBVIOUS
<1>10. PICK pattern : pattern = Front(rule)
  OBVIOUS
<1>11. Rows(M, path, pattern, L, m) /\ Agree(pattern, rule, n) /\ M[1][1]
  BY <1>6, <1>8, <1>10 DEF ShutRows
<1>12. PartsEnd(E, path, L, rule, N)
  BY <1>7, <1>9
<1>13. \A q \in 1 .. n : Reached(E, M, L, q)
  BY <1>8, <1>9, <1>11, <1>12, AllReached
<1>14. E[s] >= 0
  <2>1. s \in 1 .. n
    BY <1>4
  <2>2. QED
    BY <1>13, <2>1 DEF Reached
<1>15. PICK len \in Nat : len = n - 1 - s /\ s + len = n - 1
  BY <1>4
<1>16. PICK k \in 0 .. L : FitsAt(E, M, path, L, rule, s, len, n, k)
  <2>1. PartAt(rule, n, s, len)
    BY <1>4, <1>15 DEF PartAt
  <2>2. StarBefore(rule, n) # 0 => Reached(E, M, L, StarBefore(rule, n))
    <3>1. StarBefore(rule, n) \in 1 .. n
      BY <1>4
    <3>2. QED
      BY <1>13, <3>1
  <2>3. n \in 1 .. n
    BY <1>2
  <2>4. n \in Nat
    OBVIOUS
  <2>5. QED
    BY <1>8, <1>9, <1>11, <1>12, <2>1, <2>2, <2>3, <2>4, PartFound
<1>17. k + len <= L /\ Same(path, k, rule, s + 1, len) /\ M[n][k + len + 1]
  BY <1>16 DEF FitsAt
<1>18. k + len = L
  <2>1. k + len + 1 \in 1 .. L + 1
    BY <1>17
  <2>2. M[n][k + len + 1] <=> k + len + 1 = L + 1
    BY <1>8, <1>11, <2>1 DEF Rows
  <2>3. k + len + 1 = L + 1
    BY <1>17, <2>2
  <2>4. QED
    BY <2>3
<1>19. PICK f : f = Front(PartBefore(rule, n + 1))
  OBVIOUS
<1>20. f \in Seq(C) /\ Len(f) = len /\ \A t \in 1 .. len : f[t] = rule[s + t]
  <2>1. PICK part : part = SubSeq(rule, s + 1, n)
    OBVIOUS
  <2>2. /\ SubSeq(rule, s + 1, n) \in Seq(C) /\ Len(SubSeq(rule, s + 1, n)) = n - s
        /\ \A i \in 1 .. n - s : SubSeq(rule, s + 1, n)[i] = rule[s + i]
    <3>1. s \in Nat /\ s <= n /\ n <= Len(rule) /\ n \in Nat
      BY <1>4
    <3>2. QED
      BY <3>1, CutIs
  <2>3. part \in Seq(C) /\ Len(part) = len + 1 /\ \A i \in 1 .. len + 1 : part[i] = rule[s + i]
    <3>1. n - s = len + 1
      BY <1>4, <1>15
    <3>2. QED
      BY <2>1, <2>2, <3>1
  <2>4. part # <<>>
    <3>1. Len(<<>>) = 0 /\ len + 1 # 0
      OBVIOUS
    <3>2. QED
      BY <2>3, <3>1
  <2>5. /\ Front(part) \in Seq(C) /\ Len(Front(part)) = Len(part) - 1
        /\ \A i \in 1 .. Len(part) - 1 : Front(part)[i] = part[i]
    <3>1. part \in Seq(C)
      BY <2>3
    <3>2. QED
      BY <2>4, <3>1, FrontIs
  <2>6. f = Front(part)
    <3>1. (n + 1) - 1 = n
      OBVIOUS
    <3>2. QED
      BY <1>5, <1>19, <2>1, <3>1 DEF PartBefore
  <2>7. (len + 1) - 1 = len /\ \A i \in 1 .. len : i \in 1 .. len + 1
    OBVIOUS
  <2>8. QED
    BY <2>3, <2>5, <2>6, <2>7
<1>21. \A t \in 1 .. len : f[t] = path[k + t]
  <2>1. ASSUME NEW t \in 1 .. len PROVE f[t] = path[k + t]
    <3>1. PICK u \in 0 .. len - 1 : u = t - 1 /\ k + u + 1 = k + t /\ s + 1 + u = s + t
      BY <1>4
    <3>2. path[k + u + 1] = rule[s + 1 + u]
      BY <1>17 DEF Same
    <3>3. f[t] = rule[s + t]
      BY <1>20
    <3>4. QED
      BY <3>1, <3>2, <3>3
  <2>2. QED
    BY <2>1
<1>22. IsSuffix(f, path)
  <2>1. f \in Seq(C) /\ k \in Nat /\ k + Len(f) = Len(path) /\ \A t \in 1 .. Len(f) : f[t] = path[k + t]
    BY <1>18, <1>20, <1>21
  <2>2. QED
    BY <2>1, SuffixHere
<1>23. GlobByEnds(E, path, rule, n)
  BY <1>5, <1>14, <1>19, <1>22 DEF GlobByEnds
<1>24. QED
  BY <1>7, <1>23

(* The rows of a rule without a star: it stands at the beginning of the name. *)
LEMMA NoStarIs ==
  ASSUME NEW rule, NEW n \in Nat, ~Contains(rule, "*"), n = Len(rule), NEW Q \in 1 .. n + 1
  PROVE  StarBefore(rule, Q) = 0
<1>1. \A j \in 1 .. n : ~IsStar(rule, j)
  BY DEF Contains, IsStar
<1>2. PICK s : s = StarBefore(rule, Q)
  OBVIOUS
<1>3. s \in 0 .. Q - 1 /\ (s # 0 => IsStar(rule, s))
  <2>1. Q \in Nat /\ Q # 0
    OBVIOUS
  <2>2. QED
    BY <1>2, <2>1, StarBeforeIs
<1>4. s \in 1 .. n \/ s = 0
  BY <1>3
<1>5. QED
  BY <1>1, <1>2, <1>3, <1>4

(* Without a star the glob compares character by character. *)
LEMMA PlainRows ==
  ASSUME NEW path, NEW L \in Nat, NEW pattern, NEW m \in Nat, NEW M, Rows(M, path, pattern, L, m),
         NEW rule, NEW n \in Nat, n = Len(rule), ~Contains(rule, "*"),
         NEW Q \in 1 .. n + 1, Q <= m + 1, Agree(pattern, rule, Q)
  PROVE  M[1][1] <=> Q - 1 <= L /\ (\A j \in 1 .. Q - 1 : path[j] = rule[j]) /\ M[Q][Q]
<1>1. PICK len \in Nat : len = Q - 1
  OBVIOUS
<1>2. Literal(pattern, 1, len) /\ (Same(path, 0, pattern, 1, len) <=> Same(path, 0, rule, 1, len))
  <2>1. PICK s : s = 0
    OBVIOUS
  <2>2. s = StarBefore(rule, Q) /\ s \in 0 .. Q - 1 /\ len = Q - 1 - s /\ Q \in Nat /\ Q \in 1 .. Q
    BY <1>1, <2>1, NoStarIs
  <2>3. /\ Literal(pattern, s + 1, len)
        /\ \A k : Same(path, k, pattern, s + 1, len) <=> Same(path, k, rule, s + 1, len)
    BY <2>2, PartsAgree
  <2>4. 0 + 1 = 1
    OBVIOUS
  <2>5. QED
    BY <2>1, <2>3, <2>4
<1>3. M[1][0 + 1] <=> 0 + len <= L /\ Same(path, 0, pattern, 1, len) /\ M[1 + len][0 + len + 1]
  <2>1. PICK a \in Nat : a = 1 /\ a # 0 /\ a + len <= m + 1
    BY <1>1
  <2>2. PICK k \in 0 .. L : k = 0
    OBVIOUS
  <2>3. Literal(pattern, a, len)
    BY <1>2, <2>1
  <2>4. M[a][k + 1] <=> k + len <= L /\ Same(path, k, pattern, a, len) /\ M[a + len][k + len + 1]
    BY <2>1, <2>3, LiteralIs
  <2>5. QED
    BY <2>1, <2>2, <2>4
<1>4. Same(path, 0, rule, 1, len) <=> \A j \in 1 .. Q - 1 : path[j] = rule[j]
  <2>1. ASSUME Same(path, 0, rule, 1, len), NEW j \in 1 .. Q - 1 PROVE path[j] = rule[j]
    <3>1. PICK t \in 0 .. len - 1 : t = j - 1 /\ 0 + t + 1 = j /\ 1 + t = j
      BY <1>1
    <3>2. path[0 + t + 1] = rule[1 + t]
      BY <2>1 DEF Same
    <3>3. QED
      BY <3>1, <3>2
  <2>2. ASSUME \A j \in 1 .. Q - 1 : path[j] = rule[j], NEW t \in 0 .. len - 1
        PROVE  path[0 + t + 1] = rule[1 + t]
    <3>1. PICK j \in 1 .. Q - 1 : j = t + 1 /\ 0 + t + 1 = j /\ 1 + t = j
      BY <1>1
    <3>2. QED
      BY <2>2, <3>1
  <2>3. QED
    BY <2>1, <2>2 DEF Same
<1>5. 0 + 1 = 1 /\ 0 + len = Q - 1 /\ 1 + len = Q /\ 0 + len + 1 = Q
  BY <1>1
<1>6. QED
  BY <1>2, <1>3, <1>4, <1>5

(* An open rule without a star is a prefix. *)
LEMMA OpenPlain ==
  ASSUME NEW C, NEW path, path \in Seq(C), NEW rule, rule \in Seq(C),
         NEW L, L \in Nat, L = Len(path), NEW n, n \in Nat, n = Len(rule), NoMark(rule, n),
         ~Contains(rule, "*")
  PROVE  simpleGlobMatch(path, Append(rule, "*")) <=> IsPrefix(rule, path)
<1>1. PICK M : OpenRows(M, path, rule, L, n)
  BY OpenRowsExist
<1>2. PICK pattern : pattern = Append(rule, "*")
  OBVIOUS
<1>3. PICK m \in Nat : m = n + 1 /\ n + 1 <= m + 1
  OBVIOUS
<1>4. /\ Rows(M, path, pattern, L, m) /\ Agree(pattern, rule, n + 1)
      /\ \A i \in 1 .. L + 1 : M[n + 1][i]
      /\ simpleGlobMatch(path, pattern) <=> M[1][1]
  BY <1>1, <1>2, <1>3 DEF OpenRows
<1>5. M[1][1] <=> n <= L /\ (\A j \in 1 .. n : path[j] = rule[j]) /\ M[n + 1][n + 1]
  <2>1. PICK Q \in 1 .. n + 1 : Q = n + 1 /\ Q - 1 = n /\ Q <= m + 1
    BY <1>3
  <2>2. M[1][1] <=> Q - 1 <= L /\ (\A j \in 1 .. Q - 1 : path[j] = rule[j]) /\ M[Q][Q]
    <3>1. Rows(M, path, pattern, L, m) /\ Agree(pattern, rule, Q)
      BY <1>4, <2>1
    <3>2. QED
      BY <2>1, <3>1, PlainRows
  <2>3. QED
    BY <2>1, <2>2
<1>6. n <= L => M[n + 1][n + 1]
  <2>1. n <= L => n + 1 \in 1 .. L + 1
    OBVIOUS
  <2>2. QED
    BY <1>4, <2>1
<1>7. IsPrefix(rule, path) <=> Len(rule) <= Len(path) /\ \A i \in 1 .. Len(rule) : rule[i] = path[i]
  BY PrefixIs
<1>8. QED
  BY <1>2, <1>4, <1>5, <1>6, <1>7

(* A closed rule without a star is the whole path. *)
LEMMA ShutPlain ==
  ASSUME NEW C, NEW path, path \in Seq(C), NEW rule, rule \in Seq(C), rule # <<>>,
         NEW L, L \in Nat, L = Len(path), NEW n, n \in Nat, n = Len(rule), NoMark(rule, n),
         ~Contains(rule, "*")
  PROVE  simpleGlobMatch(path, Front(rule)) <=> path = Front(rule)
<1>1. PICK M : ShutRows(M, path, rule, L, n)
  BY ShutRowsExist
<1>2. PICK f : f = Front(rule)
  OBVIOUS
<1>3. n # 0 /\ f \in Seq(C) /\ Len(f) = n - 1 /\ \A j \in 1 .. n - 1 : f[j] = rule[j]
  <2>1. /\ Len(rule) \in Nat \ {0} /\ Front(rule) \in Seq(C) /\ Len(Front(rule)) = Len(rule) - 1
        /\ \A i \in 1 .. Len(rule) - 1 : Front(rule)[i] = rule[i]
    BY FrontIs
  <2>2. QED
    BY <1>2, <2>1
<1>4. PICK m \in Nat : m = n - 1 /\ m + 1 = n
  <2>1. n # 0
    BY <1>3
  <2>2. n - 1 \in Nat /\ (n - 1) + 1 = n
    BY <2>1
  <2>3. QED
    BY <2>2
<1>5. /\ Rows(M, path, f, L, m) /\ Agree(f, rule, n)
      /\ simpleGlobMatch(path, f) <=> M[1][1]
  BY <1>1, <1>2, <1>4 DEF ShutRows
<1>6. M[1][1] <=> m <= L /\ (\A j \in 1 .. m : path[j] = rule[j]) /\ M[n][n]
  <2>1. PICK Q \in 1 .. n + 1 : Q = n /\ Q - 1 = m /\ Q <= m + 1
    BY <1>3, <1>4
  <2>2. M[1][1] <=> Q - 1 <= L /\ (\A j \in 1 .. Q - 1 : path[j] = rule[j]) /\ M[Q][Q]
    <3>1. Rows(M, path, f, L, m) /\ Agree(f, rule, Q)
      BY <1>5, <2>1
    <3>2. QED
      BY <2>1, <3>1, PlainRows
  <2>3. QED
    BY <2>1, <2>2
<1>7. m <= L => (M[n][n] <=> m = L)
  <2>1. m <= L => m + 1 \in 1 .. L + 1
    OBVIOUS
  <2>2. m <= L => (M[m + 1][m + 1] <=> m + 1 = L + 1)
    BY <1>5, <2>1 DEF Rows
  <2>3. m + 1 = L + 1 <=> m = L
    OBVIOUS
  <2>4. QED
    BY <1>4, <2>2, <2>3
<1>8. path = f <=> m = L /\ \A j \in 1 .. m : path[j] = f[j]
  <2>1. path \in [1 .. L -> C] /\ f \in [1 .. m -> C] /\ Len(f) = m
    BY <1>3, <1>4, LenProperties
  <2>2. path = f => m = L
    BY <2>1
  <2>3. QED
    BY <2>1, <2>2
<1>9. (\A j \in 1 .. m : path[j] = rule[j]) <=> \A j \in 1 .. m : path[j] = f[j]
  BY <1>3, <1>4
<1>10. m = L => m <= L
  OBVIOUS
<1>11. QED
  BY <1>2, <1>5, <1>6, <1>7, <1>8, <1>9, <1>10

(* A name and a rule of the characters in C. *)
GlobInput(C, c) ==
  /\ c.path \in Seq(C) /\ c.rule \in Seq(C) /\ c.rule # <<>>
  /\ NoMark(c.rule, Len(c.rule))

(* The matcher of robots rules and the glob of the filter agree, for paths
   and rules of any length.                                                *)
LEMMA GlobsAlwaysAgree ==
  ASSUME NEW C, subject = "glob" => GlobInput(C, input)
  PROVE  GlobsAgree
<1> SUFFICES ASSUME subject = "glob"
             PROVE  /\ Covers(input.rule, input.path) => matchesRobotsPath(input.path, input.rule)
                    /\ matchesRobotsPath(input.path, input.rule) =>
                         \/ Covers(input.rule, input.path)
                         \/ (Last(input.rule) = "$" /\ Contains(input.rule, "*"))
  BY DEF GlobsAgree
<1>1. PICK path : path = input.path /\ path \in Seq(C)
  BY DEF GlobInput
<1>2. PICK rule : rule = input.rule /\ rule \in Seq(C) /\ rule # <<>> /\ NoMark(rule, Len(rule))
  BY DEF GlobInput
<1>3. PICK L : L \in Nat /\ L = Len(path)
  BY <1>1, LenProperties
<1>4. PICK n : n \in Nat /\ n = Len(rule) /\ NoMark(rule, n)
  BY <1>2, LenProperties
<1>5. Last(rule) = "$" <=> Anchored(rule, n)
  BY <1>4 DEF Last, Anchored
<1>6. /\ path \in Seq(C) /\ rule \in Seq(C) /\ rule # <<>> /\ L \in Nat /\ L = Len(path)
      /\ n \in Nat /\ n = Len(rule) /\ NoMark(rule, n)
  BY <1>1, <1>2, <1>3, <1>4
<1>7. CASE Contains(rule, "*") /\ ~Anchored(rule, n)
  <2>1. simpleGlobMatch(path, Append(rule, "*")) <=> matchRobotsGlob(path, rule)
    BY <1>6, <1>7, OpenStar
  <2>2. Covers(rule, path) <=> simpleGlobMatch(path, Append(rule, "*"))
    BY <1>5, <1>7 DEF Covers
  <2>3. matchesRobotsPath(path, rule) <=> matchRobotsGlob(path, rule)
    BY <1>7 DEF matchesRobotsPath
  <2>4. QED
    BY <1>1, <1>2, <2>1, <2>2, <2>3
<1>8. CASE Contains(rule, "*") /\ Anchored(rule, n)
  <2>1. simpleGlobMatch(path, Front(rule)) => matchRobotsGlob(path, rule)
    BY <1>6, <1>8, ShutStar
  <2>2. Covers(rule, path) <=> simpleGlobMatch(path, Front(rule))
    BY <1>5, <1>8 DEF Covers
  <2>3. matchesRobotsPath(path, rule) <=> matchRobotsGlob(path, rule)
    BY <1>8 DEF matchesRobotsPath
  <2>4. QED
    BY <1>1, <1>2, <1>5, <1>8, <2>1, <2>2, <2>3
<1>9. CASE ~Contains(rule, "*") /\ ~Anchored(rule, n)
  <2>1. simpleGlobMatch(path, Append(rule, "*")) <=> IsPrefix(rule, path)
    BY <1>6, <1>9, OpenPlain
  <2>2. Covers(rule, path) <=> simpleGlobMatch(path, Append(rule, "*"))
    BY <1>5, <1>9 DEF Covers
  <2>3. matchesRobotsPath(path, rule) <=> IsPrefix(rule, path)
    BY <1>5, <1>9 DEF matchesRobotsPath
  <2>4. QED
    BY <1>1, <1>2, <2>1, <2>2, <2>3
<1>10. CASE ~Contains(rule, "*") /\ Anchored(rule, n)
  <2>1. simpleGlobMatch(path, Front(rule)) <=> path = Front(rule)
    BY <1>6, <1>10, ShutPlain
  <2>2. Covers(rule, path) <=> simpleGlobMatch(path, Front(rule))
    BY <1>5, <1>10 DEF Covers
  <2>3. matchesRobotsPath(path, rule) <=> path = Front(rule)
    BY <1>2, <1>5, <1>10 DEF matchesRobotsPath
  <2>4. QED
    BY <1>1, <1>2, <2>1, <2>2, <2>3
<1>11. QED
  BY <1>7, <1>8, <1>9, <1>10

(* What the rules of robots are checked on: names and rules of the characters
   in C, the rules of a file in their order, and the lines of a file.       *)
RobotsInputs(C, Lines) ==
  /\ subject = "glob" => GlobInput(C, input)
  /\ subject = "rules" => input.rules \in Seq([path : Seq(C), allowed : BOOLEAN])
  /\ subject = "robots" => RobotsFile(Lines, [path : Seq(C), allowed : BOOLEAN], input)

(* The rules of a robots.txt are kept as they are written, whatever their
   characters, their number and that of the lines: the longest rule that matches
   decides, of several as long the first, so that their order matters only to
   rules of one length that contradict each other (checkRules); a rule matches
   the urls its glob covers and no other, but for a closed rule with a star
   (matchesRobotsPath); and of a file only the groups that name this program
   are obeyed (parseRobotsTxt).                                            *)
THEOREM RobotsAlwaysAsWritten ==
  ASSUME NEW C, NEW Lines, RobotsInputs(C, Lines)
  PROVE  RobotsAsWritten
<1>1. GlobsAgree
  <2>1. subject = "glob" => GlobInput(C, input)
    BY DEF RobotsInputs
  <2>2. QED
    BY <2>1, GlobsAlwaysAgree
<1>2. LongestDecides /\ VerdictIgnoresOrder
  <2>1. subject = "rules" => input.rules \in Seq([path : Seq(C), allowed : BOOLEAN])
    BY DEF RobotsInputs
  <2>2. LongestDecides
    BY <2>1, LongestAlwaysDecides
  <2>3. VerdictIgnoresOrder
    BY <2>1, VerdictAlwaysIgnoresOrder
  <2>4. QED
    BY <2>2, <2>3
<1>3. GroupsApart
  <2>1. subject = "robots" => RobotsFile(Lines, [path : Seq(C), allowed : BOOLEAN], input)
    BY DEF RobotsInputs
  <2>2. QED
    BY <2>1, GroupsAlwaysApart
<1>4. QED
  BY <1>1, <1>2, <1>3 DEF RobotsAsWritten
=============================================================================
