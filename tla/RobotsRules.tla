----------------------------- MODULE RobotsRules -----------------------------
(***************************************************************************)
(* What a robots.txt forbids: the parser and the matcher of                *)
(* internal/crawler/robots.go.  A path is a sequence of characters.  A     *)
(* line of the file is a record: an agent line with whether its value      *)
(* names this program (or is "*"), a rule with its path and verdict, or a  *)
(* delay.                                                                  *)
(***************************************************************************)
EXTENDS Integers, FiniteSetsExt, SequencesExt

(* The star before a place of the pattern, or 0: the part up to the place
   begins after it.                                                        *)
StarBefore(pattern, i) == Max({0} \cup {j \in 1 .. i - 1 : pattern[j] = "*"})
PartBefore(pattern, i) == SubSeq(pattern, StarBefore(pattern, i) + 1, i - 1)

Places(path, part, pos) ==
  {q \in pos .. Len(path) - Len(part) : SubSeq(path, q + 1, q + Len(part)) = part}

(* Where the part ends in the path at the first of its places, or -1; the
   first part has one place only, the beginning.                           *)
EndOfPart(path, pattern, i, pos) ==
  LET part   == PartBefore(pattern, i)
      places == Places(path, part, pos)
  IN IF pos < 0 \/ part = <<>> THEN pos
     ELSE IF places # {} /\ (StarBefore(pattern, i) = 0 => Min(places) = 0)
          THEN Min(places) + Len(part) ELSE -1

(* matchRobotsGlob: each part between stars is looked for after the one
   before it; a last part with "$" is only compared with the end of the path.
   End[i] is for the part up to the place i.                               *)
matchRobotsGlob(path, pattern) ==
  LET n        == Len(pattern)
      anchored == pattern[n] = "$"
      End[i \in 0 .. n + 1] ==
        IF i = 0 THEN 0 ELSE EndOfPart(path, pattern, i, End[StarBefore(pattern, i)])
  IN /\ End[IF anchored THEN StarBefore(pattern, n + 1) ELSE n + 1] >= 0
     /\ anchored => IsSuffix(Front(PartBefore(pattern, n + 1)), path)

matchesRobotsPath(path, rule) ==
  IF Contains(rule, "*") THEN matchRobotsGlob(path, rule)
  ELSE IF rule # <<>> /\ Last(rule) = "$" THEN path = Front(rule)
  ELSE IsPrefix(rule, path)

(* The longest rule decides, of several the first. *)
checkRules(path, rules) ==
  LET matching == {i \in DOMAIN rules : matchesRobotsPath(path, rules[i].path)}
      longest  == {i \in matching : \A j \in matching : Len(rules[j].path) <= Len(rules[i].path)}
  IN matching = {} \/ rules[Min(longest)].allowed

-----------------------------------------------------------------------------
(* The group being read, and what the groups that apply have left. *)
NoGroup == [agents |-> FALSE, applies |-> FALSE, rules |-> <<>>, delay |-> 0]

flushGroup(p) ==
  [p EXCEPT !.group = NoGroup,
            !.rules = IF p.group.applies THEN @ \o p.group.rules ELSE @,
            !.delay = IF p.group.applies /\ p.group.delay > @ THEN p.group.delay ELSE @]

(* Mutant: an agent line never ends a group. *)
NeverEnds(p) == p

(* An agent line ends a group that has a rule, so that a group with none, or
   with an empty Disallow only, goes on.                                   *)
EndGroup(p) == IF p.group.rules # <<>> THEN flushGroup(p) ELSE p

ParseRobotsLine(p, line) ==
  CASE line.key = "agent" ->
         [EndGroup(p) EXCEPT !.group.agents = TRUE, !.group.applies = @ \/ line.ours]
    [] line.key = "rule"  ->
         IF line.path = <<>> THEN p
         ELSE [p EXCEPT !.group.rules = Append(@, [path |-> line.path, allowed |-> line.allowed])]
    [] line.key = "delay" -> [p EXCEPT !.group.delay = line.delay]

parseRobotsTxt(lines) ==
  LET p == FoldLeft(ParseRobotsLine, [group |-> NoGroup, rules |-> <<>>, delay |-> 0], lines)
  IN IF p.group.agents THEN flushGroup(p) ELSE p
=============================================================================
