---------------------------- MODULE PerHostLimits ----------------------------
(***************************************************************************)
(* The rate limits per host of internal/engine/ratelimit.go: which limiter *)
(* a host gets, and what later changes of the limits do to it.  Hosts and  *)
(* patterns are sequences of labels; the label "*" stands for any labels,  *)
(* none included.                                                          *)
(***************************************************************************)
EXTENDS Integers, SequencesExt

CONSTANTS
  Hosts,         \* the hosts that are downloaded from
  Patterns,      \* the names SetHostLimit may be called with
  HostLimits,    \* the limits it may be called with
  DefaultLimit   \* the limit of NewPerHostRateLimiter

Labels == STRING \ {""}
Names  == Seq(Labels) \ {<<>>}

ASSUME PerHostAssumption ==
  /\ Hosts \subseteq Names /\ Patterns \subseteq Names
  /\ HostLimits \subseteq Nat /\ DefaultLimit \in Nat

VARIABLES
  hostLimits,    \* the limits set so far, by pattern
  limiters       \* the limiters made so far, by host, or Nil

hostVars == <<hostLimits, limiters>>

Nil == -1   \* the limiter that is none

(* The table with an entry made, or replaced. *)
Put(table, key, value) ==
  [k \in DOMAIN table \cup {key} |-> IF k = key THEN value ELSE table[k]]

(* Mutant: a pattern does not stand for the domain itself. *)
matchBelowOnly(pattern, host) ==
  \/ pattern = host
  \/ /\ Len(pattern) > 1 /\ Head(pattern) = "*"
     /\ IsStrictSuffix(Tail(pattern), host)

matchHostPattern(pattern, host) ==
  \/ pattern = host
  \/ /\ Len(pattern) > 1 /\ Head(pattern) = "*"
     /\ IsSuffix(Tail(pattern), host)

(* The limits a new limiter of the host may get: its own, else that of any
   pattern that matches (the map is walked in no order), else the default. *)
LimitsFor(host) ==
  LET matching == {p \in DOMAIN hostLimits : matchHostPattern(p, host)}
  IN IF host \in DOMAIN hostLimits THEN {hostLimits[host]}
     ELSE IF matching # {} THEN {hostLimits[p] : p \in matching}
     ELSE {DefaultLimit}

(* Without a limit there is no limiter. *)
NewRateLimiter(l) == IF l = 0 THEN Nil ELSE l

(* The limiter of a host is made once, also if it is nil. *)
GetLimiter(host) ==
  /\ host \notin DOMAIN limiters
  /\ \E l \in LimitsFor(host) :
       limiters' = Put(limiters, host, NewRateLimiter(l))
  /\ UNCHANGED hostLimits

(* Mutant: only limiters that are made later get the new limit. *)
SetLaterLimit(host, l) ==
  /\ hostLimits' = Put(hostLimits, host, l)
  /\ UNCHANGED limiters

(* The limiter that exists for the very name gets the new limit, unless it is
   nil; those of the hosts that a pattern covers keep theirs.              *)
SetHostLimit(host, l) ==
  /\ hostLimits' = Put(hostLimits, host, l)
  /\ limiters' = IF host \in DOMAIN limiters /\ limiters[host] # Nil
                 THEN [limiters EXCEPT ![host] = l] ELSE limiters

HostInit ==
  /\ hostLimits = <<>>
  /\ limiters = <<>>

HostNext ==
  \/ \E h \in Hosts : GetLimiter(h)
  \/ \E p \in Patterns, l \in HostLimits : SetHostLimit(p, l)

HostSpec == HostInit /\ [][HostNext]_hostVars

-----------------------------------------------------------------------------
(* A pattern covers a host that it names, and with a star in front the domain
   itself and all below it: its labels after the star are the host's last.  *)
CoversHost(pattern, host) ==
  \/ pattern = host
  \/ /\ Head(pattern) = "*" /\ Len(pattern) \in 2 .. Len(host) + 1
     /\ \A k \in 0 .. Len(pattern) - 2 : pattern[Len(pattern) - k] = host[Len(host) - k]

(* The limiter made at the first download from a host has the limit set for
   the host, else one that is set for a pattern that covers it, else the
   default.                                                                 *)
NewLimiterFits ==
  [][\A h \in DOMAIN limiters' \ DOMAIN limiters :
       LET covering == {p \in DOMAIN hostLimits : CoversHost(p, h)}
       IN IF h \in covering THEN limiters'[h] = NewRateLimiter(hostLimits[h])
          ELSE IF covering = {} THEN limiters'[h] = NewRateLimiter(DefaultLimit)
          ELSE \E p \in covering : limiters'[h] = NewRateLimiter(hostLimits[p])]_hostVars

(* A limiter that limits has the limit set for its host, also when that was set
   after the first download from it.  It says nothing of a host that was not
   limited at its first download, which never will be, nor of a limit set later
   for its domain, which does not reach a limiter there is (ratelimit.go:219). *)
OwnLimitInForce ==
  \A h \in DOMAIN limiters \cap DOMAIN hostLimits :
    limiters[h] \in {hostLimits[h], Nil}

(* What a host is limited to: by all limits set before its first download, and
   by its own, if it has a limiter, also later.                             *)
LimitsInForce == []OwnLimitInForce /\ NewLimiterFits
=============================================================================
