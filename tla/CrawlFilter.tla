----------------------------- MODULE CrawlFilter -----------------------------
(***************************************************************************)
(* Which links of a page the crawler follows: the glob patterns, the       *)
(* domains and the link types of internal/crawler/filter.go, as operators  *)
(* on values.                                                              *)
(*                                                                         *)
(* A URL is a record: its scheme, its host as a sequence of labels from    *)
(* left to right, the name that path.Base finds in its path as a sequence  *)
(* of characters, and the extension of that name.  The letter case of the  *)
(* host, which the filter folds and the queue does not, is the field       *)
(* spelling; names are in one case.  A filter is a record with the fields  *)
(* of Filter; a list that the code only searches is a set.                 *)
(***************************************************************************)
EXTENDS Integers, Sequences, SequencesExt

LinkTypes == {"anchor", "image", "script", "stylesheet", "frame", "object",
              "form", "other"}

isPageRequisite(type) == type \in {"image", "script", "stylesheet"}

-----------------------------------------------------------------------------
(* simpleGlobMatch: a star tries every rest of the name, a question mark
   takes one character, anything else stands for itself, and at the end of
   the pattern the name must be used up.                                   *)
simpleGlobMatch(str, pattern) ==
  LET Match[j \in 1 .. Len(pattern) + 1] ==
        [i \in 1 .. Len(str) + 1 |->
           IF j > Len(pattern) THEN i > Len(str)
           ELSE IF pattern[j] = "*"
                THEN \E k \in i .. Len(str) + 1 : Match[j + 1][k]
                ELSE /\ i <= Len(str)
                     /\ pattern[j] \in {"?", str[i]}
                     /\ Match[j + 1][i + 1]]
  IN Match[1][1]

matchesAny(name, patterns) == \E p \in patterns : simpleGlobMatch(name, p)

-----------------------------------------------------------------------------
(* A pattern that starts with the label "*" stands for a name and
   everything below it, any other pattern for one host.                    *)
matchDomain(host, pattern) ==
  IF Head(pattern) = "*"
  THEN IsSuffix(Tail(pattern), host)
  ELSE host = pattern

isDomainAllowed(f, u) ==
  /\ \A d \in f.excludedDomains : ~matchDomain(u.host, d)
  /\ IF f.allowedDomains # {}
     THEN \E d \in f.allowedDomains : matchDomain(u.host, d)
     ELSE f.sameDomain => IsSuffix(f.baseHost, u.host)

(* The reject lists win over the accept lists; an empty accept list accepts
   every name.                                                             *)
NameAccepted(f, u) ==
  /\ ~matchesAny(u.name, f.rejectPatterns)
  /\ u.ext \notin f.rejectExtensions
  /\ f.acceptPatterns # {} => matchesAny(u.name, f.acceptPatterns)
  /\ f.acceptExtensions # {} => u.ext \in f.acceptExtensions

ShouldCrawl(f, u, type) ==
  /\ u.scheme \in {"http", "https"}
  /\ IF isDomainAllowed(f, u)
     THEN NameAccepted(f, u)
     ELSE f.pageRequisites /\ isPageRequisite(type)

ShouldFollowLinks(f, u, type) ==
  /\ ~isPageRequisite(type)
  /\ isDomainAllowed(f, u) \/ f.followExternal

(* The two questions extractLinks asks before it queues a link. *)
Queued(f, u, type) ==
  /\ ShouldCrawl(f, u, type)
  /\ ShouldFollowLinks(f, u, type) \/ isPageRequisite(type)
=============================================================================
