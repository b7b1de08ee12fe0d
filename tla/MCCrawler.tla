----------------------------- MODULE MCCrawler -----------------------------
(***************************************************************************)
(* A small site for TLC: a start page with enough links to fill the        *)
(* channel of two workers, a page at the depth limit that its robots.txt   *)
(* excludes, a page beyond the limit, a second host that serves two images *)
(* and excludes one of them, and a third one that the filter keeps out.    *)
(* One page is linked under four addresses.                                *)
(***************************************************************************)
EXTENDS Crawler

Url(host, name) == [scheme |-> "http", host |-> <<host>>, spelling |-> "lower", port |-> "",
                    name |-> <<name>>, ext |-> "html", fragment |-> ""]

s    == Url("site", "s")
a    == Url("site", "a")
b    == Url("site", "b")
B    == [b EXCEPT !.spelling = "capital"]
far  == Url("site", "f")
deep == Url("site", "d")
open == Url("cdn", "o")
shut == Url("cdn", "x")
away == Url("away", "w")

leaf == Url("site", "1")

Anchor(u) == [to |-> u, type |-> "anchor"]
Image(u)  == [to |-> u, type |-> "image"]

MCStart == s

(* Page b is linked under other addresses, too: with a fragment and with the
   default port, which are the same request, and with a host in capitals,
   which the queue takes for another one.                                  *)
MCPage ==
  [u \in {s, a, b, B, far, deep, open, shut, leaf} |->
     CASE u = s -> <<Anchor(a), Image(shut), Image(open), Anchor(away), Anchor(leaf),
                     Anchor(B), Anchor(b)>>
       [] u = a -> <<Anchor([b EXCEPT !.fragment = "top"]), Anchor(s)>>
       [] u \in {b, B} -> <<Anchor(far)>>
       [] u = far -> <<Anchor(deep)>>
       [] u = open -> <<Anchor([b EXCEPT !.port = "80"])>>
       [] OTHER -> <<>>]

MCFilter ==
  [acceptPatterns |-> {}, rejectPatterns |-> {<<"w">>},
   acceptExtensions |-> {}, rejectExtensions |-> {},
   sameDomain |-> TRUE, allowedDomains |-> {}, excludedDomains |-> {},
   baseHost |-> <<"site">>, followExternal |-> FALSE, pageRequisites |-> TRUE]

MCDisallowed == {shut, far}

MCRobotsAnswers ==
  [o \in {Origin(u) : u \in {s, open, B, [b EXCEPT !.port = "80"]}} |->
     IF o = Origin(open) THEN {"rules"} ELSE {"rules", "error"}]

MCGetAnswers ==
  [u \in DOMAIN MCPage |-> IF u = a THEN {"ok", "error"} ELSE {"ok"}]
=============================================================================
