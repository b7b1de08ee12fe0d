------------------------------- MODULE PageLinks -------------------------------
(***************************************************************************)
(* The links of a page: the parser of internal/crawler/parser.go, and the  *)
(* attributes the converter (internal/crawler/converter.go) rewrites.  An  *)
(* element is a record: its tag, whether it is a stylesheet link, and for  *)
(* each attribute it has what kind of value that has: "empty", "skipped"   *)
(* (javascript:, mailto:, tel:, data: or a fragment), "bad" when it cannot *)
(* be parsed, or "url".  The text of a stylesheet is a sequence of         *)
(* characters in which url( is one.                                        *)
(***************************************************************************)
EXTENDS Integers, FiniteSets, FiniteSetsExt, SequencesExt

(* The type and the attribute of a tag's link. *)
LinkOf ==
  [tag \in {"a", "area", "frame", "iframe", "video", "audio", "source", "img", "script",
            "link", "object", "embed", "form"} |->
     CASE tag \in {"a", "area"}                -> [type |-> "anchor", attr |-> "href"]
       [] tag \in {"frame", "iframe"}          -> [type |-> "frame", attr |-> "src"]
       [] tag \in {"video", "audio", "source"} -> [type |-> "other", attr |-> "src"]
       [] tag = "img"    -> [type |-> "image", attr |-> "src"]
       [] tag = "script" -> [type |-> "script", attr |-> "src"]
       [] tag = "link"   -> [type |-> "stylesheet", attr |-> "href"]
       [] tag = "object" -> [type |-> "object", attr |-> "data"]
       [] tag = "embed"  -> [type |-> "object", attr |-> "src"]
       [] tag = "form"   -> [type |-> "form", attr |-> "action"]]

NoLink == [type |-> "none", attr |-> "none"]

extractLink(n) ==
  IF /\ n.tag \in DOMAIN LinkOf
     /\ n.tag = "link" => n.stylesheet
     /\ LinkOf[n.tag].attr \in DOMAIN n.attrs
     /\ n.attrs[LinkOf[n.tag].attr] = "url"
  THEN LinkOf[n.tag] ELSE NoLink

(* The attributes convertHTML looks for, in whatever element. *)
convertedAttributes == {"href", "src", "action", "data", "poster"}

Converts(n, attr) == attr \in convertedAttributes /\ n.attrs[attr] = "url"

-----------------------------------------------------------------------------
Blank == {" "}
Quotes == {"q", "'"}

(* The first position from i on that holds one of the characters, or the end. *)
Skip(text, i, Stops) ==
  Min({j \in i .. Len(text) : text[j] \in Stops} \cup {Len(text) + 1})

(* What ends a url: the quote it begins with, or else ")" or a blank. *)
UrlEnds(first) == IF first \in Quotes THEN {first} ELSE Blank \cup {")"}

(* Where what stands in the brackets of the next url( begins, from i on. *)
NextText(text, i) ==
  Min({j \in Skip(text, i, {"url("}) + 1 .. Len(text) : text[j] \notin Blank}
        \cup {Len(text) + 1})

(* A url that begins there: its text, and where it ends. *)
UrlStart(text, first) == IF text[first] \in Quotes THEN first + 1 ELSE first
UrlEnd(text, first)   == Skip(text, UrlStart(text, first), UrlEnds(text[first]))

(* It is left out when it is empty or begins with data:. *)
FoundUrl(text, first) ==
  LET start == UrlStart(text, first)
      end   == UrlEnd(text, first)
  IN IF end > start /\ text[start] # "data:" THEN <<SubSeq(text, start, end - 1)>> ELSE <<>>

(* The urls that are found, as texts, Urls[i] from position i on; blanks inside
   of quotes do not occur here.                                            *)
ParseCSS(text) ==
  LET Urls[i \in 1 .. Len(text) + 1] ==
        LET first == NextText(text, i)
        IN IF first > Len(text) THEN <<>>
           ELSE FoundUrl(text, first) \o Urls[UrlEnd(text, first)]
  IN Urls[1]
=============================================================================
