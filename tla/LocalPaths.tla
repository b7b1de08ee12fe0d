------------------------------ MODULE LocalPaths ------------------------------
(***************************************************************************)
(* Where the crawler saves a page and where the converter of -k believes   *)
(* it is: urlToLocalPath of internal/crawler/crawler.go and the            *)
(* LinkConverter of internal/crawler/converter.go.                         *)
(*                                                                         *)
(* A url is a record: its host as a sequence of labels, its path as a      *)
(* sequence of names, whether a slash ends it, and its query as a sequence *)
(* of character codes.  A name is its stem and extension.  A file is a     *)
(* sequence of names below the output directory, each with the hash that   *)
(* was put into it.                                                        *)
(***************************************************************************)
EXTENDS Integers, SequencesExt

Segment(stem, ext) == [stem |-> stem, ext |-> ext, hash |-> <<>>]
Index == Segment(<<"index">>, "html")

(* A directory has an index, and a name without an extension becomes .html. *)
LocalNames(u) ==
  IF u.dir \/ u.path = <<>> THEN Append(u.path, Index)
  ELSE IF Last(u.path).ext = "" THEN [u.path EXCEPT ![Len(u.path)].ext = "html"]
  ELSE u.path

(* hashString: h * 31 + c for every character, in 64 bits, here four limbs of
   16 bits from the lowest to the highest.                                 *)
HashStep(h, c) ==
  LET limb == 65536
      Sum[i \in 0 .. 4] == IF i = 0 THEN c ELSE h[i] * 31 + (IF i = 1 THEN Sum[0]
                                                              ELSE Sum[i - 1] \div limb)
  IN [i \in 1 .. 4 |-> Sum[i] % limb]

hashString(s) == FoldLeft(HashStep, <<0, 0, 0, 0>>, s)

(* The crawler's urlToLocalPath puts the first 8 of the 16 digits of the
   query's hash into the name.                                             *)
urlToLocalPath(u) ==
  LET names == LocalNames(u)
      hash  == hashString(u.query)
      file  == IF u.query = <<>> THEN names
               ELSE [names EXCEPT ![Len(names)].hash = <<hash[4], hash[3]>>]
  IN <<Segment(u.host, "")>> \o file

-----------------------------------------------------------------------------
(* References: a full url, a path on the same host, or names relative to the
   directory of the page.                                                  *)
Directory(u) == IF u.dir \/ u.path = <<>> THEN u.path ELSE Front(u.path)

ResolveReference(base, ref) ==
  CASE ref.kind = "full"     -> ref.url
    [] ref.kind = "path"     -> [ref.url EXCEPT !.host = base.host]
    [] ref.kind = "relative" -> [ref.url EXCEPT !.host = base.host,
                                                !.path = Directory(base) \o @]

isSameHost(base, u) == IsSuffix(base.host, u.host)

(* The converter's path of a url has no query. *)
urlPathToLocal(u) == <<Segment(u.host, "")>> \o LocalNames(u)

(* Mutant: relative to the file, not to its directory. *)
makeRelativeToFile(from, to) ==
  LET common == LongestCommonPrefix({from, to})
  IN [up |-> Len(from) - Len(common), down |-> SubSeq(to, Len(common) + 1, Len(to))]

makeRelative(from, to) ==
  LET dir    == Front(from)
      common == LongestCommonPrefix({dir, to})
  IN [up |-> Len(dir) - Len(common), down |-> SubSeq(to, Len(common) + 1, Len(to))]

(* A link that is left as it is. *)
Kept == [up |-> -1, down |-> <<>>]

(* What a link in the file of a page becomes, when start is the url the crawl
   began with: the converter has no other base.                            *)
ConvertLink(start, ref, file) ==
  LET u == ResolveReference(start, ref)
  IN IF isSameHost(start, u) THEN makeRelative(file, urlPathToLocal(u)) ELSE Kept

(* The file a browser opens for a relative link in another file. *)
FollowLink(file, link) ==
  LET dir == Front(file) IN SubSeq(dir, 1, Len(dir) - link.up) \o link.down
=============================================================================
