------------------------------ MODULE CopyProofs ------------------------------
(***************************************************************************)
(* The copy of a site on disk, for urls of any length and stylesheets of    *)
(* any text: its pages are saved beside each other, linked to each other,   *)
(* and nothing that the crawler follows is left out.                        *)
(***************************************************************************)
EXTENDS InputProofs

-----------------------------------------------------------------------------

(* The files of a site. *)
LEMMA FollowedAlwaysConverted == FollowedIsConverted
<1> SUFFICES ASSUME subject = "element", extractLink(input) # NoLink
             PROVE  Converts(input, extractLink(input).attr)
  BY DEF FollowedIsConverted
<1>1. /\ input.tag \in DOMAIN LinkOf /\ extractLink(input) = LinkOf[input.tag]
      /\ input.attrs[LinkOf[input.tag].attr] = "url"
  BY DEF extractLink
<1>2. \A tag \in DOMAIN LinkOf : LinkOf[tag].attr \in {"href", "src", "data", "action"}
  BY DEF LinkOf
<1>3. QED
  BY <1>1, <1>2 DEF Converts, convertedAttributes

(* The urls of a site, without a query. *)
SiteName(Word) == [stem : Seq(Word), ext : Word, hash : Seq(Nat)]

SiteUrl(Word) ==
  [host : Seq(Word), path : Seq(SiteName(Word)), dir : BOOLEAN, query : {<<>>}]

(* Below the directory of a url there is one file, which has an extension. *)
LEMMA LocalNamesAre ==
  ASSUME NEW Word, {"index", "html"} \subseteq Word, NEW u \in SiteUrl(Word)
  PROVE  /\ LocalNames(u) \in Seq(SiteName(Word)) /\ LocalNames(u) # <<>>
         /\ Last(LocalNames(u)).ext # ""
         /\ Len(LocalNames(u)) = Len(Directory(u)) + 1
         /\ Directory(u) \in Seq(SiteName(Word))
         /\ \A i \in 1 .. Len(Directory(u)) : LocalNames(u)[i] = Directory(u)[i]
<1>1. u.path \in Seq(SiteName(Word))
  BY DEF SiteUrl
<1>2. CASE u.dir \/ u.path = <<>>
  <2>1. Index \in SiteName(Word) /\ Index.ext = "html"
    <3>1. <<"index">> \in Seq(Word) /\ <<>> \in Seq(Nat) /\ "html" \in Word
      OBVIOUS
    <3>2. Index = [stem |-> <<"index">>, ext |-> "html", hash |-> <<>>]
      BY DEF Index, Segment
    <3>3. QED
      BY <3>1, <3>2 DEF SiteName
  <2>2. LocalNames(u) = Append(u.path, Index) /\ Directory(u) = u.path
    BY <1>2 DEF LocalNames, Directory
  <2>3. Len(u.path) \in Nat
    BY <1>1, LenProperties
  <2>4. QED
    <3>1. /\ LocalNames(u) \in Seq(SiteName(Word)) /\ LocalNames(u) # <<>>
          /\ Len(LocalNames(u)) = Len(u.path) + 1
          /\ \A i \in 1 .. Len(u.path) : LocalNames(u)[i] = u.path[i]
          /\ LocalNames(u)[Len(u.path) + 1] = Index
      BY <1>1, <2>1, <2>2, <2>3, AppendProperties
    <3>2. QED
      BY <1>1, <2>1, <2>2, <3>1 DEF Last
<1>3. CASE ~(u.dir \/ u.path = <<>>)
  <2>1. /\ Directory(u) = Front(u.path) /\ u.path # <<>>
        /\ LocalNames(u) = IF Last(u.path).ext = "" THEN [u.path EXCEPT ![Len(u.path)].ext = "html"]
                           ELSE u.path
    BY <1>3 DEF Directory, LocalNames
  <2>2. PICK n \in Nat \ {0} : n = Len(u.path)
    BY <1>1, <2>1, FrontIs
  <2>3. /\ Len(Front(u.path)) = n - 1 /\ Front(u.path) \in Seq(SiteName(Word)) /\ u.path[n] \in SiteName(Word)
        /\ \A i \in 1 .. n - 1 : Front(u.path)[i] = u.path[i]
    BY <1>1, <2>1, <2>2, FrontIs DEF Last
  <2>4. CASE Last(u.path).ext = ""
    <3>1. PICK e : e = [u.path[n] EXCEPT !.ext = "html"]
      OBVIOUS
    <3>2. e \in SiteName(Word) /\ e.ext = "html"
      <4>1. PICK x \in SiteName(Word) : x = u.path[n]
        BY <2>3
      <4>2. e = [x EXCEPT !.ext = "html"]
        BY <3>1, <4>1
      <4>3. "html" \in Word /\ x \in [stem : Seq(Word), ext : Word, hash : Seq(Nat)]
        BY DEF SiteName
      <4>4. e \in [stem : Seq(Word), ext : Word, hash : Seq(Nat)] /\ e.ext = "html"
        BY <4>2, <4>3
      <4>5. QED
        BY <4>4 DEF SiteName
    <3>3. LocalNames(u) = [u.path EXCEPT ![n] = e]
      BY <2>1, <2>2, <2>4, <3>1
    <3>4. n \in 1 .. Len(u.path)
      BY <2>2
    <3>5. /\ LocalNames(u) \in Seq(SiteName(Word)) /\ Len(LocalNames(u)) = n
          /\ \A i \in 1 .. n : LocalNames(u)[i] = IF i = n THEN e ELSE u.path[i]
      BY <1>1, <2>2, <3>2, <3>3, <3>4, ExceptSeq
    <3>6. LocalNames(u) # <<>>
      BY <3>5, EmptySeq
    <3>7. Last(LocalNames(u)) = e
      BY <2>2, <3>5 DEF Last
    <3>8. /\ Len(Directory(u)) = n - 1 /\ Directory(u) \in Seq(SiteName(Word))
          /\ \A i \in 1 .. n - 1 : Directory(u)[i] = u.path[i]
      BY <2>1, <2>3
    <3>9. \A i \in 1 .. n - 1 : i \in 1 .. n /\ i # n
      OBVIOUS
    <3>10. \A i \in 1 .. n - 1 : LocalNames(u)[i] = Directory(u)[i]
      BY <3>5, <3>8, <3>9
    <3>11. Len(LocalNames(u)) = Len(Directory(u)) + 1
      BY <3>5, <3>8
    <3>12. QED
      BY <3>2, <3>5, <3>6, <3>7, <3>8, <3>10, <3>11
  <2>5. CASE Last(u.path).ext # ""
    <3>1. LocalNames(u) = u.path /\ Len(Directory(u)) = n - 1
      BY <2>1, <2>3, <2>5
    <3>2. \A i \in 1 .. n - 1 : LocalNames(u)[i] = Directory(u)[i]
      BY <2>1, <2>3, <3>1
    <3>3. Len(LocalNames(u)) = Len(Directory(u)) + 1
      BY <2>2, <3>1
    <3>4. QED
      BY <1>1, <2>1, <2>3, <2>5, <3>1, <3>2, <3>3
  <2>6. QED
    BY <2>4, <2>5
<1>4. QED
  BY <1>2, <1>3

(* The names of a file: that of the host, and those in its directory. *)
FileName(Word) == SiteName(Word) \cup {Segment(h, "") : h \in Seq(Word)}

SiteFile(Word) == Seq(FileName(Word))

(* The file of a url: the host, the names of its path and a file name. *)
LEMMA LocalPathIs ==
  ASSUME NEW Word, {"index", "html"} \subseteq Word, NEW u \in SiteUrl(Word)
  PROVE  /\ urlToLocalPath(u) = urlPathToLocal(u) /\ urlPathToLocal(u) \in SiteFile(Word)
         /\ Len(urlPathToLocal(u)) = Len(LocalNames(u)) + 1
         /\ \A i \in 1 .. Len(LocalNames(u)) : urlPathToLocal(u)[i + 1] = LocalNames(u)[i]
<1>1. PICK top : top = <<Segment(u.host, "")>>
  OBVIOUS
<1>2. u.query = <<>> /\ u.host \in Seq(Word)
  BY DEF SiteUrl
<1>3. urlPathToLocal(u) = top \o LocalNames(u) /\ urlToLocalPath(u) = top \o LocalNames(u)
  BY <1>1, <1>2 DEF urlPathToLocal, urlToLocalPath
<1>4. LocalNames(u) \in SiteFile(Word)
  <2>1. LocalNames(u) \in Seq(SiteName(Word))
    BY LocalNamesAre
  <2>2. SiteName(Word) \subseteq FileName(Word)
    BY DEF FileName
  <2>3. QED
    BY <2>1, <2>2, SeqMonotonic DEF SiteFile
<1>5. top \in SiteFile(Word) /\ Len(top) = 1
  <2>1. PICK x : x = Segment(u.host, "")
    OBVIOUS
  <2>2. x \in FileName(Word)
    BY <1>2, <2>1 DEF FileName
  <2>3. <<x>> \in Seq(FileName(Word)) /\ Len(<<x>>) = 1
    BY <2>2
  <2>4. QED
    BY <1>1, <2>1, <2>3 DEF SiteFile
<1>6. PICK n \in Nat : n = Len(LocalNames(u))
  BY <1>4, LenProperties DEF SiteFile
<1>7. PICK s \in Seq(FileName(Word)) : s = LocalNames(u)
  BY <1>4 DEF SiteFile
<1>8. /\ top \o s \in Seq(FileName(Word)) /\ Len(top \o s) = Len(top) + Len(s)
       /\ \A i \in 1 .. Len(top) + Len(s) :
            (top \o s)[i] = IF i <= Len(top) THEN top[i] ELSE s[i - Len(top)]
  BY <1>5, ConcatProperties DEF SiteFile
<1>9. /\ top \o LocalNames(u) \in SiteFile(Word) /\ Len(top \o LocalNames(u)) = 1 + n
      /\ \A i \in 1 .. 1 + n :
           (top \o LocalNames(u))[i] = IF i <= 1 THEN top[i] ELSE LocalNames(u)[i - 1]
  BY <1>5, <1>6, <1>7, <1>8 DEF SiteFile
<1>10. \A i \in 1 .. n : (top \o LocalNames(u))[i + 1] = LocalNames(u)[i]
  <2>1. ASSUME NEW i \in 1 .. n PROVE (top \o LocalNames(u))[i + 1] = LocalNames(u)[i]
    <3>1. i + 1 \in 1 .. 1 + n /\ ~(i + 1 <= 1) /\ (i + 1) - 1 = i
      OBVIOUS
    <3>2. QED
      BY <1>9, <3>1
  <2>2. QED
    BY <2>1
<1>11. Len(top \o LocalNames(u)) = Len(LocalNames(u)) + 1
  BY <1>6, <1>9
<1>12. QED
  BY <1>3, <1>6, <1>9, <1>10, <1>11

(* A strict prefix is shorter. *)
LEMMA StrictPrefixIs ==
  ASSUME NEW S, NEW f \in Seq(S), NEW g \in Seq(S), IsStrictPrefix(f, g)
  PROVE  Len(f) < Len(g) /\ \A i \in 1 .. Len(f) : f[i] = g[i]
<1>1. Len(f) <= Len(g) /\ \A i \in 1 .. Len(f) : f[i] = g[i]
  BY PrefixIs DEF IsStrictPrefix
<1>2. Len(f) # Len(g)
  BY <1>1, SeqEqual DEF IsStrictPrefix
<1>3. Len(f) \in Nat /\ Len(g) \in Nat
  BY LenProperties
<1>4. QED
  BY <1>1, <1>2, <1>3

(* A file in the way of another one's directory is a name with an extension. *)
LEMMA NoFileAbove ==
  ASSUME NEW Word, {"index", "html"} \subseteq Word,
         NEW one \in SiteUrl(Word), NEW other \in SiteUrl(Word),
         IsStrictPrefix(urlToLocalPath(one), urlToLocalPath(other))
  PROVE  \E s \in ToSet(Directory(other)) : s.ext # ""
<1> DEFINE f == urlPathToLocal(one)
           g == urlPathToLocal(other)
<1>1. f \in SiteFile(Word) /\ g \in SiteFile(Word) /\ IsStrictPrefix(f, g)
  BY LocalPathIs
<1>2. PICK k \in Nat \ {0} : k = Len(LocalNames(one))
  BY LocalNamesAre, FrontIs
<1>3. PICK d \in Nat : d = Len(Directory(other))
  BY LocalNamesAre, LenProperties
<1>4. Len(f) = k + 1 /\ Len(g) = d + 2 /\ Len(LocalNames(other)) = d + 1
  <2>1. Len(f) = Len(LocalNames(one)) + 1 /\ Len(g) = Len(LocalNames(other)) + 1
    BY LocalPathIs
  <2>2. Len(LocalNames(other)) = Len(Directory(other)) + 1
    BY LocalNamesAre
  <2>3. QED
    BY <1>2, <1>3, <2>1, <2>2
<1>5. k + 1 < d + 2 /\ f[k + 1] = g[k + 1]
  <2>1. Len(f) < Len(g) /\ \A i \in 1 .. Len(f) : f[i] = g[i]
    BY <1>1, StrictPrefixIs DEF SiteFile
  <2>2. QED
    BY <1>4, <2>1
<1>6. k \in 1 .. d /\ k \in 1 .. d + 1
  BY <1>5
<1>7. LocalNames(one)[k] = Directory(other)[k]
  <2>1. f[k + 1] = LocalNames(one)[k]
    BY <1>2, LocalPathIs
  <2>2. g[k + 1] = LocalNames(other)[k]
    BY <1>4, <1>6, LocalPathIs
  <2>3. LocalNames(other)[k] = Directory(other)[k]
    BY <1>3, <1>6, LocalNamesAre
  <2>4. QED
    BY <1>5, <2>1, <2>2, <2>3
<1>8. Directory(other)[k] \in ToSet(Directory(other))
  BY <1>3, <1>6, LocalNamesAre, LenProperties DEF ToSet
<1>9. QED
  BY <1>2, <1>7, <1>8, LocalNamesAre DEF Last

(* No page is saved where another one needs a directory, on sites of any
   depth.                                                                  *)
LEMMA NeverADirectory ==
  ASSUME NEW Word, {"index", "html"} \subseteq Word,
         subject = "files" => input \in [one : SiteUrl(Word), other : SiteUrl(Word)]
  PROVE  NoFileIsADirectory
<1>1. subject = "files" => input.one \in SiteUrl(Word) /\ input.other \in SiteUrl(Word)
  OBVIOUS
<1>2. QED
  BY <1>1, NoFileAbove DEF NoFileIsADirectory

(* The url a reference means on its page is the one it means to the converter,
   which has only the url the crawl began with.                            *)
LEMMA SameTarget ==
  ASSUME NEW start, NEW page, NEW ref,
         ref.kind \in {"full", "path", "relative"},
         ref.kind # "full" => page.host = start.host,
         ref.kind = "relative" => Directory(page) = Directory(start)
  PROVE  ResolveReference(start, ref) = ResolveReference(page, ref)
<1>1. CASE ref.kind = "full"
  BY <1>1 DEF ResolveReference
<1>2. CASE ref.kind = "path"
  BY <1>2 DEF ResolveReference
<1>3. CASE ref.kind = "relative"
  BY <1>3 DEF ResolveReference
<1>4. QED
  BY <1>1, <1>2, <1>3

(* What a reference means on a page is a url of the site. *)
LEMMA TargetIs ==
  ASSUME NEW Word, {"index", "html"} \subseteq Word,
         NEW page \in SiteUrl(Word),
         NEW ref \in [kind : {"full", "path", "relative"}, url : SiteUrl(Word)]
  PROVE  ResolveReference(page, ref) \in SiteUrl(Word)
<1>1. /\ ref.url \in [host : Seq(Word), path : Seq(SiteName(Word)), dir : BOOLEAN, query : {<<>>}]
      /\ page.host \in Seq(Word) /\ ref.url.path \in Seq(SiteName(Word))
      /\ Directory(page) \in Seq(SiteName(Word))
  BY LocalNamesAre DEF SiteUrl
<1>2. CASE ref.kind = "full"
  BY <1>2 DEF ResolveReference
<1>3. CASE ref.kind = "path"
  <2>1. ResolveReference(page, ref) = [ref.url EXCEPT !.host = page.host]
    BY <1>3 DEF ResolveReference
  <2>2. QED
    BY <1>1, <2>1 DEF SiteUrl
<1>4. CASE ref.kind = "relative"
  <2>1. PICK p : p = Directory(page) \o ref.url.path
    OBVIOUS
  <2>2. p \in Seq(SiteName(Word))
    BY <1>1, <2>1, ConcatProperties
  <2>3. ResolveReference(page, ref) = [ref.url EXCEPT !.host = page.host, !.path = p]
    BY <1>4, <2>1 DEF ResolveReference
  <2>4. QED
    BY <1>1, <2>2, <2>3 DEF SiteUrl
<1>5. QED
  BY <1>2, <1>3, <1>4

(* What two paths have in common is a beginning of both. *)
LEMMA CommonIs ==
  ASSUME NEW S, NEW f \in Seq(S), NEW g \in Seq(S)
  PROVE  \E c \in Nat : /\ c <= Len(f) /\ c <= Len(g)
                        /\ Len(LongestCommonPrefix({f, g})) = c
                        /\ \A i \in 1 .. c : f[i] = g[i]
<1> DEFINE P == CommonPrefixes({f, g})
<1>1. PICK n \in Nat : n = Len(f)
  BY LenProperties
<1>2. \A p \in P : IsPrefix(p, f) /\ IsPrefix(p, g)
  BY DEF CommonPrefixes
<1>3. \A p \in P : p \in Seq(S) /\ Len(p) \in 0 .. n
  <2>1. ASSUME NEW p \in P PROVE p \in Seq(S) /\ Len(p) \in 0 .. n
    <3>1. p \in Prefixes(f) \cup Prefixes(g)
      BY DEF CommonPrefixes
    <3>2. PICK h \in {f, g} : p \in Prefixes(h)
      BY <3>1
    <3>3. h \in Seq(S)
      BY <3>2
    <3>4. CASE p = <<>>
      BY <3>4, <1>1, EmptySeq
    <3>5. CASE p # <<>>
      <4>1. PICK l \in 1 .. Len(h) : p = SubSeq(h, 1, l)
        BY <3>2, <3>5 DEF Prefixes
      <4>2. \A i \in 1 .. l : h[i] \in S
        BY <3>3, <4>1, ElementOfSeq, LenProperties
      <4>3. p \in Seq(S)
        BY <4>1, <4>2, SubSeqProperties
      <4>4. Len(p) <= n /\ Len(p) \in Nat
        BY <1>1, <1>2, <4>3, LenProperties DEF IsPrefix
      <4>5. QED
        BY <4>3, <4>4
    <3>6. QED
      BY <3>4, <3>5
  <2>2. QED
    BY <2>1
<1>4. <<>> \in P
  <2>1. <<>> \in Prefixes(f) /\ <<>> \in Seq(S) /\ Len(<<>>) = 0
    BY EmptySeq DEF Prefixes
  <2>2. IsPrefix(<<>>, f) /\ IsPrefix(<<>>, g)
    <3>1. PICK e \in Seq(S) : e = <<>> /\ Len(e) = 0
      BY <2>1
    <3>2. 0 <= Len(f) /\ 0 <= Len(g) /\ 1 .. 0 = {}
      BY LenProperties
    <3>3. IsPrefix(e, f) /\ IsPrefix(e, g)
      BY <3>1, <3>2, PrefixIs
    <3>4. QED
      BY <3>1, <3>3
  <2>3. QED
    BY <2>1, <2>2 DEF CommonPrefixes
<1>5. \E longest \in P : \A other \in P : Len(other) <= Len(longest)
  <2> DEFINE T == {Len(p) : p \in P}
  <2>1. T \subseteq 0 .. n /\ T # {}
    BY <1>3, <1>4
  <2>2. Max(T) \in T /\ \A y \in T : Max(T) >= y
    BY <2>1, Largest
  <2>3. PICK p \in P : Max(T) = Len(p)
    BY <2>2
  <2>4. \A other \in P : Len(other) <= Len(p)
    BY <1>3, <2>2, <2>3
  <2>5. QED
    BY <2>4
<1>6. LongestCommonPrefix({f, g}) \in P
  BY <1>5 DEF LongestCommonPrefix
<1>7. PICK p \in P : p = LongestCommonPrefix({f, g})
  BY <1>6
<1>8. /\ Len(p) <= Len(f) /\ Len(p) <= Len(g)
      /\ \A i \in 1 .. Len(p) : p[i] = f[i] /\ p[i] = g[i]
  <2>1. p \in Seq(S) /\ IsPrefix(p, f) /\ IsPrefix(p, g)
    BY <1>2, <1>3
  <2>2. Len(p) <= Len(f) /\ \A i \in 1 .. Len(p) : p[i] = f[i]
    BY <2>1, PrefixIs
  <2>3. Len(p) <= Len(g) /\ \A i \in 1 .. Len(p) : p[i] = g[i]
    BY <2>1, PrefixIs
  <2>4. QED
    BY <2>2, <2>3
<1>9. Len(p) \in Nat
  BY <1>3
<1>10. QED
  BY <1>7, <1>8, <1>9

(* The link from one file to another leads there. *)
LEMMA RelativeLands ==
  ASSUME NEW S, NEW from \in Seq(S), from # <<>>, NEW to \in Seq(S)
  PROVE  FollowLink(from, makeRelative(from, to)) = to
<1>1. PICK dir \in Seq(S) : dir = Front(from)
  BY FrontIs
<1>2. PICK c \in Nat : /\ c <= Len(dir) /\ c <= Len(to)
                       /\ Len(LongestCommonPrefix({dir, to})) = c
                       /\ \A i \in 1 .. c : dir[i] = to[i]
  BY CommonIs
<1>3. PICK d \in Nat : d = Len(dir)
  BY LenProperties
<1>4. PICK t \in Nat : t = Len(to)
  BY LenProperties
<1>5. makeRelative(from, to) = [up |-> d - c, down |-> SubSeq(to, c + 1, t)]
  BY <1>1, <1>2, <1>3, <1>4 DEF makeRelative
<1>6. /\ d - (d - c) = c /\ c <= d /\ c <= t
      /\ \A i \in 1 .. c : i \in 1 .. d /\ i \in 1 .. t
      /\ \A i \in c + 1 .. t : i \in 1 .. t
  BY <1>2, <1>3, <1>4
<1>7. PICK head : head = SubSeq(dir, 1, c)
  OBVIOUS
<1>8. PICK rest : rest = SubSeq(to, c + 1, t)
  OBVIOUS
<1>9. FollowLink(from, makeRelative(from, to)) = head \o rest
  BY <1>1, <1>3, <1>5, <1>6, <1>7, <1>8 DEF FollowLink
<1>10. head \in Seq(S) /\ Len(head) = c /\ \A i \in 1 .. c : head[i] = to[i]
  <2>1. \A i \in 1 .. c : dir[i] \in S
    BY <1>3, <1>6, ElementOfSeq
  <2>2. head \in Seq(S) /\ Len(head) = c /\ \A i \in 1 .. c : head[i] = dir[i]
    BY <1>7, <2>1, SubSeqProperties
  <2>3. QED
    BY <1>2, <2>2
<1>11. rest \in Seq(S) /\ Len(rest) = t - c /\ \A i \in 1 .. t - c : rest[i] = to[c + i]
  BY <1>4, <1>6, <1>8, CutIs
<1>12. PICK r \in Nat : r = t - c /\ t = c + r
  BY <1>6
<1>13. /\ head \o rest \in Seq(S) /\ Len(head \o rest) = t
       /\ \A i \in 1 .. c : (head \o rest)[i] = to[i]
       /\ \A i \in 1 .. r : (head \o rest)[c + i] = to[c + i]
  <2>1. /\ head \o rest \in Seq(S) /\ Len(head \o rest) = c + r
        /\ \A i \in 1 .. c : (head \o rest)[i] = head[i]
        /\ \A i \in 1 .. r : (head \o rest)[c + i] = rest[i]
    <3>1. head \in Seq(S) /\ Len(head) = c /\ rest \in Seq(S) /\ Len(rest) = r
      BY <1>10, <1>11, <1>12
    <3>2. /\ head \o rest \in Seq(S) /\ Len(head \o rest) = Len(head) + Len(rest)
          /\ \A i \in 1 .. Len(head) : (head \o rest)[i] = head[i]
          /\ \A i \in 1 .. Len(rest) : (head \o rest)[Len(head) + i] = rest[i]
      <4>1. head \in Seq(S) /\ rest \in Seq(S)
        BY <3>1
      <4>2. QED
        BY <4>1, ConcatIs
    <3>3. QED
      BY <3>1, <3>2
  <2>2. QED
    BY <1>10, <1>11, <1>12, <2>1
<1>14. \A i \in 1 .. t : (head \o rest)[i] = to[i]
  <2>1. ASSUME NEW i \in 1 .. t PROVE (head \o rest)[i] = to[i]
    <3>1. CASE i <= c
      BY <1>13, <3>1
    <3>2. CASE ~(i <= c)
      <4>1. i - c \in 1 .. r /\ c + (i - c) = i
        BY <1>12, <3>2
      <4>2. QED
        BY <1>13, <4>1
    <3>3. QED
      BY <3>1, <3>2
  <2>2. QED
    BY <2>1
<1>15. PICK u \in Seq(S) : u = head \o rest /\ Len(u) = t /\ \A i \in 1 .. t : u[i] = to[i]
  BY <1>13, <1>14
<1>16. u = to
  BY <1>4, <1>15, SeqEqual
<1>17. QED
  BY <1>9, <1>15, <1>16

(* A link that the converter changes leads to the file of its target: as many
   steps up as the page is deep below what both share, and down to the
   target.                                                                 *)
LEMMA LinkLands ==
  ASSUME NEW Word, {"index", "html"} \subseteq Word,
         NEW start \in SiteUrl(Word), NEW page \in SiteUrl(Word),
         NEW ref \in [kind : {"full", "path", "relative"}, url : SiteUrl(Word)],
         ref.kind # "full" => page.host = start.host,
         ref.kind = "relative" => Directory(page) = Directory(start),
         ConvertLink(start, ref, urlToLocalPath(page)) # Kept
  PROVE  FollowLink(urlToLocalPath(page), ConvertLink(start, ref, urlToLocalPath(page)))
           = urlToLocalPath(ResolveReference(page, ref))
<1>1. PICK u \in SiteUrl(Word) : u = ResolveReference(page, ref)
  BY TargetIs
<1>2. ResolveReference(start, ref) = u
  BY <1>1, SameTarget
<1>3. PICK file : file = urlToLocalPath(page)
  OBVIOUS
<1>4. ConvertLink(start, ref, file) = makeRelative(file, urlPathToLocal(u))
  BY <1>2, <1>3 DEF ConvertLink
<1>5. urlPathToLocal(u) = urlToLocalPath(u) /\ urlPathToLocal(u) \in Seq(FileName(Word))
  BY LocalPathIs DEF SiteFile
<1>6. file \in Seq(FileName(Word)) /\ Len(file) = Len(LocalNames(page)) + 1
  BY <1>3, LocalPathIs DEF SiteFile
<1>7. file # <<>>
  <2>1. LocalNames(page) \in Seq(SiteName(Word)) 
    BY LocalNamesAre
  <2>2. Len(LocalNames(page)) \in Nat
    BY <2>1, LenProperties
  <2>3. Len(file) # 0
    BY <1>6, <2>2
  <2>4. QED
    BY <2>3, EmptySeq
<1>8. FollowLink(file, makeRelative(file, urlPathToLocal(u))) = urlPathToLocal(u)
  BY <1>5, <1>6, <1>7, RelativeLands
<1>9. QED
  BY <1>1, <1>3, <1>4, <1>5, <1>8

(* Every converted link leads to the file of its target. *)
LEMMA LinksAlwaysLand ==
  ASSUME NEW Word, {"index", "html"} \subseteq Word,
         subject = "links" =>
           input \in [start : SiteUrl(Word), page : SiteUrl(Word),
                      ref : [kind : {"full", "path", "relative"}, url : SiteUrl(Word)]]
  PROVE  LinksLand
<1>1. subject = "links" =>
        /\ input.start \in SiteUrl(Word) /\ input.page \in SiteUrl(Word)
        /\ input.ref \in [kind : {"full", "path", "relative"}, url : SiteUrl(Word)]
  OBVIOUS
<1>2. QED
  BY <1>1, LinkLands DEF LinksLand

(* The urls of a stylesheet. *)
Use(Char) ==
  [quote : {<<>>, <<"q">>, <<"'">>}, blank : Seq({" "}), url : Seq(Char) \ {<<>>}]

(* Neither a blank nor another url( is in a url. *)
Plain(Char) == "url(" \notin Char /\ " " \notin Char

(* Where the url of a use begins in its text, and where it ends. *)
Before(u) == 2 + Len(u.blank) + Len(u.quote)

After(u)  == Before(u) + Len(u.url) + 1

IsUse(P, u) ==
  /\ P[2] = "url(" /\ \A i \in 1 .. Len(P) : i # 2 => P[i] # "url("
  /\ \A i \in 3 .. 2 + Len(u.blank) : P[i] = " "
  /\ u.quote # <<>> => P[Before(u)] = u.quote[1] /\ P[After(u)] = u.quote[1]
  /\ \A i \in 1 .. Len(u.url) : P[Before(u) + i] = u.url[i]
  /\ u.quote = <<>> => P[After(u)] \in {" ", ")"}
  /\ After(u) <= Len(P) /\ Len(P) \in Nat

(* The text of a use of a url. *)
LEMMA UseIs ==
  ASSUME NEW Char, Plain(Char), NEW u \in Use(Char)
  PROVE  /\ UseText(u) \in Seq(Char \cup {"x", "url(", " ", ")"} \cup Quotes)
         /\ IsUse(UseText(u), u)
<1> DEFINE S == Char \cup {"x", "url(", " ", ")"} \cup Quotes
<1>1. "x" \in S /\ "url(" \in S /\ ")" \in S /\ "q" \in S /\ "'" \in S /\ {" "} \subseteq S /\ Char \subseteq S
  BY DEF Quotes
<1>2. UseText(u) \in Seq(Char \cup {"x", "url(", " ", ")"} \cup Quotes) <=> UseText(u) \in Seq(S)
  OBVIOUS
<1> HIDE DEF S
<1>3. /\ u.blank \in Seq({" "}) /\ u.quote \in {<<>>, <<"q">>, <<"'">>}
      /\ u.url \in Seq(Char) /\ u.url # <<>>
  BY DEF Use
<1>4. PICK blank \in Seq(S) : blank = u.blank
  BY <1>1, <1>3, SeqMonotonic
<1>5. PICK url \in Seq(S) : url = u.url
  BY <1>1, <1>3, SeqMonotonic
<1>6. /\ u.quote \in Seq(S) /\ Len(u.quote) \in {0, 1} /\ (Len(u.quote) = 0 <=> u.quote = <<>>)
      /\ u.quote # <<>> => u.quote[1] # "url("
  <2>1. CASE u.quote = <<>>
    BY <2>1, EmptySeq
  <2>2. CASE u.quote = <<"q">>
    <3>1. <<"q">> \in Seq(S) /\ Len(<<"q">>) = 1 /\ <<"q">>[1] = "q" /\ <<"q">> # <<>>
      BY <1>1, OneIs
    <3>2. QED
      BY <2>2, <3>1
  <2>3. CASE u.quote = <<"'">>
    <3>1. <<"'">> \in Seq(S) /\ Len(<<"'">>) = 1 /\ <<"'">>[1] = "'" /\ <<"'">> # <<>>
      BY <1>1, OneIs
    <3>2. QED
      BY <2>3, <3>1
  <2>4. QED
    BY <1>3, <2>1, <2>2, <2>3
<1>7. PICK quote \in Seq(S) : quote = u.quote
  BY <1>6
<1>8. PICK b \in Nat : b = Len(blank)
  BY LenProperties
<1>9. PICK q \in Nat : q = Len(quote) /\ (q = 0 \/ q = 1)
  BY <1>6, <1>7
<1>10. PICK m \in Nat : m = Len(url) /\ m >= 1
  <2>1. Len(url) \in Nat /\ Len(url) # 0
    BY <1>3, <1>5, EmptySeq
  <2>2. QED
    BY <2>1
<1>11. PICK s0 \in Seq(S) : s0 = <<"x", "url(">> /\ Len(s0) = 2 /\ s0[1] = "x" /\ s0[2] = "url("
  <2>1. /\ <<"x", "url(">> \in Seq(S) /\ Len(<<"x", "url(">>) = 2
        /\ <<"x", "url(">>[1] = "x" /\ <<"x", "url(">>[2] = "url("
    BY <1>1, TwoAre
  <2>2. QED
    BY <2>1
<1>12. PICK s6 \in Seq(S) : s6 = <<")">> /\ Len(s6) = 1 /\ s6[1] = ")"
  BY <1>1, OneIs
<1>13. PICK s1 \in Seq(S) : s1 = s0 \o blank
  BY ConcatIs
<1>14. PICK s2 \in Seq(S) : s2 = s1 \o quote
  BY ConcatIs
<1>15. PICK s3 \in Seq(S) : s3 = s2 \o url
  BY ConcatIs
<1>16. PICK s4 \in Seq(S) : s4 = s3 \o quote
  BY ConcatIs
<1>17. PICK s5 \in Seq(S) : s5 = s4 \o blank
  BY ConcatIs
<1>18. PICK P \in Seq(S) : P = s5 \o s6
  BY ConcatIs
<1>19. UseText(u) = P
  BY <1>4, <1>5, <1>7, <1>11, <1>12, <1>13, <1>14, <1>15, <1>16, <1>17, <1>18 DEF UseText
<1>20. /\ Len(s1) = 2 + b
       /\ \A i \in 1 .. 2 : s1[i] = s0[i]
       /\ \A i \in 1 .. b : s1[2 + i] = blank[i]
  <2>1. /\ Len(s0 \o blank) = Len(s0) + Len(blank)
        /\ \A i \in 1 .. Len(s0) : (s0 \o blank)[i] = s0[i]
        /\ \A i \in 1 .. Len(blank) : (s0 \o blank)[Len(s0) + i] = blank[i]
    BY ConcatIs
  <2>2. Len(s0) = 2 /\ Len(blank) = b /\ s1 = s0 \o blank
    BY <1>8, <1>11, <1>13
  <2>3. QED
    BY <2>1, <2>2
<1>21. /\ Len(s2) = 2 + b + q
       /\ \A i \in 1 .. 2 + b : s2[i] = s1[i]
       /\ \A i \in 1 .. q : s2[2 + b + i] = quote[i]
  <2>1. /\ Len(s1 \o quote) = Len(s1) + Len(quote)
        /\ \A i \in 1 .. Len(s1) : (s1 \o quote)[i] = s1[i]
        /\ \A i \in 1 .. Len(quote) : (s1 \o quote)[Len(s1) + i] = quote[i]
    BY ConcatIs
  <2>2. Len(s1) = 2 + b /\ Len(quote) = q /\ s2 = s1 \o quote
    BY <1>9, <1>20, <1>14
  <2>3. QED
    BY <2>1, <2>2
<1>22. /\ Len(s3) = 2 + b + q + m
       /\ \A i \in 1 .. 2 + b + q : s3[i] = s2[i]
       /\ \A i \in 1 .. m : s3[2 + b + q + i] = url[i]
  <2>1. /\ Len(s2 \o url) = Len(s2) + Len(url)
        /\ \A i \in 1 .. Len(s2) : (s2 \o url)[i] = s2[i]
        /\ \A i \in 1 .. Len(url) : (s2 \o url)[Len(s2) + i] = url[i]
    BY ConcatIs
  <2>2. Len(s2) = 2 + b + q /\ Len(url) = m /\ s3 = s2 \o url
    BY <1>10, <1>21, <1>15
  <2>3. QED
    BY <2>1, <2>2
<1>23. /\ Len(s4) = 2 + b + q + m + q
       /\ \A i \in 1 .. 2 + b + q + m : s4[i] = s3[i]
       /\ \A i \in 1 .. q : s4[2 + b + q + m + i] = quote[i]
  <2>1. /\ Len(s3 \o quote) = Len(s3) + Len(quote)
        /\ \A i \in 1 .. Len(s3) : (s3 \o quote)[i] = s3[i]
        /\ \A i \in 1 .. Len(quote) : (s3 \o quote)[Len(s3) + i] = quote[i]
    BY ConcatIs
  <2>2. Len(s3) = 2 + b + q + m /\ Len(quote) = q /\ s4 = s3 \o quote
    BY <1>9, <1>22, <1>16
  <2>3. QED
    BY <2>1, <2>2
<1>24. /\ Len(s5) = 2 + b + q + m + q + b
       /\ \A i \in 1 .. 2 + b + q + m + q : s5[i] = s4[i]
       /\ \A i \in 1 .. b : s5[2 + b + q + m + q + i] = blank[i]
  <2>1. /\ Len(s4 \o blank) = Len(s4) + Len(blank)
        /\ \A i \in 1 .. Len(s4) : (s4 \o blank)[i] = s4[i]
        /\ \A i \in 1 .. Len(blank) : (s4 \o blank)[Len(s4) + i] = blank[i]
    BY ConcatIs
  <2>2. Len(s4) = 2 + b + q + m + q /\ Len(blank) = b /\ s5 = s4 \o blank
    BY <1>8, <1>23, <1>17
  <2>3. QED
    BY <2>1, <2>2
<1>25. /\ Len(P) = 2 + b + q + m + q + b + 1
       /\ \A i \in 1 .. 2 + b + q + m + q + b : P[i] = s5[i]
       /\ \A i \in 1 .. 1 : P[2 + b + q + m + q + b + i] = s6[i]
  <2>1. /\ Len(s5 \o s6) = Len(s5) + Len(s6)
        /\ \A i \in 1 .. Len(s5) : (s5 \o s6)[i] = s5[i]
        /\ \A i \in 1 .. Len(s6) : (s5 \o s6)[Len(s5) + i] = s6[i]
    BY ConcatIs
  <2>2. Len(s5) = 2 + b + q + m + q + b /\ Len(s6) = 1 /\ P = s5 \o s6
    BY <1>12, <1>24, <1>18
  <2>3. QED
    BY <2>1, <2>2
<1>26. P[2 + b + q + m + q + b + 1] = ")"
  BY <1>12, <1>25
<1>27. P[1] = "x" /\ P[2] = "url("
  <2>1. ASSUME NEW i \in 1 .. 2 PROVE P[i] = s0[i]
    <3>1. /\ i \in 1 .. 2 + b /\ i \in 1 .. 2 + b + q /\ i \in 1 .. 2 + b + q + m
          /\ i \in 1 .. 2 + b + q + m + q /\ i \in 1 .. 2 + b + q + m + q + b
      OBVIOUS
    <3>2. P[i] = s3[i]
      BY <1>23, <1>24, <1>25, <3>1
    <3>3. QED
      BY <1>20, <1>21, <1>22, <3>1, <3>2
  <2>2. QED
    BY <1>11, <2>1
<1>28. \A i \in 1 .. b : P[2 + i] = blank[i]
  <2>1. ASSUME NEW i \in 1 .. b PROVE P[2 + i] = blank[i]
    <3>1. PICK k \in 1 .. 2 + b : k = 2 + i
      OBVIOUS
    <3>2. /\ k \in 1 .. 2 + b /\ k \in 1 .. 2 + b + q /\ k \in 1 .. 2 + b + q + m
          /\ k \in 1 .. 2 + b + q + m + q /\ k \in 1 .. 2 + b + q + m + q + b
      OBVIOUS
    <3>3. P[k] = s3[k]
      BY <1>23, <1>24, <1>25, <3>2
    <3>4. P[k] = s1[k]
      BY <1>21, <1>22, <3>2, <3>3
    <3>5. P[2 + i] = s1[2 + i]
      BY <3>1, <3>4
    <3>6. QED
      BY <1>20, <3>5
  <2>2. QED
    BY <2>1
<1>29. \A i \in 1 .. q : P[2 + b + i] = quote[i]
  <2>1. ASSUME NEW i \in 1 .. q PROVE P[2 + b + i] = quote[i]
    <3>1. PICK k \in 1 .. 2 + b + q : k = 2 + b + i
      OBVIOUS
    <3>2. /\ k \in 1 .. 2 + b + q + m
          /\ k \in 1 .. 2 + b + q + m + q /\ k \in 1 .. 2 + b + q + m + q + b
      OBVIOUS
    <3>3. P[k] = s3[k]
      BY <1>23, <1>24, <1>25, <3>2
    <3>4. P[k] = s2[k]
      BY <1>22, <3>1, <3>3
    <3>5. P[2 + b + i] = s2[2 + b + i]
      BY <3>1, <3>4
    <3>6. QED
      BY <1>21, <3>5
  <2>2. QED
    BY <2>1
<1>30. \A i \in 1 .. m : P[2 + b + q + i] = url[i]
  <2>1. ASSUME NEW i \in 1 .. m PROVE P[2 + b + q + i] = url[i]
    <3>1. 2 + b + q + i \in 1 .. 2 + b + q + m
      OBVIOUS
    <3>2. P[2 + b + q + i] = s3[2 + b + q + i]
      BY <1>23, <1>24, <1>25, <3>1
    <3>3. QED
      BY <1>22, <3>2
  <2>2. QED
    BY <2>1
<1>31. \A i \in 1 .. q : P[2 + b + q + m + i] = quote[i]
  <2>1. ASSUME NEW i \in 1 .. q PROVE P[2 + b + q + m + i] = quote[i]
    <3>1. 2 + b + q + m + i \in 1 .. 2 + b + q + m + q
      OBVIOUS
    <3>2. P[2 + b + q + m + i] = s4[2 + b + q + m + i]
      BY <1>24, <1>25, <3>1
    <3>3. QED
      BY <1>23, <3>2
  <2>2. QED
    BY <2>1
<1>32. \A i \in 1 .. b : P[2 + b + q + m + q + i] = blank[i]
  <2>1. ASSUME NEW i \in 1 .. b PROVE P[2 + b + q + m + q + i] = blank[i]
    <3>1. 2 + b + q + m + q + i \in 1 .. 2 + b + q + m + q + b
      OBVIOUS
    <3>2. QED
      BY <1>24, <1>25, <3>1
  <2>2. QED
    BY <2>1
<1>33. /\ \A i \in 1 .. b : blank[i] = " "
       /\ \A i \in 1 .. m : url[i] # "url("
       /\ \A i \in 1 .. q : quote[i] # "url("
  <2>1. \A i \in 1 .. b : blank[i] = " "
    <3>1. ASSUME NEW i \in 1 .. Len(u.blank) PROVE u.blank[i] \in {" "}
      BY <1>3, ElementOfSeq
    <3>2. QED
      BY <1>4, <1>8, <3>1
  <2>2. \A i \in 1 .. m : url[i] # "url("
    <3>1. ASSUME NEW i \in 1 .. Len(u.url) PROVE u.url[i] \in Char
      BY <1>3, ElementOfSeq
    <3>2. QED
      BY <1>5, <1>10, <3>1 DEF Plain
  <2>3. \A i \in 1 .. q : quote[i] # "url("
    BY <1>6, <1>7, <1>9
  <2>4. QED
    BY <2>1, <2>2, <2>3
<1>34. ASSUME NEW i \in 1 .. Len(P), i # 2 PROVE P[i] # "url("
  <2>1. i \in 1 .. 2 + b + q + m + q + b + 1
    BY <1>25
  <2>2. CASE i = 1
    BY <1>27, <2>2
  <2>3. CASE i \in 3 .. 2 + b
    <3>1. i - 2 \in 1 .. b /\ 2 + (i - 2) = i
      BY <2>3
    <3>2. QED
      BY <1>28, <1>33, <3>1
  <2>4. CASE i \in 2 + b + 1 .. 2 + b + q
    <3>1. i - (2 + b) \in 1 .. q /\ 2 + b + (i - (2 + b)) = i
      BY <2>4
    <3>2. QED
      BY <1>29, <1>33, <3>1
  <2>5. CASE i \in 2 + b + q + 1 .. 2 + b + q + m
    <3>1. i - (2 + b + q) \in 1 .. m /\ 2 + b + q + (i - (2 + b + q)) = i
      BY <2>5
    <3>2. QED
      BY <1>30, <1>33, <3>1
  <2>6. CASE i \in 2 + b + q + m + 1 .. 2 + b + q + m + q
    <3>1. i - (2 + b + q + m) \in 1 .. q /\ 2 + b + q + m + (i - (2 + b + q + m)) = i
      BY <2>6
    <3>2. QED
      BY <1>31, <1>33, <3>1
  <2>7. CASE i \in 2 + b + q + m + q + 1 .. 2 + b + q + m + q + b
    <3>1. i - (2 + b + q + m + q) \in 1 .. b /\ 2 + b + q + m + q + (i - (2 + b + q + m + q)) = i
      BY <2>7
    <3>2. QED
      BY <1>32, <1>33, <3>1
  <2>8. CASE i = 2 + b + q + m + q + b + 1
    BY <1>26, <2>8
  <2>9. QED
    BY <1>34, <2>1, <2>2, <2>3, <2>4, <2>5, <2>6, <2>7, <2>8
<1>35. Before(u) = 2 + b + q /\ After(u) = 2 + b + q + m + 1
  BY <1>4, <1>5, <1>7, <1>8, <1>9, <1>10 DEF Before, After
<1>36. \A i \in 3 .. 2 + b : P[i] = " "
  <2>1. ASSUME NEW i \in 3 .. 2 + b PROVE P[i] = " "
    <3>1. i - 2 \in 1 .. b /\ 2 + (i - 2) = i
      OBVIOUS
    <3>2. QED
      BY <1>28, <1>33, <3>1
  <2>2. QED
    BY <2>1
<1>37. quote # <<>> => P[2 + b + q] = quote[1] /\ P[2 + b + q + m + 1] = quote[1]
  <2>1. quote # <<>> => q = 1
    BY <1>6, <1>7, <1>9
  <2>2. QED
    BY <1>29, <1>31, <2>1
<1>38. quote = <<>> => P[2 + b + q + m + 1] \in {" ", ")"}
  <2>1. quote = <<>> => q = 0
    BY <1>6, <1>7, <1>9
  <2>2. ASSUME q = 0 PROVE P[2 + b + q + m + 1] \in {" ", ")"}
    <3>1. CASE b = 0
      <4>1. 2 + b + q + m + q + b + 1 = 2 + b + q + m + 1
        BY <2>2, <3>1
      <4>2. QED
        BY <1>26, <4>1
    <3>2. CASE b # 0
      <4>1. 1 \in 1 .. b /\ 2 + b + q + m + q + 1 = 2 + b + q + m + 1
        BY <2>2, <3>2
      <4>2. QED
        BY <1>32, <1>33, <4>1
    <3>3. QED
      BY <3>1, <3>2
  <2>3. QED
    BY <2>1, <2>2
<1>39. 2 + b + q + m + 1 <= Len(P) /\ Len(P) \in Nat
  BY <1>25
<1>40. IsUse(P, u)
  BY <1>4, <1>5, <1>7, <1>8, <1>10, <1>27, <1>30, <1>34, <1>35, <1>36, <1>37, <1>38, <1>39 DEF IsUse
<1>41. QED
  BY <1>2, <1>19, <1>40

(* The first of some places, or else the one after the last. *)
FirstOf(a, L, G) == Min({j \in a .. L : j \in G} \cup {L + 1})

(* Where the first place is. *)
LEMMA FirstOfIs ==
  ASSUME NEW a \in Nat, NEW L \in Nat, NEW x \in Nat, a <= x, x <= L,
         NEW G, x \in G, \A j \in a .. x - 1 : j \notin G
  PROVE  FirstOf(a, L, G) = x
<1> DEFINE T == {j \in a .. L : j \in G} \cup {L + 1}
<1>1. T \subseteq Nat /\ x \in T
  OBVIOUS
<1>2. \A y \in T : x <= y
  <2>1. ASSUME NEW y \in T PROVE x <= y
    <3>1. CASE y = L + 1
      BY <3>1
    <3>2. CASE y # L + 1
      <4>1. y \in a .. L /\ y \in G
        BY <3>2
      <4>2. y \notin a .. x - 1
        BY <4>1
      <4>3. QED
        BY <4>1, <4>2
    <3>3. QED
      BY <3>1, <3>2
  <2>2. QED
    BY <2>1
<1> HIDE DEF T
<1>3. Min(T) = x
  BY <1>1, <1>2, MinIs
<1>4. QED
  BY <1>3 DEF FirstOf, T

(* The scanner stops at the first of the characters it is to stop at. *)
LEMMA SkipIs ==
  ASSUME NEW text, Len(text) \in Nat, NEW p \in Nat, NEW x \in Nat, p <= x, x <= Len(text),
         NEW Stops, text[x] \in Stops, \A j \in p .. x - 1 : text[j] \notin Stops
  PROVE  Skip(text, p, Stops) = x
<1>1. PICK G : G = {j \in Nat : text[j] \in Stops}
  OBVIOUS
<1>2. x \in G /\ \A j \in p .. x - 1 : j \notin G
  BY <1>1
<1>3. FirstOf(p, Len(text), G) = x
  BY <1>2, FirstOfIs
<1>4. {j \in p .. Len(text) : text[j] \in Stops} = {j \in p .. Len(text) : j \in G}
  BY <1>1
<1>5. QED
  BY <1>3, <1>4, Zenon DEF Skip, FirstOf

(* Without one it goes on to the end. *)
LEMMA SkipAll ==
  ASSUME NEW text, Len(text) \in Nat, NEW p \in Nat,
         NEW Stops, \A j \in p .. Len(text) : text[j] \notin Stops
  PROVE  Skip(text, p, Stops) = Len(text) + 1
<1>1. {j \in p .. Len(text) : text[j] \in Stops} \cup {Len(text) + 1} = {Len(text) + 1}
  OBVIOUS
<1>2. PICK T : T = {Len(text) + 1}
  OBVIOUS
<1>3. Min(T) = Len(text) + 1
  <2>1. T \subseteq Nat /\ Len(text) + 1 \in T /\ \A y \in T : Len(text) + 1 <= y
    BY <1>2
  <2>2. QED
    BY <2>1, MinIs
<1>4. QED
  BY <1>1, <1>2, <1>3 DEF Skip

(* The text of the next url begins after the blanks behind url(. *)
LEMMA NextTextIs ==
  ASSUME NEW text, Len(text) \in Nat, NEW p \in Nat, NEW x \in Nat, p <= x, x <= Len(text),
         text[x] \in {"url("}, \A j \in p .. x - 1 : text[j] \notin {"url("},
         NEW f \in Nat, x < f, f <= Len(text),
         text[f] \notin Blank, \A j \in x + 1 .. f - 1 : text[j] \in Blank
  PROVE  NextText(text, p) = f
<1>1. Skip(text, p, {"url("}) = x
  BY SkipIs
<1>2. PICK G : G = {j \in Nat : text[j] \notin Blank}
  OBVIOUS
<1>3. f \in G /\ \A j \in x + 1 .. f - 1 : j \notin G
  BY <1>2
<1>4. FirstOf(x + 1, Len(text), G) = f
  <2>1. x + 1 \in Nat /\ x + 1 <= f
    OBVIOUS
  <2>2. QED
    BY <1>3, <2>1, FirstOfIs
<1>5. {j \in x + 1 .. Len(text) : text[j] \notin Blank} = {j \in x + 1 .. Len(text) : j \in G}
  BY <1>2
<1>6. QED
  BY <1>1, <1>4, <1>5, Zenon DEF NextText, FirstOf

(* Without url( there is no next one. *)
LEMMA NoNextText ==
  ASSUME NEW text, Len(text) \in Nat, NEW p \in Nat, \A j \in p .. Len(text) : text[j] # "url("
  PROVE  NextText(text, p) = Len(text) + 1
<1>1. Skip(text, p, {"url("}) = Len(text) + 1
  <2>1. \A j \in p .. Len(text) : text[j] \notin {"url("}
    OBVIOUS
  <2>2. QED
    BY <2>1, SkipAll
<1>2. PICK T : T = {j \in (Len(text) + 1) + 1 .. Len(text) : text[j] \notin Blank} \cup {Len(text) + 1}
  OBVIOUS
<1>3. T = {Len(text) + 1}
  <2>1. (Len(text) + 1) + 1 .. Len(text) = {}
    OBVIOUS
  <2>2. QED
    BY <1>2, <2>1
<1>4. Min(T) = Len(text) + 1
  <2>1. T \subseteq Nat /\ Len(text) + 1 \in T /\ \A y \in T : Len(text) + 1 <= y
    BY <1>3
  <2>2. QED
    BY <2>1, MinIs
<1>5. QED
  BY <1>1, <1>2, <1>4 DEF NextText

(* From a place before it, a use in the text is the next one that is found, and
   its url is found, whole.                                                *)
LEMMA UseFound ==
  ASSUME NEW Char, Plain(Char), NEW u \in Use(Char), WellWritten(u),
         NEW S, Char \subseteq S, NEW text \in Seq(S), NEW P, IsUse(P, u),
         NEW o \in Nat, o + Len(P) <= Len(text), \A k \in 1 .. Len(P) : text[o + k] = P[k],
         NEW p \in Nat, p <= o + 2, \A j \in p .. o + 1 : text[j] # "url("
  PROVE  /\ NextText(text, p) <= Len(text) /\ NextText(text, p) \in Nat
         /\ UrlEnd(text, NextText(text, p)) = o + After(u)
         /\ FoundUrl(text, NextText(text, p)) = IF u.url[1] = "data:" THEN <<>> ELSE <<u.url>>
<1>1. /\ u.blank \in Seq({" "}) /\ u.quote \in {<<>>, <<"q">>, <<"'">>}
      /\ u.url \in Seq(Char) /\ u.url # <<>>
  BY DEF Use
<1>2. PICK url \in Seq(Char) : url = u.url
  BY <1>1
<1>3. PICK m \in Nat : m = Len(url) /\ m >= 1
  <2>1. Len(url) \in Nat /\ Len(url) # 0
    BY <1>1, <1>2, EmptySeq
  <2>2. QED
    BY <2>1
<1>4. PICK b \in Nat : b = Len(u.blank)
  BY <1>1, LenProperties
<1>5. PICK q \in Nat : /\ q = Len(u.quote) /\ (q = 0 \/ q = 1) /\ (q = 0 <=> u.quote = <<>>)
                       /\ q = 1 => u.quote[1] \in Quotes /\ ToSet(u.quote) = {u.quote[1]}
  <2>1. CASE u.quote = <<>>
    <3>1. Len(u.quote) = 0
      BY <2>1, EmptySeq
    <3>2. QED
      BY <2>1, <3>1
  <2>2. ASSUME NEW c \in Quotes, u.quote = <<c>>
        PROVE  Len(u.quote) = 1 /\ u.quote # <<>> /\ u.quote[1] = c /\ ToSet(u.quote) = {c}
    <3>1. <<c>> \in Seq(Quotes) /\ Len(<<c>>) = 1 /\ <<c>>[1] = c /\ <<c>> # <<>>
      BY OneIs
    <3>2. DOMAIN <<c>> = 1 .. 1
      BY <3>1, LenProperties
    <3>3. QED
      BY <2>2, <3>1, <3>2 DEF ToSet
  <2>3. u.quote = <<>> \/ \E c \in Quotes : u.quote = <<c>>
    BY <1>1 DEF Quotes
  <2>4. CASE u.quote # <<>>
    <3>1. PICK c \in Quotes : u.quote = <<c>>
      BY <2>3, <2>4
    <3>2. Len(u.quote) = 1 /\ u.quote # <<>> /\ u.quote[1] = c /\ ToSet(u.quote) = {c}
      BY <2>2, <3>1
    <3>3. QED
      BY <3>2
  <2>5. QED
    BY <2>1, <2>4
<1>6. PICK n \in Nat : n = Len(P)
  BY DEF IsUse
<1>7. PICK t \in Nat : t = Len(text) /\ o + n <= t
  BY <1>6, LenProperties
<1>8. Before(u) = 2 + b + q /\ After(u) = 2 + b + q + m + 1
  BY <1>2, <1>3, <1>4, <1>5 DEF Before, After
<1>9. /\ P[2] = "url(" /\ \A i \in 3 .. 2 + b : P[i] = " "
      /\ q = 1 => P[2 + b + q] = u.quote[1] /\ P[2 + b + q + m + 1] = u.quote[1]
      /\ \A i \in 1 .. m : P[2 + b + q + i] = url[i]
      /\ q = 0 => P[2 + b + q + m + 1] \in {" ", ")"}
  <2>1. q = 1 => u.quote # <<>>
    BY <1>5
  <2>2. q = 0 => u.quote = <<>>
    BY <1>5
  <2>3. QED
    BY <1>2, <1>3, <1>4, <1>6, <1>8, <2>1, <2>2 DEF IsUse
<1>10. 2 + b + q + m + 1 <= n
  BY <1>6, <1>8 DEF IsUse
<1>11. \A k \in 1 .. n : text[o + k] = P[k]
  BY <1>6
<1>12. \A i \in 1 .. m : text[o + (2 + b + q + i)] = url[i]
  <2>1. ASSUME NEW i \in 1 .. m PROVE text[o + (2 + b + q + i)] = url[i]
    <3>1. 2 + b + q + i \in 1 .. n
      BY <1>10
    <3>2. QED
      BY <1>9, <1>11, <3>1
  <2>2. QED
    BY <2>1
<1>13. text[o + 2] = "url(" /\ text[o + (2 + b + q + m + 1)] = P[2 + b + q + m + 1]
  <2>1. 2 \in 1 .. n /\ 2 + b + q + m + 1 \in 1 .. n
    BY <1>3, <1>10
  <2>2. QED
    BY <1>9, <1>11, <2>1
<1>14. PICK first \in Nat : first = o + (3 + b)
  OBVIOUS
<1>15. /\ \A i \in 1 .. m : url[i] # " " /\ url[i] # "url("
       /\ q = 0 => \A i \in 1 .. m : url[i] \notin Quotes /\ url[i] # ")"
       /\ q = 1 => \A i \in 1 .. m : url[i] # u.quote[1]
  <2>1. \A i \in 1 .. m : url[i] \in Char
    BY <1>3, ElementOfSeq
  <2>2. \A i \in 1 .. m : url[i] \in ToSet(u.url)
    BY <1>2, <1>3, LenProperties DEF ToSet
  <2>3. \A x \in ToSet(u.url) : x \notin IF u.quote = <<>> THEN Quotes \cup {")"} ELSE ToSet(u.quote)
    BY DEF WellWritten
  <2>4. ASSUME q = 0 PROVE \A i \in 1 .. m : url[i] \notin Quotes /\ url[i] # ")"
    BY <1>5, <2>2, <2>3, <2>4
  <2>5. ASSUME q = 1 PROVE \A i \in 1 .. m : url[i] # u.quote[1]
    <3>1. u.quote # <<>> /\ ToSet(u.quote) = {u.quote[1]}
      BY <1>5, <2>5
    <3>2. QED
      BY <2>2, <2>3, <3>1
  <2>6. QED
    BY <2>1, <2>4, <2>5 DEF Plain
<1>16. PICK s \in Nat : s = o + (2 + b + q)
  OBVIOUS
<1>17. s + m + 1 <= t /\ s + m + 1 = o + (2 + b + q + m + 1)
  BY <1>7, <1>10, <1>16
<1>18. \A i \in 1 .. m : text[s + i] = url[i]
  <2>1. ASSUME NEW i \in 1 .. m PROVE text[s + i] = url[i]
    <3>1. s + i = o + (2 + b + q + i)
      BY <1>16
    <3>2. QED
      BY <1>12, <3>1
  <2>2. QED
    BY <2>1
<1>19. q = 1 => text[first] = u.quote[1] /\ first = s
  <2>1. ASSUME q = 1 PROVE text[first] = u.quote[1] /\ first = s
    <3>1. first = s /\ first = o + (2 + b + q) /\ 2 + b + q \in 1 .. n
      BY <1>10, <1>14, <1>16, <2>1
    <3>2. QED
      BY <1>9, <1>11, <2>1, <3>1
  <2>2. QED
    BY <2>1
<1>20. q = 0 => text[first] = url[1] /\ first = s + 1
  <2>1. ASSUME q = 0 PROVE text[first] = url[1] /\ first = s + 1
    <3>1. first = s + 1 /\ 1 \in 1 .. m
      BY <1>3, <1>14, <1>16, <2>1
    <3>2. QED
      BY <1>18, <3>1
  <2>2. QED
    BY <2>1
<1>21. text[first] # " " /\ (text[first] \in Quotes <=> q = 1)
  <2>1. 1 \in 1 .. m
    BY <1>3
  <2>2. " " \notin Quotes
    BY DEF Quotes
  <2>3. QED
    BY <1>5, <1>15, <1>19, <1>20, <2>1, <2>2
<1>22. NextText(text, p) = first
  <2>1. PICK x \in Nat : x = o + 2
    OBVIOUS
  <2>2. p <= x /\ x <= Len(text) /\ x < first /\ first <= Len(text)
    BY <1>3, <1>7, <1>10, <1>14, <2>1
  <2>3. text[x] \in {"url("} /\ text[first] \notin Blank
    BY <1>13, <1>21, <2>1 DEF Blank
  <2>4. \A j \in p .. x - 1 : text[j] \notin {"url("}
    <3>1. x - 1 = o + 1
      BY <2>1
    <3>2. QED
      BY <3>1
  <2>5. ASSUME NEW j \in x + 1 .. first - 1 PROVE text[j] \in Blank
    <3>1. j - o \in 3 .. 2 + b /\ j - o \in 1 .. n /\ o + (j - o) = j
      BY <1>10, <1>14, <2>1
    <3>2. QED
      BY <1>9, <1>11, <3>1 DEF Blank
  <2>6. Len(text) \in Nat
    BY <1>7
  <2>7. QED
    BY <2>2, <2>4, <2>5, <2>6, <2>3, NextTextIs
<1>23. UrlStart(text, first) = s + 1
  BY <1>5, <1>19, <1>20, <1>21 DEF UrlStart
<1>24. UrlEnd(text, first) = s + m + 1
  <2>1. PICK Stops : Stops = UrlEnds(text[first])
    OBVIOUS
  <2>2. text[s + m + 1] \in Stops
    BY <1>5, <1>9, <1>13, <1>17, <1>19, <1>21, <2>1 DEF UrlEnds, Blank
  <2>3. \A i \in 1 .. m : url[i] \notin Stops
    BY <1>5, <1>15, <1>19, <1>21, <2>1 DEF UrlEnds, Blank
  <2>4. ASSUME NEW j \in s + 1 .. s + m + 1 - 1 PROVE text[j] \notin Stops
    <3>1. j - s \in 1 .. m /\ s + (j - s) = j
      OBVIOUS
    <3>2. QED
      BY <1>18, <2>3, <3>1
  <2>5. /\ s + 1 \in Nat /\ s + m + 1 \in Nat /\ s + 1 <= s + m + 1
        /\ s + m + 1 <= Len(text) /\ Len(text) \in Nat
    BY <1>7, <1>17
  <2>6. Skip(text, s + 1, Stops) = s + m + 1
    BY <2>2, <2>4, <2>5, SkipIs
  <2>7. QED
    BY <1>23, <2>1, <2>6 DEF UrlEnd
<1>25. SubSeq(text, s + 1, s + m) = url
  <2>1. s + m \in Nat /\ s <= s + m /\ s + m <= Len(text) /\ (s + m) - s = m
    BY <1>7, <1>17
  <2>2. PICK e \in Nat : e = s + m
    BY <2>1
  <2>3. s <= e /\ e <= Len(text) /\ e - s = m
    BY <2>1, <2>2
  <2>4. /\ SubSeq(text, s + 1, e) \in Seq(S) /\ Len(SubSeq(text, s + 1, e)) = e - s
         /\ \A i \in 1 .. e - s : SubSeq(text, s + 1, e)[i] = text[s + i]
    BY <2>3, CutIs
  <2>5. /\ SubSeq(text, s + 1, s + m) \in Seq(S) /\ Len(SubSeq(text, s + 1, s + m)) = (s + m) - s
        /\ \A i \in 1 .. (s + m) - s : SubSeq(text, s + 1, s + m)[i] = text[s + i]
    BY <2>2, <2>4
  <2>6. PICK v \in Seq(S) : v = SubSeq(text, s + 1, s + m)
    BY <2>5
  <2>7. Len(v) = m /\ \A i \in 1 .. m : v[i] = url[i]
    BY <1>18, <2>1, <2>5, <2>6
  <2>8. url \in Seq(S)
    BY SeqMonotonic
  <2>9. v = url
    BY <1>3, <2>7, <2>8, SeqEqual
  <2>10. QED
    BY <2>6, <2>9
<1>26. FoundUrl(text, first) = IF url[1] = "data:" THEN <<>> ELSE <<url>>
  <2>1. s + m + 1 > s + 1 /\ (s + m + 1) - 1 = s + m /\ 1 \in 1 .. m
    BY <1>3
  <2>2. text[s + 1] = url[1]
    BY <1>18, <2>1
  <2>3. QED
    BY <1>23, <1>24, <1>25, <2>1, <2>2 DEF FoundUrl
<1>27. first <= t
  BY <1>3, <1>7, <1>10, <1>14
<1>28. QED
  BY <1>2, <1>7, <1>8, <1>16, <1>17, <1>22, <1>24, <1>26, <1>27

(* The urls from each position on exist. *)
UrlsRule(f, text) ==
  f = [i \in 1 .. Len(text) + 1 |->
         IF NextText(text, i) > Len(text) THEN <<>>
         ELSE FoundUrl(text, NextText(text, i)) \o f[UrlEnd(text, NextText(text, i))]]

(* The scanner never goes back: what it skips, where a url begins and where
   it ends.                                                                *)
LEMMA SkipGoesOn ==
  ASSUME NEW text, Len(text) \in Nat, NEW p \in Nat, p <= Len(text) + 1, NEW Stops
  PROVE  Skip(text, p, Stops) \in p .. Len(text) + 1
<1> DEFINE T == {j \in p .. Len(text) : text[j] \in Stops} \cup {Len(text) + 1}
<1>1. T \subseteq Nat /\ T # {} /\ T \subseteq p .. Len(text) + 1
  OBVIOUS
<1> HIDE DEF T
<1>2. Min(T) \in T
  BY <1>1, Smallest
<1>3. QED
  BY <1>1, <1>2 DEF Skip, T

LEMMA NextTextGoesOn ==
  ASSUME NEW text, Len(text) \in Nat, NEW p \in Nat, p <= Len(text) + 1
  PROVE  NextText(text, p) \in p .. Len(text) + 1
<1>1. PICK x \in p .. Len(text) + 1 : x = Skip(text, p, {"url("})
  BY SkipGoesOn
<1> DEFINE T == {j \in x + 1 .. Len(text) : text[j] \notin Blank} \cup {Len(text) + 1}
<1>2. T \subseteq Nat /\ T # {} /\ T \subseteq p .. Len(text) + 1
  OBVIOUS
<1> HIDE DEF T
<1>3. Min(T) \in T
  BY <1>2, Smallest
<1>4. QED
  BY <1>1, <1>2, <1>3 DEF NextText, T

LEMMA UrlEndGoesOn ==
  ASSUME NEW text, Len(text) \in Nat, NEW p \in Nat, 1 <= p, NextText(text, p) <= Len(text),
         p <= Len(text) + 1
  PROVE  UrlEnd(text, NextText(text, p)) \in p + 1 .. Len(text) + 1
<1>1. PICK x \in p .. Len(text) + 1 : x = Skip(text, p, {"url("})
  BY SkipGoesOn
<1>2. NextText(text, p) \in x + 1 .. Len(text)
  <2> DEFINE T == {j \in x + 1 .. Len(text) : text[j] \notin Blank} \cup {Len(text) + 1}
  <2>1. T \subseteq Nat /\ T # {} /\ T \subseteq (x + 1 .. Len(text)) \cup {Len(text) + 1}
    OBVIOUS
  <2> HIDE DEF T
  <2>2. Min(T) \in T
    BY <2>1, Smallest
  <2>3. NextText(text, p) = Min(T)
    BY <1>1 DEF NextText, T
  <2>4. Min(T) \in x + 1 .. Len(text) \/ Min(T) = Len(text) + 1
    BY <2>1, <2>2
  <2>5. ~(Len(text) + 1 <= Len(text))
    OBVIOUS
  <2>6. QED
    BY <2>3, <2>4, <2>5
<1>3. PICK first \in x + 1 .. Len(text) : first = NextText(text, p)
  BY <1>2
<1>4. UrlStart(text, first) = first \/ UrlStart(text, first) = first + 1
  BY DEF UrlStart
<1>5. PICK s \in first .. first + 1 : s = UrlStart(text, first)
  BY <1>4
<1>6. s \in Nat /\ s <= Len(text) + 1
  OBVIOUS
<1>7. Skip(text, s, UrlEnds(text[first])) \in s .. Len(text) + 1
  BY <1>6, SkipGoesOn
<1>8. UrlEnd(text, first) \in s .. Len(text) + 1
  BY <1>5, <1>7 DEF UrlEnd
<1>9. QED
  BY <1>3, <1>8

(* So the urls from each position on exist. *)
LEMMA UrlsExist ==
  ASSUME NEW S, NEW text \in Seq(S)
  PROVE  \E f : UrlsRule(f, text) /\ \A i \in 1 .. Len(text) + 1 : f[i] \in Seq(Seq(S))
<1>1. PICK n \in Nat : n = Len(text)
  BY LenProperties
<1> DEFINE X == Seq(Seq(S))
           next(k) == NextText(text, n + 1 - k)
           jump == [k \in 1 .. n |-> IF next(k) > n THEN 0 ELSE n + 1 - UrlEnd(text, next(k))]
           step == [k \in 1 .. n |-> [x \in X |->
                      IF next(k) > n THEN <<>> ELSE FoundUrl(text, next(k)) \o x]]
<1>2. ASSUME NEW k \in 1 .. n
      PROVE  /\ next(k) \in 1 .. n + 1
             /\ next(k) <= n => UrlEnd(text, next(k)) \in n + 2 - k .. n + 1
  <2>1. PICK p \in Nat : p = n + 1 - k
    OBVIOUS
  <2>2. 1 <= p /\ p <= Len(text) + 1 /\ Len(text) \in Nat
    BY <1>1, <2>1
  <2>3. NextText(text, p) \in p .. Len(text) + 1
    BY <2>2, NextTextGoesOn
  <2>4. NextText(text, p) <= Len(text) => UrlEnd(text, NextText(text, p)) \in p + 1 .. Len(text) + 1
    BY <2>2, UrlEndGoesOn
  <2>5. QED
    BY <1>1, <2>1, <2>3, <2>4
<1>3. \A k \in 1 .. n : (IF next(k) > n THEN 0 ELSE n + 1 - UrlEnd(text, next(k))) \in 0 .. k - 1
  <2>1. ASSUME NEW k \in 1 .. n
        PROVE  (IF next(k) > n THEN 0 ELSE n + 1 - UrlEnd(text, next(k))) \in 0 .. k - 1
    <3>1. PICK nx \in 1 .. n + 1 : nx = next(k)
      BY <1>2
    <3>2. nx <= n => UrlEnd(text, nx) \in n + 2 - k .. n + 1
      BY <1>2, <3>1
    <3> HIDE DEF next
    <3>3. QED
      BY <3>1, <3>2
  <2>2. QED
    BY <2>1
<1>4. jump \in [1 .. n -> Nat] /\ \A k \in 1 .. n : jump[k] < k
  <2>1. \A k \in 1 .. n : jump[k] \in 0 .. k - 1
    BY <1>3
  <2>2. \A k \in 1 .. n : jump[k] \in Nat /\ jump[k] < k
    <3> HIDE DEF jump, step, next
    <3>1. QED
      BY <2>1
  <2>3. jump = [k \in 1 .. n |-> jump[k]]
    OBVIOUS
  <2> HIDE DEF jump
  <2>4. QED
    BY <2>2, <2>3
<1>5. \A first \in 1 .. n : UrlEnd(text, first) \in Nat => FoundUrl(text, first) \in X
  <2>1. ASSUME NEW first \in 1 .. n, UrlEnd(text, first) \in Nat PROVE FoundUrl(text, first) \in X
    <3>1. PICK s \in Nat : s = UrlStart(text, first)
      BY DEF UrlStart
    <3>2. PICK e \in Nat : e = UrlEnd(text, first)
      BY <2>1
    <3>3. CASE e > s /\ text[s] # "data:"
      <4>1. FoundUrl(text, first) = <<SubSeq(text, s, e - 1)>>
        BY <3>1, <3>2, <3>3 DEF FoundUrl
      <4>2. s >= 1 /\ e <= n + 1
        <5>1. s >= first
          BY <3>1 DEF UrlStart
        <5>2. e \in s .. Len(text) + 1
          <6>1. s <= Len(text) + 1 /\ Len(text) \in Nat
            BY <1>1, <3>1 DEF UrlStart
          <6>2. QED
            BY <3>1, <3>2, <6>1, SkipGoesOn DEF UrlEnd
        <5>3. QED
          BY <1>1, <5>1, <5>2
      <4>3. \A i \in s .. e - 1 : i \in 1 .. Len(text)
        BY <1>1, <4>2
      <4>4. \A i \in s .. e - 1 : text[i] \in S
        BY <4>3, ElementOfSeq
      <4>5. s \in Int /\ e - 1 \in Int
        OBVIOUS
      <4>6. SubSeq(text, s, e - 1) \in Seq(S)
        BY <4>4, <4>5, SubSeqProperties
      <4>7. QED
        BY <4>1, <4>6, OneIs
    <3>4. CASE ~(e > s /\ text[s] # "data:")
      <4>1. FoundUrl(text, first) = <<>>
        BY <3>1, <3>2, <3>4 DEF FoundUrl
      <4>2. QED
        BY <4>1, EmptySeq
    <3>5. QED
      BY <3>3, <3>4
  <2>2. QED
    BY <2>1
<1>6. step \in [1 .. n -> [X -> X]]
  <2>1. ASSUME NEW k \in 1 .. n, NEW x \in X
        PROVE  (IF next(k) > n THEN <<>> ELSE FoundUrl(text, next(k)) \o x) \in X
    <3>1. CASE next(k) > n
      BY <3>1, EmptySeq
    <3>2. CASE ~(next(k) > n)
      <4>1. next(k) \in 1 .. n /\ UrlEnd(text, next(k)) \in Nat
        <5>1. PICK nx \in 1 .. n + 1 : nx = next(k)
          BY <1>2
        <5>2. nx <= n => UrlEnd(text, nx) \in n + 2 - k .. n + 1
          BY <1>2, <5>1
        <5>3. ~(nx > n)
          BY <3>2, <5>1
        <5> HIDE DEF next
        <5>4. QED
          BY <5>1, <5>2, <5>3
      <4>2. FoundUrl(text, next(k)) \in X
        <5> HIDE DEF next
        <5>1. QED
          BY <1>5, <4>1
      <4> HIDE DEF next
      <4>3. FoundUrl(text, next(k)) \o x \in X
        BY <4>2, ConcatIs
      <4>4. QED
        BY <3>2, <4>3
    <3>3. QED
      BY <3>1, <3>2
  <2> HIDE DEF next
  <2>2. QED
    BY <2>1
<1>7. <<>> \in X
  BY EmptySeq
<1>8. PICK g \in [0 .. n -> X] : JumpRule(g, n, <<>>, jump, step)
  <2> HIDE DEF jump, step, X
  <2>1. QED
    BY <1>4, <1>6, <1>7, JumpExists
<1>9. /\ g[0] = <<>>
      /\ \A k \in 1 .. n : g[k] = IF next(k) > n THEN <<>>
                                  ELSE FoundUrl(text, next(k)) \o g[n + 1 - UrlEnd(text, next(k))]
  <2>1. ASSUME NEW k \in 1 .. n
        PROVE  g[k] = IF next(k) > n THEN <<>>
                      ELSE FoundUrl(text, next(k)) \o g[n + 1 - UrlEnd(text, next(k))]
    <3>1. g[k] = step[k][g[jump[k]]]
      <4> HIDE DEF jump, step
      <4>1. QED
        BY <1>8 DEF JumpRule
    <3>2. jump[k] \in 0 .. n
      <4> HIDE DEF jump
      <4>1. jump[k] \in Nat /\ jump[k] < k
        BY <1>4
      <4>2. QED
        BY <4>1
    <3>3. g[jump[k]] \in X
      <4> HIDE DEF jump, X
      <4>1. QED
        BY <3>2
    <3>4. step[k][g[jump[k]]] = IF next(k) > n THEN <<>> ELSE FoundUrl(text, next(k)) \o g[jump[k]]
      <4> HIDE DEF jump, next, X
      <4>1. QED
        BY <3>3
    <3>5. ~(next(k) > n) => jump[k] = n + 1 - UrlEnd(text, next(k))
      <4> HIDE DEF next
      <4>1. QED
        OBVIOUS
    <3> HIDE DEF jump, step, next
    <3>6. QED
      BY <3>1, <3>4, <3>5
  <2>2. g[0] = <<>>
    <3> HIDE DEF jump, step
    <3>1. QED
      BY <1>8 DEF JumpRule
  <2> HIDE DEF next
  <2>3. QED
    BY <2>1, <2>2
<1> HIDE DEF jump, step, X
<1> DEFINE f == [i \in 1 .. n + 1 |-> g[n + 1 - i]]
<1>10. \A i \in 1 .. n + 1 : f[i] \in X
  <2>1. \A i \in 1 .. n + 1 : n + 1 - i \in 0 .. n
    OBVIOUS
  <2>2. QED
    BY <2>1
<1>11. ASSUME NEW i \in 1 .. n + 1
       PROVE  f[i] = IF NextText(text, i) > n THEN <<>>
                     ELSE FoundUrl(text, NextText(text, i)) \o f[UrlEnd(text, NextText(text, i))]
  <2>1. CASE i = n + 1
    <3>1. NextText(text, n + 1) \in n + 1 .. n + 1
      <4>1. PICK p \in Nat : p = n + 1
        OBVIOUS
      <4>2. Len(text) \in Nat /\ p <= Len(text) + 1
        BY <1>1, <4>1
      <4>3. NextText(text, p) \in p .. Len(text) + 1
        BY <4>2, NextTextGoesOn
      <4>4. QED
        BY <1>1, <4>1, <4>3
    <3>2. f[n + 1] = g[0]
      OBVIOUS
    <3>3. NextText(text, n + 1) > n
      BY <3>1
    <3>4. QED
      BY <1>9, <2>1, <3>2, <3>3
  <2>2. CASE i # n + 1
    <3>1. PICK k \in 1 .. n : k = n + 1 - i
      BY <2>2
    <3>2. n + 1 - k = i
      BY <3>1
    <3>3. f[i] = g[k] /\ next(k) = NextText(text, i)
      BY <3>1, <3>2
    <3>4. PICK nx \in 1 .. n + 1 : nx = NextText(text, i)
      BY <1>2, <3>3
    <3>5. nx <= n => UrlEnd(text, nx) \in n + 2 - k .. n + 1
      BY <1>2, <3>3, <3>4
    <3>6. g[k] = IF nx > n THEN <<>> ELSE FoundUrl(text, nx) \o g[n + 1 - UrlEnd(text, nx)]
      BY <1>9, <3>3, <3>4
    <3> HIDE DEF next
    <3>7. nx <= n => UrlEnd(text, nx) \in 1 .. n + 1
      BY <3>5
    <3>8. nx <= n => f[UrlEnd(text, nx)] = g[n + 1 - UrlEnd(text, nx)]
      BY <3>7
    <3> HIDE DEF f
    <3>9. nx > n \/ nx <= n
      OBVIOUS
    <3>10. QED
      BY <3>3, <3>4, <3>6, <3>8, <3>9
  <2>3. QED
    BY <2>1, <2>2
<1>12. UrlsRule(f, text)
  <2>1. f = [i \in 1 .. n + 1 |-> IF NextText(text, i) > n THEN <<>>
                     ELSE FoundUrl(text, NextText(text, i)) \o f[UrlEnd(text, NextText(text, i))]]
    BY <1>11
  <2> HIDE DEF f
  <2>2. QED
    BY <1>1, <2>1 DEF UrlsRule
<1>13. QED
  <2> HIDE DEF f
  <2>1. QED
    BY <1>1, <1>10, <1>12 DEF X

(* What is made from the end is what is made from the beginning. *)
LEMMA RestIsFlat ==
  ASSUME NEW S, NEW items \in Seq(Seq(S)), NEW rest,
         \A i \in 1 .. Len(items) : rest[i - 1] = items[i] \o rest[i], rest[Len(items)] = <<>>
  PROVE  FlattenSeq(items) = rest[0]
<1>1. PICK n \in Nat : n = Len(items)
  BY LenProperties
<1>2. \A i \in 1 .. n : items[i] \in Seq(S) /\ rest[i - 1] = items[i] \o rest[i]
  BY <1>1, ElementOfSeq
<1>3. rest[n] = <<>> /\ <<>> \in Seq(S)
  BY <1>1, EmptySeq
<1>4. CASE n = 0
  <2>1. items = <<>>
    BY <1>1, <1>4, EmptySeq
  <2>2. QED
    BY <1>3, <1>4, <2>1, FlatEmpty
<1>5. CASE n # 0
  <2>1. items # <<>>
    BY <1>1, <1>5, EmptySeq
  <2>2. \E f : /\ FlattenSeq(items) = f[Len(items)] /\ f[1] = items[1]
               /\ \A i \in 1 .. Len(items) : f[i] \in Seq(S)
               /\ \A i \in 2 .. Len(items) : f[i] = f[i - 1] \o items[i]
    BY <2>1, FlatIs
  <2>3. PICK f : /\ FlattenSeq(items) = f[n] /\ f[1] = items[1]
                 /\ \A i \in 1 .. n : f[i] \in Seq(S)
                 /\ \A i \in 2 .. n : f[i] = f[i - 1] \o items[i]
    BY <1>1, <2>2
  <2>4. \A i \in 0 .. n : rest[i] \in Seq(S)
    <3> DEFINE bad == {k \in 0 .. n : rest[n - k] \notin Seq(S)}
    <3> SUFFICES ASSUME bad # {} PROVE FALSE
      <4>1. ASSUME NEW i \in 0 .. n, rest[i] \notin Seq(S) PROVE bad # {}
        <5>1. n - i \in 0 .. n /\ n - (n - i) = i
          OBVIOUS
        <5>2. QED
          BY <4>1, <5>1
      <4>2. QED
        BY <4>1
    <3>1. PICK k : k = Min(bad)
      OBVIOUS
    <3>2. k \in bad /\ \A j \in bad : k <= j
      <4>1. bad \subseteq Nat
        OBVIOUS
      <4>2. QED
        BY <3>1, <4>1, Smallest
    <3>3. k \in 0 .. n /\ rest[n - k] \notin Seq(S)
      BY <3>2
    <3>4. k # 0
      <4>1. n - 0 = n
        OBVIOUS
      <4>2. QED
        BY <1>3, <3>3, <4>1
    <3>5. PICK i \in 1 .. n : i = n - k + 1
      BY <3>3, <3>4
    <3>6. k - 1 \in 0 .. n /\ ~(k <= k - 1) /\ n - (k - 1) = i /\ i - 1 = n - k
      BY <3>3, <3>4, <3>5
    <3>7. rest[i] \in Seq(S)
      BY <3>2, <3>6
    <3> HIDE DEF bad
    <3>8. items[i] \in Seq(S) /\ rest[i - 1] = items[i] \o rest[i]
      BY <1>2
    <3>9. rest[i - 1] \in Seq(S)
      BY <3>7, <3>8, ConcatIs
    <3>10. QED
      BY <3>3, <3>6, <3>9
  <2> DEFINE wrong == {i \in 1 .. n : f[i] \o rest[i] # rest[0]}
  <2>5. wrong = {}
    <3> SUFFICES ASSUME wrong # {} PROVE FALSE
      OBVIOUS
    <3>1. PICK i : i = Min(wrong)
      OBVIOUS
    <3>2. i \in wrong /\ \A j \in wrong : i <= j
      <4>1. wrong \subseteq 1 .. n
        OBVIOUS
      <4> HIDE DEF wrong
      <4>2. wrong \subseteq Nat
        BY <4>1
      <4>3. QED
        BY <3>1, <4>2, Smallest
    <3>3. i \in 1 .. n /\ f[i] \o rest[i] # rest[0]
      BY <3>2
    <3>4. i # 1
      <4>1. 1 \in 1 .. n /\ 1 - 1 = 0
        BY <3>3
      <4>2. rest[0] = items[1] \o rest[1]
        BY <1>2, <4>1
      <4>3. QED
        BY <2>3, <3>3, <4>2
    <3>5. i \in 2 .. n /\ i - 1 \in 1 .. n /\ ~(i <= i - 1)
      BY <3>3, <3>4
    <3>6. f[i - 1] \o rest[i - 1] = rest[0]
      BY <3>2, <3>5
    <3> HIDE DEF wrong
    <3>7. f[i] = f[i - 1] \o items[i] /\ rest[i - 1] = items[i] \o rest[i]
      BY <1>2, <2>3, <3>3, <3>5
    <3>8. PICK a \in Seq(S) : a = f[i - 1]
      BY <2>3, <3>5
    <3>9. PICK b \in Seq(S) : b = items[i]
      BY <1>2, <3>3
    <3>10. i \in 0 .. n
      BY <3>3
    <3>11. PICK c \in Seq(S) : c = rest[i]
      BY <2>4, <3>10
    <3>12. (a \o b) \o c = a \o (b \o c)
      BY ConcatAssociative
    <3>13. (f[i - 1] \o items[i]) \o rest[i] = f[i - 1] \o (items[i] \o rest[i])
      BY <3>8, <3>9, <3>11, <3>12
    <3>14. QED
      BY <3>3, <3>6, <3>7, <3>13
  <2>6. n \in 1 .. n
    BY <1>5
  <2>7. f[n] \o <<>> = rest[0]
    BY <1>3, <2>5, <2>6
  <2> HIDE DEF wrong
  <2>8. f[n] \o <<>> = f[n]
    BY <2>3, <2>6, ConcatEmptySeq
  <2>9. QED
    BY <2>3, <2>7, <2>8
<1>6. QED
  BY <1>4, <1>5

LEMMA LongUse ==
  ASSUME NEW b \in Nat, NEW q \in Nat, NEW m \in Nat, m # 0
  PROVE  2 + b + q + m + 1 \in Nat /\ 2 + b + q + m + 1 >= 4
  OBVIOUS

(* The use of a url that begins after place o of a text, looked for from place p. *)
UseAt(S, text, P, u, o, p) ==
  /\ text \in Seq(S) /\ IsUse(P, u) /\ WellWritten(u) /\ o \in Nat /\ p \in Nat
  /\ o + Len(P) <= Len(text) /\ \A k \in 1 .. Len(P) : text[o + k] = P[k]
  /\ p <= o + 2 /\ \A j \in p .. o + 1 : text[j] # "url("

UseRead(text, u, o, p) ==
  /\ NextText(text, p) <= Len(text)
  /\ UrlEnd(text, NextText(text, p)) = o + After(u)
  /\ FoundUrl(text, NextText(text, p)) = IF u.url[1] = "data:" THEN <<>> ELSE <<u.url>>

(* A use of a url is read from any place before it: it is found, whole, and
   the scanner is behind it.                                               *)
LEMMA UseIsRead ==
  ASSUME NEW Char, NEW S, NEW text, NEW P, NEW u, NEW o, NEW p,
         Plain(Char), Char \subseteq S, u \in Use(Char), UseAt(S, text, P, u, o, p)
  PROVE  UseRead(text, u, o, p)
<1>1. text \in Seq(S) /\ o \in Nat /\ p \in Nat
  BY DEF UseAt
<1>2. /\ IsUse(P, u) /\ WellWritten(u) /\ o + Len(P) <= Len(text) /\ p <= o + 2
      /\ \A k \in 1 .. Len(P) : text[o + k] = P[k]
      /\ \A j \in p .. o + 1 : text[j] # "url("
  BY DEF UseAt
<1>3. /\ NextText(text, p) <= Len(text) /\ NextText(text, p) \in Nat
      /\ UrlEnd(text, NextText(text, p)) = o + After(u)
      /\ FoundUrl(text, NextText(text, p)) = IF u.url[1] = "data:" THEN <<>> ELSE <<u.url>>
  BY <1>1, <1>2, UseFound, SMTT(40)
<1>4. QED
  BY <1>3 DEF UseRead

(* The stylesheets that are looked at. *)
Style(Char, uses) == uses \in Seq(Use(Char)) /\ \A u \in ToSet(uses) : WellWritten(u)

(* The urls of a text of uses are those of the uses, one after the other. *)
LEMMA UrlsFound ==
  ASSUME NEW Char, Plain(Char), NEW uses, Style(Char, uses)
  PROVE  ParseCSS(StyleText(uses))
           = FlattenSeq([i \in DOMAIN uses |->
               IF uses[i].url[1] = "data:" THEN <<>> ELSE <<uses[i].url>>])
<1> DEFINE S == Char \cup {"x", "url(", " ", ")"} \cup Quotes
<1>1. Char \subseteq S
  OBVIOUS
<1>2. \A u \in Use(Char) : UseText(u) \in Seq(S) /\ IsUse(UseText(u), u)
  BY UseIs
<1> HIDE DEF S
<1>3. uses \in Seq(Use(Char)) /\ \A u \in ToSet(uses) : WellWritten(u)
  BY DEF Style
<1>4. PICK n \in Nat : n = Len(uses) /\ DOMAIN uses = 1 .. n
  BY <1>3, LenProperties
<1>5. \A i \in 1 .. n : uses[i] \in Use(Char) /\ WellWritten(uses[i])
  <2>1. ASSUME NEW i \in 1 .. n PROVE uses[i] \in Use(Char) /\ uses[i] \in ToSet(uses)
    BY <1>4, <1>3, ElementOfSeq DEF ToSet
  <2>2. QED
    BY <1>3, <2>1
<1>6. PICK pieces : pieces = [i \in 1 .. n |-> UseText(uses[i])]
  OBVIOUS
<1>7. pieces \in Seq(Seq(S)) /\ Len(pieces) = n /\ \A i \in 1 .. n : pieces[i] = UseText(uses[i])
  <2>1. \A i \in 1 .. n : UseText(uses[i]) \in Seq(S)
    BY <1>2, <1>5
  <2>2. pieces \in [1 .. n -> Seq(S)]
    BY <1>6, <2>1
  <2>3. QED
    BY <1>6, <2>2
<1>8. PICK text : text = FlattenSeq(pieces) /\ text \in Seq(S)
  BY <1>7, FlatPlaces
<1>9. StyleText(uses) = text
  BY <1>4, <1>6, <1>8 DEF StyleText
<1>10. PICK off : Placed(off, pieces, text)
  BY <1>7, <1>8, FlatPlaces
<1>11. PICK L \in Nat : L = Len(text)
  BY <1>8, LenProperties
<1>12. off \in [0 .. n -> Nat] /\ off[0] = 0 /\ L = off[n]
  BY <1>7, <1>10, <1>11 DEF Placed
<1>13. \A i \in 1 .. n : /\ off[i] = off[i - 1] + Len(pieces[i]) /\ off[i] <= L
                         /\ \A k \in 1 .. Len(pieces[i]) : text[off[i - 1] + k] = pieces[i][k]
  BY <1>7, <1>10, <1>11 DEF Placed
<1>14. \A i \in 1 .. n : IsUse(pieces[i], uses[i]) /\ Len(pieces[i]) \in Nat /\ After(uses[i]) <= Len(pieces[i])
  <2>1. ASSUME NEW i \in 1 .. n PROVE IsUse(pieces[i], uses[i])
    BY <1>2, <1>5, <1>7
  <2>2. QED
    BY <2>1 DEF IsUse
<1>15. \A i \in 1 .. n : After(uses[i]) \in Nat /\ After(uses[i]) >= 4
  <2>1. ASSUME NEW i \in 1 .. n PROVE After(uses[i]) \in Nat /\ After(uses[i]) >= 4
    <3>1. PICK u \in Use(Char) : u = uses[i]
      BY <1>5
    <3>2. u.blank \in Seq({" "}) /\ u.quote \in {<<>>, <<"q">>, <<"'">>} /\ u.url \in Seq(Char) /\ u.url # <<>>
      BY DEF Use
    <3>3. Len(u.blank) \in Nat
      BY <3>2, LenProperties
    <3>4. Len(u.url) \in Nat /\ Len(u.url) # 0
      BY <3>2, EmptySeq
    <3>5. Len(u.quote) \in Nat
      <4>1. "q" \in Quotes /\ "'" \in Quotes
        BY DEF Quotes
      <4>2. u.quote \in Seq(Quotes)
        <5>1. <<"q">> \in Seq(Quotes) /\ <<"'">> \in Seq(Quotes)
          BY <4>1, OneIs
        <5>2. <<>> \in Seq(Quotes)
          BY EmptySeq
        <5>3. QED
          BY <3>2, <5>1, <5>2
      <4>3. QED
        BY <4>2, LenProperties
    <3>6. PICK b \in Nat : b = Len(u.blank)
      BY <3>3
    <3>7. PICK m \in Nat : m = Len(u.url) /\ m # 0
      BY <3>4
    <3>8. PICK q \in Nat : q = Len(u.quote)
      BY <3>5
    <3>9. 2 + b + q + m + 1 \in Nat /\ 2 + b + q + m + 1 >= 4
      BY <3>7, LongUse
    <3>10. After(u) = 2 + Len(u.blank) + Len(u.quote) + Len(u.url) + 1
      BY DEF After, Before
    <3>11. QED
      BY <3>1, <3>6, <3>10, <3>7, <3>8, <3>9
  <2>2. QED
    BY <2>1
(* The positions from which the urls are looked for. *)
<1> DEFINE pos == [i \in 0 .. n |-> IF i = 0 THEN 1 ELSE off[i - 1] + After(uses[i])]
           item(i) == IF uses[i].url[1] = "data:" THEN <<>> ELSE <<uses[i].url>>
           Free(i) == /\ pos[i] \in Nat /\ pos[i] >= 1 /\ pos[i] <= off[i] + 1
                      /\ \A j \in pos[i] .. off[i] : text[j] # "url("
<1>16. ASSUME NEW i \in 0 .. n PROVE Free(i)
  <2>1. CASE i = 0
    <3>1. pos[0] = 1
      OBVIOUS
    <3>2. \A j \in 1 .. 0 : FALSE
      OBVIOUS
    <3> HIDE DEF pos
    <3>3. QED
      BY <1>12, <2>1, <3>1, <3>2
  <2>2. CASE i # 0
    <3>1. i \in 1 .. n /\ i - 1 \in 0 .. n
      BY <2>2
    <3>2. pos[i] = off[i - 1] + After(uses[i])
      BY <2>2
    <3> HIDE DEF pos
    <3>3. PICK o \in Nat : o = off[i - 1]
      BY <1>12, <3>1
    <3>4. PICK a \in Nat : a = After(uses[i]) /\ a >= 4
      BY <1>15, <3>1
    <3>5. PICK l \in Nat : l = Len(pieces[i]) /\ a <= l
      BY <1>14, <3>1, <3>4
    <3>6. off[i] = o + l /\ pos[i] = o + a
      BY <1>13, <3>1, <3>2, <3>3, <3>4, <3>5
    <3>7. \A k \in 1 .. l : text[o + k] = pieces[i][k]
      BY <1>13, <3>1, <3>3, <3>5
    <3>8. \A k \in 1 .. l : k # 2 => pieces[i][k] # "url("
      BY <1>14, <3>1, <3>5 DEF IsUse
    <3>9. ASSUME NEW j \in o + a .. o + l PROVE text[j] # "url("
      <4>1. j - o \in 1 .. l /\ j - o # 2 /\ o + (j - o) = j
        BY <3>4
      <4>2. QED
        BY <3>7, <3>8, <4>1
    <3>10. o + a \in Nat /\ o + a >= 1 /\ o + a <= o + l + 1
      BY <3>4, <3>5
    <3>11. QED
      BY <3>6, <3>9, <3>10
  <2>3. QED
    BY <2>1, <2>2
<1>17. ASSUME NEW i \in 1 .. n
       PROVE  /\ NextText(text, pos[i - 1]) <= L
              /\ UrlEnd(text, NextText(text, pos[i - 1])) = pos[i]
              /\ FoundUrl(text, NextText(text, pos[i - 1])) = item(i)
  <2>1. PICK u \in Use(Char) : u = uses[i] /\ WellWritten(u)
    BY <1>5
  <2>2. PICK P : P = pieces[i]
    OBVIOUS
  <2>3. i - 1 \in 0 .. n /\ i # 0
    OBVIOUS
  <2>4. PICK o \in Nat : o = off[i - 1]
    BY <1>12, <2>3
  <2>5. PICK p \in Nat : p = pos[i - 1]
    BY <1>16, <2>3
  <2>6. pos[i] = o + After(u)
    BY <2>1, <2>3, <2>4
  <2>7. p >= 1 /\ p <= o + 1 /\ \A j \in p .. o : text[j] # "url("
    BY <1>16, <2>3, <2>4, <2>5
  <2> HIDE DEF pos
  <2>8. /\ IsUse(P, u) /\ Len(P) \in Nat /\ off[i] = o + Len(P) /\ off[i] <= L
        /\ \A k \in 1 .. Len(P) : text[o + k] = P[k]
    BY <1>13, <1>14, <2>1, <2>2, <2>4
  <2>9. text[o + 1] # "url("
    <3>1. After(u) <= Len(P) /\ After(u) \in Nat /\ After(u) >= 4
      BY <1>14, <1>15, <2>1, <2>2
    <3>2. 1 \in 1 .. Len(P) /\ 1 # 2
      BY <2>8, <3>1
    <3>3. P[1] # "url("
      BY <2>8, <3>2 DEF IsUse
    <3>4. QED
      BY <2>8, <3>2, <3>3
  <2>10. \A j \in p .. o + 1 : text[j] # "url("
    <3>1. \A j \in p .. o + 1 : j \in p .. o \/ j = o + 1
      OBVIOUS
    <3>2. QED
      BY <2>7, <2>9, <3>1
  <2>11. o + Len(P) <= Len(text) /\ p <= o + 2
    BY <1>11, <2>7, <2>8
  <2>12. /\ NextText(text, p) <= Len(text)
         /\ UrlEnd(text, NextText(text, p)) = o + After(u)
         /\ FoundUrl(text, NextText(text, p)) = IF u.url[1] = "data:" THEN <<>> ELSE <<u.url>>
    <3> HIDE DEF item, Free
    <3>1. Char \subseteq S
      BY <1>1
    <3>2. IsUse(P, u)
      BY <2>8
    <3>3. o + Len(P) <= Len(text)
      BY <2>11
    <3>4. \A k \in 1 .. Len(P) : text[o + k] = P[k]
      BY <2>8
    <3>5. p <= o + 2
      BY <2>11
    <3>6. \A j \in p .. o + 1 : text[j] # "url("
      BY <2>10
    <3>7. WellWritten(u)
      BY <2>1
    <3>8. UseAt(S, text, P, u, o, p)
      BY <1>8, <3>2, <3>3, <3>4, <3>5, <3>6, <3>7 DEF UseAt
    <3>9. UseRead(text, u, o, p)
      BY <3>1, <3>8, UseIsRead
    <3>10. QED
      BY <3>9 DEF UseRead
  <2>13. QED
    BY <1>11, <2>1, <2>5, <2>6, <2>12
<1>18. NextText(text, pos[n]) > L
  <2>1. n \in 0 .. n
    OBVIOUS
  <2>2. PICK p \in Nat : p = pos[n]
    BY <1>16, <2>1
  <2>3. \A j \in p .. Len(text) : text[j] # "url("
    BY <1>11, <1>12, <1>16, <2>1, <2>2
  <2>4. Len(text) \in Nat
    BY <1>11
  <2>5. NextText(text, p) = Len(text) + 1
    BY <2>3, <2>4, NoNextText
  <2> HIDE DEF pos
  <2>6. QED
    BY <1>11, <2>2, <2>5
<1>19. PICK urls : urls = CHOOSE f : UrlsRule(f, text)
  OBVIOUS
<1>20. UrlsRule(urls, text)
  <2>1. \E f : UrlsRule(f, text)
    BY <1>8, UrlsExist
  <2>2. QED
    BY <1>19, <2>1
<1>21. ParseCSS(text) = urls[1]
  BY <1>19, Zenon DEF ParseCSS, UrlsRule
<1>22. \A i \in 1 .. L + 1 :
         urls[i] = IF NextText(text, i) > L THEN <<>>
                   ELSE FoundUrl(text, NextText(text, i)) \o urls[UrlEnd(text, NextText(text, i))]
  <2>1. urls = [i \in 1 .. L + 1 |-> IF NextText(text, i) > L THEN <<>>
                   ELSE FoundUrl(text, NextText(text, i)) \o urls[UrlEnd(text, NextText(text, i))]]
    BY <1>11, <1>20 DEF UrlsRule
  <2> HIDE DEF pos, item
  <2>2. QED
    BY <2>1
<1>23. \A i \in 0 .. n : pos[i] \in 1 .. L + 1
  <2>1. ASSUME NEW i \in 0 .. n PROVE pos[i] \in 1 .. L + 1
    <3>1. off[i] <= L /\ off[i] \in Nat
      <4> HIDE DEF pos
      <4>1. CASE i = 0
        BY <1>12, <4>1
      <4>2. CASE i # 0
        BY <1>12, <1>13, <4>2
      <4>3. QED
        BY <4>1, <4>2
    <3>2. pos[i] \in Nat /\ pos[i] >= 1 /\ pos[i] <= off[i] + 1
      BY <1>16
    <3> HIDE DEF pos
    <3>3. QED
      BY <3>1, <3>2
  <2>2. QED
    BY <2>1
<1>24. \A i \in 1 .. n : urls[pos[i - 1]] = item(i) \o urls[pos[i]]
  <2> HIDE DEF pos, item
  <2>1. ASSUME NEW i \in 1 .. n PROVE urls[pos[i - 1]] = item(i) \o urls[pos[i]]
    <3>1. pos[i - 1] \in 1 .. L + 1
      BY <1>23
    <3>2. PICK x : x = NextText(text, pos[i - 1])
      OBVIOUS
    <3>3. x <= L /\ UrlEnd(text, x) = pos[i] /\ FoundUrl(text, x) = item(i)
      BY <1>17, <3>2
    <3>4. x \in Nat
      <4>1. PICK p \in Nat : p = pos[i - 1]
        BY <3>1
      <4>2. Len(text) \in Nat /\ p <= Len(text) + 1
        BY <1>11, <3>1, <4>1
      <4>3. NextText(text, p) \in p .. Len(text) + 1
        BY <4>2, NextTextGoesOn
      <4>4. QED
        BY <3>2, <4>1, <4>2, <4>3
    <3>5. ~(x > L)
      BY <3>3, <3>4
    <3>6. QED
      BY <1>22, <3>1, <3>2, <3>3, <3>5
  <2>2. QED
    BY <2>1
<1>25. urls[pos[n]] = <<>>
  <2> HIDE DEF pos
  <2>1. pos[n] \in 1 .. L + 1
    BY <1>23
  <2>2. QED
    BY <1>18, <1>22, <2>1
<1>26. urls[pos[0]] = urls[1]
  OBVIOUS
<1>27. \A i \in 1 .. n : item(i) \in Seq(Seq(Char))
  <2>1. ASSUME NEW i \in 1 .. n PROVE item(i) \in Seq(Seq(Char))
    <3>1. uses[i].url \in Seq(Char)
      BY <1>5 DEF Use
    <3>2. <<>> \in Seq(Seq(Char)) /\ <<uses[i].url>> \in Seq(Seq(Char))
      BY <3>1, OneIs, EmptySeq
    <3>3. QED
      BY <3>2
  <2>2. QED
    BY <2>1
<1>28. PICK items : items = [i \in 1 .. n |-> item(i)]
  OBVIOUS
<1>29. PICK rest : rest = [i \in 0 .. n |-> urls[pos[i]]]
  OBVIOUS
<1>30. /\ items \in Seq(Seq(Seq(Char))) /\ Len(items) = n
       /\ \A i \in 1 .. n : rest[i - 1] = items[i] \o rest[i]
       /\ rest[n] = <<>> /\ rest[0] = urls[1]
  <2> HIDE DEF pos, item
  <2>1. items \in Seq(Seq(Seq(Char))) /\ Len(items) = n
    BY <1>27, <1>28
  <2>2. n \in 0 .. n /\ 0 \in 0 .. n
    OBVIOUS
  <2>3. rest[n] = <<>> /\ rest[0] = urls[1]
    BY <1>25, <1>26, <1>29, <2>2
  <2>4. \A i \in 1 .. n : i \in 0 .. n /\ i - 1 \in 0 .. n
    OBVIOUS
  <2>5. \A i \in 1 .. n : rest[i - 1] = items[i] \o rest[i]
    BY <1>24, <1>28, <1>29, <2>4
  <2>6. QED
    BY <2>1, <2>3, <2>5
<1>31. FlattenSeq(items) = urls[1]
  <2>1. items \in Seq(Seq(Seq(Char))) /\ \A i \in 1 .. Len(items) : rest[i - 1] = items[i] \o rest[i]
    BY <1>30
  <2>2. rest[Len(items)] = <<>>
    BY <1>30
  <2>3. FlattenSeq(items) = rest[0]
    BY <2>1, <2>2, RestIsFlat
  <2>4. QED
    BY <1>30, <2>3
<1>32. items = [i \in DOMAIN uses |-> IF uses[i].url[1] = "data:" THEN <<>> ELSE <<uses[i].url>>]
  BY <1>4, <1>28
<1>33. QED
  <2> HIDE DEF pos, item
  <2>1. QED
    BY <1>9, <1>21, <1>31, <1>32

(* All urls of every stylesheet are found. *)
LEMMA CssUrlsAlwaysFound ==
  ASSUME NEW Char, Plain(Char), subject = "style" => input \in Seq(Use(Char))
  PROVE  CssUrlsAreFound
  BY UrlsFound DEF CssUrlsAreFound, Style

(* What the copy of a site is made of: urls without a query, whose names are of
   any words, and stylesheets.                                             *)
CopyInputs(Word, Char) ==
  /\ subject = "files" => input \in [one : SiteUrl(Word), other : SiteUrl(Word)]
  /\ subject = "links" =>
       input \in [start : SiteUrl(Word), page : SiteUrl(Word),
                  ref : [kind : {"full", "path", "relative"}, url : SiteUrl(Word)]]
  /\ subject = "style" => input \in Seq(Use(Char))

(* The copy of a site can be browsed, whatever the words in its urls, their
   number and the text of its stylesheets: a converted link leads to the file
   of its target (makeRelative), no file is where a directory must be
   (urlPathToLocal), each link that is followed is converted (extractLink,
   convertHTML), and each url of a stylesheet is found, whole and in order
   (ParseCSS).                                                             *)
THEOREM LocalCopyAlwaysHolds ==
  ASSUME NEW Word, {"index", "html"} \subseteq Word, NEW Char, Plain(Char),
         CopyInputs(Word, Char)
  PROVE  LocalCopyHolds
<1>1. subject = "files" => input \in [one : SiteUrl(Word), other : SiteUrl(Word)]
  BY DEF CopyInputs
<1>2. subject = "links" =>
        input \in [start : SiteUrl(Word), page : SiteUrl(Word),
                   ref : [kind : {"full", "path", "relative"}, url : SiteUrl(Word)]]
  BY DEF CopyInputs
<1>3. subject = "style" => input \in Seq(Use(Char))
  BY DEF CopyInputs
<1>4. NoFileIsADirectory
  BY <1>1, NeverADirectory
<1>5. LinksLand
  BY <1>2, LinksAlwaysLand
<1>6. CssUrlsAreFound
  BY <1>3, CssUrlsAlwaysFound
<1>7. QED
  BY <1>4, <1>5, <1>6, FollowedAlwaysConverted DEF LocalCopyHolds
=============================================================================
