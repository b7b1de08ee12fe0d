------------------------------ MODULE InputCases ------------------------------
(***************************************************************************)
(* The functions of the program that keep no state, each on all inputs up  *)
(* to a size.  A behaviour is one input of one function, its subject, and  *)
(* every property says of the inputs of its subject what the function      *)
(* promises.                                                               *)
(***************************************************************************)
EXTENDS RobotsRules, LocalPaths, PageLinks, CrawlFilter, MetalinkFile,
        ChecksumText, Netrc, Retrier, FileNames

CONSTANT MaxLength   \* bound: the length of a path, a rule, a file or a list

VARIABLES
  subject,  \* what the input is for
  input

inputVars == <<subject, input>>

-----------------------------------------------------------------------------
(* robots.txt *)

PathCases == [path : BoundedSeq({"a", "b"}, MaxLength),
              rule : BoundedSeq({"a", "b", "*", "$"}, MaxLength) \ {<<>>}]

(* What a rule says: a glob, open at its end unless a "$" closes it. *)
Covers(rule, path) ==
  IF Last(rule) = "$" THEN simpleGlobMatch(path, Front(rule))
  ELSE simpleGlobMatch(path, Append(rule, "*"))

(* The matcher of robots rules, which takes the first place for each part, and
   the backtracking one of the filter agree; of a rule with both a star and a
   "$" the former may cover more.                                          *)
GlobsAgree ==
  subject = "glob" =>
    /\ Covers(input.rule, input.path) => matchesRobotsPath(input.path, input.rule)
    /\ matchesRobotsPath(input.path, input.rule) =>
         Covers(input.rule, input.path) \/ (Last(input.rule) = "$" /\ Contains(input.rule, "*"))

RuleCases ==
  [path  : {<<"a">>, <<"a", "b">>, <<"b", "b">>},
   rules : BoundedSeq([path : {<<"a">>, <<"b">>, <<"a", "b">>, <<"*", "b">>}, allowed : BOOLEAN],
                      MaxLength - 1)]

(* The order of the rules decides only between rules of the same length that
   contradict each other.                                                  *)
VerdictIgnoresOrder ==
  subject = "rules" =>
    LET matching == {r \in ToSet(input.rules) : matchesRobotsPath(input.path, r.path)}
        longest  == {r \in matching : \A q \in matching : Len(q.path) <= Len(r.path)}
    IN checkRules(input.path, input.rules) # checkRules(input.path, Reverse(input.rules))
         => {r.allowed : r \in longest} = BOOLEAN

(* The longest of the rules that match decides, of several the first; without
   any the path is allowed.                                                *)
LongestDecides ==
  subject = "rules" =>
    LET matching == {i \in DOMAIN input.rules : matchesRobotsPath(input.path, input.rules[i].path)}
        size(i)  == Len(input.rules[i].path)
        verdict  == checkRules(input.path, input.rules)
    IN IF matching = {} THEN verdict = TRUE
       ELSE \E i \in matching :
              /\ verdict = input.rules[i].allowed
              /\ \A j \in matching : size(j) < size(i) \/ (size(j) = size(i) /\ i <= j)

RobotsLines ==
  [key : {"agent"}, ours : BOOLEAN]
    \cup [key : {"rule"}, path : {<<"a">>, <<>>}, allowed : {FALSE}]
    \cup [key : {"delay"}, delay : {1, 2}]

(* The agent lines a line belongs to: the last ones before it, side by side. *)
AgentsOf(lines, i) ==
  LET agents == {j \in 1 .. i - 1 : lines[j].key = "agent"}
  IN {j \in agents : j .. Max(agents) \subseteq agents}

Ours(lines, i) == \E j \in AgentsOf(lines, i) : lines[j].ours

IsRule(line) == line.key = "rule" /\ line.path # <<>>

(* A file begins with an agent line, and of two of them there are only agent
   lines between, or a rule that says something is.                        *)
GroupsHaveRules(lines) ==
  /\ lines # <<>> => lines[1].key = "agent"
  /\ \A i, j \in DOMAIN lines :
       (i < j /\ lines[i].key = "agent" /\ lines[j].key = "agent")
         => \/ \A k \in i .. j : lines[k].key = "agent"
            \/ \E k \in i .. j : IsRule(lines[k])

(* In a file whose groups all have a rule, this program obeys the rules of the
   groups that name it and of no others, and waits no longer than they say. *)
GroupsApart ==
  (subject = "robots" /\ GroupsHaveRules(input)) =>
    LET parsed == parseRobotsTxt(input)
        of(P(_)) == {i \in DOMAIN input : P(input[i]) /\ Ours(input, i)}
    IN /\ Len(parsed.rules) = Cardinality(of(IsRule))
       /\ parsed.delay \in {0} \cup {input[i].delay : i \in of(LAMBDA l : l.key = "delay")}

(* robots.txt is obeyed as it is written: the matcher, the choice between rules
   and the groups.                                                         *)
RobotsAsWritten == GlobsAgree /\ LongestDecides /\ VerdictIgnoresOrder /\ GroupsApart

-----------------------------------------------------------------------------
(* Files and links *)

PathsOf == BoundedSeq({Segment(<<"p">>, "html"), Segment(<<"q">>, "")}, 2)

UrlsOf(Hosts2, Queries) == [host : Hosts2, path : PathsOf, dir : BOOLEAN, query : Queries]

SiteHost == <<"h", "com">>
SiteUrls == UrlsOf({SiteHost, <<"w", "h", "com">>}, {<<>>})

LinkCases ==
  [start : {u \in SiteUrls : u.dir}, page : SiteUrls,
   ref   : [kind : {"full", "path", "relative"}, url : SiteUrls]]

(* A converted link leads from the file of its page to the file of its target,
   where the crawler put them, when no query is involved and the link is not
   relative to a page in another directory than the start url.             *)
LinksLand ==
  (/\ subject = "links"
   /\ input.ref.kind # "full" => input.page.host = input.start.host
   /\ input.ref.kind = "relative" => Directory(input.page) = Directory(input.start)) =>
     LET file == urlToLocalPath(input.page)
         link == ConvertLink(input.start, input.ref, file)
     IN link # Kept =>
          FollowLink(file, link) = urlToLocalPath(ResolveReference(input.page, input.ref))

PairCases == [one : SiteUrls, other : SiteUrls]

(* Whatever the order in which pages are saved, no file is in the way of a
   directory, unless a directory of the site has a name with an extension.  *)
NoFileIsADirectory ==
  (/\ subject = "files"
   /\ \A s \in ToSet(Directory(input.other)) : s.ext = "") =>
     ~IsStrictPrefix(urlToLocalPath(input.one), urlToLocalPath(input.other))

QueryCases ==
  [one : UrlsOf({SiteHost}, {<<112, 61, 49>>, <<112, 61, 50>>}),
   other : UrlsOf({SiteHost}, {<<112, 61, 49>>, <<112, 61, 50>>})]

(* "Hash query string for filename": urls that differ in their query are saved
   in different files.                                                     *)
QueriesApart ==
  (subject = "queries" /\ input.one.query # input.other.query) =>
    urlToLocalPath(input.one) # urlToLocalPath(input.other)

ElementCases ==
  [tag : DOMAIN LinkOf \cup {"div"}, stylesheet : BOOLEAN,
   attrs : UNION {[S -> {"url", "skipped"}] : S \in SUBSET {"href", "src", "data", "action"}}]

(* Every link the crawler follows is one the converter looks at: no page is
   saved that its local copy still links to on the server.                 *)
FollowedIsConverted ==
  (subject = "element" /\ extractLink(input) # NoLink) => Converts(input, extractLink(input).attr)

StyleCases ==
  BoundedSeq([quote : {<<>>, <<"q">>, <<"'">>}, blank : {<<>>, <<" ">>},
              url : {<<"a">>, <<"data:", "a">>, <<"a", ")", "a">>, <<"a", "'">>}], 2)

(* A url stands in the text as css allows it. *)
WellWritten(use) ==
  ToSet(use.url) \cap (IF use.quote = <<>> THEN Quotes \cup {")"} ELSE ToSet(use.quote)) = {}

UseText(u) ==
  <<"x", "url(">> \o u.blank \o u.quote \o u.url \o u.quote \o u.blank \o <<")">>

StyleText(uses) == FlattenSeq([i \in DOMAIN uses |-> UseText(uses[i])])

(* Each url of a stylesheet is found, whole, and in order; what is found has
   not come out of the text between two urls.                              *)
CssUrlsAreFound ==
  (subject = "style" /\ \A u \in ToSet(input) : WellWritten(u)) =>
    ParseCSS(StyleText(input))
      = FlattenSeq([i \in DOMAIN input |->
          IF input[i].url[1] = "data:" THEN <<>> ELSE <<input[i].url>>])

(* The copy of a site on disk can be browsed: its pages are found, saved side by
   side, and linked to each other.                                         *)
LocalCopyHolds == LinksLand /\ NoFileIsADirectory /\ FollowedIsConverted /\ CssUrlsAreFound

-----------------------------------------------------------------------------
(* Metalinks and pieces *)

(* Metalink 3: a url is its preference. *)
PreferenceCases == BoundedSeq({1, 2, 50, 99, 100}, MaxLength)

(* The mirrors of a metalink are tried in the order of their preference, the
   highest first, and those of the same preference in the order of the file,
   each of them once.                                                      *)
PreferredFirst ==
  subject = "preferences" =>
    LET order == SortedURLs(convertV3ToV4(input))
    IN /\ {u.place : u \in ToSet(order)} = DOMAIN input /\ Len(order) = Len(input)
       /\ \A i, j \in DOMAIN order :
            i < j => \/ input[order[i].place] > input[order[j].place]
                     \/ /\ input[order[i].place] = input[order[j].place]
                        /\ order[i].place < order[j].place

(* A metalink that has a checksum burkut can make is verified with one, unless
   it has a sha-384 and no sha-512.                                        *)
HashUsed ==
  (/\ subject = "hashes" /\ input # {}
   /\ "sha-384" \in input => "sha-512" \in input) =>
     MetalinkChecksum(input) \in input \ {"sha-384"}

PieceCases ==
  [length : 1 .. MaxLength + 1,
   wanted : BoundedSeq({0, 1}, MaxLength) \ {<<>>}, found : BoundedSeq({0, 1}, MaxLength)]

(* The verifier of the wanted file. *)
VerifierOf(c) ==
  LET v == [size |-> Len(c.wanted), length |-> c.length, hashes |-> <<>>]
  IN [v EXCEPT !.hashes = [i \in 0 .. (v.size - 1) \div v.length |-> PieceOf(v, c.wanted, i)]]

(* The pieces that are checked are the file, so that only the file itself
   passes; of another one of its length each bad byte is in a bad piece.    *)
PiecesTellFile ==
  subject = "pieces" =>
    LET v == VerifierOf(input)
    IN /\ IsPartition([i \in 0 .. PieceCount(v) - 1 |-> GetPieceRange(v, i)], v.size)
       /\ VerifyFilePieces(v, input.found) <=> input.found = input.wanted
       /\ Len(input.found) = v.size =>
            \A i \in DOMAIN input.found :
              input.found[i] # input.wanted[i]
                => \E p \in GetInvalidPieces(v, input.found) :
                     GetPieceRange(v, p).start < i /\ i <= GetPieceRange(v, p).end + 1

(* A metalink is used as it is written: its mirrors in their order, its pieces
   as a proof of the whole file.                                           *)
MetalinkAsWritten == PreferredFirst /\ PiecesTellFile

-----------------------------------------------------------------------------
(* Checksums, logins, retries and names *)

SumCases == [prefix : Algorithms \cup {"", "crc32"}, of : Algorithms \cup {"none"}]

(* A checksum is verified with the algorithm that made it when that is written
   before it, or, but for blake3, when nothing is: no file that is as it should
   be fails because the wrong algorithm was tried.                         *)
AutoTellsAlgorithm ==
  (/\ subject = "sum" /\ input.of # "none"
   /\ input.prefix = input.of \/ (input.prefix = "" /\ input.of # "blake3")) =>
     ParseChecksumAuto(input) = input.of

ChecksumFiles ==
  BoundedSeq({[kind |-> "blank"], [kind |-> "alone"]}
               \cup [kind : {"named"}, path : {<<"f">>, <<"d", "f">>, <<"f", "g">>}], 2)

AutoCases ==
  [served : {[i \in DOMAIN Extensions |-> IF i = k THEN one ELSE IF i = 5 THEN two ELSE <<>>] :
               k \in DOMAIN Extensions, one \in ChecksumFiles, two \in ChecksumFiles},
   words  : SUBSET {"md5", "sha1"}]

(* --auto-verify with a url that does not name a stronger algorithm: the sum
   that is taken is one of the target, whose file was found under the name of
   the algorithm it is verified with; none is taken only if there is none.  *)
AutoVerifyIsRight ==
  subject = "auto" =>
    LET r == AutoVerify(input.served, input.words, "f")
        fits(line) == line.kind = "alone" \/ (line.kind = "named" /\ Last(line.path) = "f")
    IN IF r.file = 0
       THEN \A i \in DOMAIN input.served : \A line \in ToSet(input.served[i]) : ~fits(line)
       ELSE fits(input.served[r.file][r.line]) /\ r.algorithm = Extensions[r.file]

(* Of all the sums there are for a file, in a metalink, an option or a file
   beside it, one that belongs to it is taken, with its algorithm.         *)
SumsAsWritten == HashUsed /\ AutoTellsAlgorithm /\ AutoVerifyIsRight

(* The entries of a file, "" being the default, and how many of their pairs
   there are up to the end of each line but the last.                      *)
NetrcCases ==
  [entries : BoundedSeq([machine : {"h", "g", ""}, login : {"", "x", "login"}], 2),
   ends    : {e \in BoundedSeq(1 .. 3, 3) : \A i, j \in DOMAIN e : i < j => e[i] <= e[j]},
   macro   : BOOLEAN]

PairsOf(entry) ==
  <<IF entry.machine = "" THEN <<"default">> ELSE <<"machine", entry.machine>>>>
    \o (IF entry.login = "" THEN <<>> ELSE <<<<"login", entry.login>>>>)

NetrcPairs(entries) == FlattenSeq([i \in DOMAIN entries |-> PairsOf(entries[i])])

(* The lines: a macro, if there is one, stands before the entries. *)
NetrcLines(c) ==
  LET pairs  == NetrcPairs(c.entries)
      ends   == <<0>> \o [i \in DOMAIN c.ends |-> Min({c.ends[i], Len(pairs)})] \o <<Len(pairs)>>
      body   == [i \in 1 .. Len(ends) - 1 |-> FlattenSeq(SubSeq(pairs, ends[i] + 1, ends[i + 1]))]
      macdef == <<<<"macdef", "init">>, <<"machine", "h", "login", "x">>, <<>>>>
  IN IF c.macro THEN macdef \o body ELSE body

EntriesOf(entries, m) == {i \in DOMAIN entries : entries[i].machine = m}

(* The login that the entries give a host: that of its last one, or of the last
   default.                                                                *)
LoginOf(entries, m) == entries[Max(EntriesOf(entries, m))].login
WantedLogin(entries, host) ==
  IF EntriesOf(entries, host) # {} THEN LoginOf(entries, host)
  ELSE IF EntriesOf(entries, "") # {} THEN LoginOf(entries, "") ELSE NoEntry

(* Each host gets the login of its last entry, or of the default, however the
   file is cut into lines between the pairs of its words.                  *)
NetrcKeepsLogins ==
  subject = "netrc" =>
    \A host \in {"h", "g", "other"} :
      FindEntry(ParseNetrc(NetrcLines(input)), host) = WantedLogin(input.entries, host)

RetryCases ==
  [config : [maxRetries : 0 .. 2, errors : {{}, {"server"}}],
   script : [outcomes : [1 .. 3 -> {"ok", "network", "server", "cancelled", "deadline"}],
             doneAt : 0 .. 2]]

(* Do calls its function until it succeeds, once at least and no more often
   than allowed, never again after an error that is not to be retried or after
   the context is done, and its error is that of the last call or the context's. *)
RetryIsFaithful ==
  subject = "retry" =>
    LET r    == Do(input.config, input.script)
        last == input.script.outcomes[r.calls]
        retried == IF input.config.errors = {} THEN {"network"} ELSE input.config.errors
    IN /\ r.calls \in 1 .. input.config.maxRetries + 1
       /\ \A i \in 1 .. r.calls - 1 : input.script.outcomes[i] \in retried
       /\ r.error = "none" <=> last = "ok"
       /\ r.error \in {last, "none"} \/ (r.error = "cancelled" /\ input.script.doneAt = r.calls)
       /\ last \in retried /\ r.calls <= input.config.maxRetries => input.script.doneAt = r.calls

DelayCases ==
  [config : [initial : {1, 30}, multiplier : {1, 2, 3}, maxDelay : {60, 100}, jitter : {0, 10}],
   attempt : 0 .. 9]

(* The wait before a retry is never negative, does not pass the maximum by more
   than the jitter, and without a jitter does not get shorter.              *)
DelaysBounded ==
  subject = "delay" =>
    /\ \A d \in calculateDelay(input.config, input.attempt) :
         0 <= d /\ 100 * d <= (100 + input.config.jitter) * input.config.maxDelay
    /\ BaseDelay(input.config, input.attempt) <= BaseDelay(input.config, input.attempt + 1)

(* A retried call is repeated as its configuration says, and waits as long. *)
RetriesAsConfigured == RetryIsFaithful /\ DelaysBounded

NameCases ==
  {p \in BoundedSeq({"/", "\\", "a", ".", "?", "%2F", "%2E", "%", "+"}, MaxLength) : p = <<>> \/ p[1] = "/"}

(* One name in the output directory: it is not empty, "." or "..", and has no
   separator in it.                                                        *)
Stays(name) ==
  /\ name \notin {<<>>, <<".">>, <<".", ".">>}
  /\ ToSet(name) \cap {"/", "\\"} = {}

(* What the last segment of a path must not be for a name that is decoded once
   more: dots, escaped or not, or anything with a separator in it, escaped or
   the other one; and nothing is decoded if there is a stray "%".          *)
DecodesToPath(segment) ==
  \/ Len(segment) \in {1, 2} /\ ToSet(segment) \subseteq {".", "%2E"}
  \/ "\\" \in ToSet(segment)
  \/ "%2F" \in ToSet(segment) /\ "%" \notin ToSet(segment)

(* A url's name is not sanitized: these, and no others, are the urls whose file
   is not one in the output directory, with each of the three copies of the
   code (http.go:503, http3.go:211, queue.go:337).                         *)
UrlNameStays ==
  subject = "name" =>
    /\ Stays(HttpName(input)) <=> ~DecodesToPath(BeforeQuery(BaseName(input)))
    /\ Stays(QueueName(input)) <=> ~DecodesToPath(BaseName(input))
    /\ Stays(Http3Name(input)) <=> /\ BaseName(input) \notin {<<".">>, <<".", ".">>}
                                  /\ "\\" \notin ToSet(BaseName(input))

(* The three copies agree on the name of a url if and only if its last segment
   has no "?", at which HTTP alone cuts it, and, for HTTP/3, nothing that the
   others decode once more.                                                *)
NamesAgree ==
  subject = "name" =>
    LET segment == ToSet(BaseName(input))
    IN /\ QueueName(input) = HttpName(input) <=> "?" \notin segment
       /\ Http3Name(input) = HttpName(input) <=>
            /\ "?" \notin segment
            /\ "%" \in segment \/ segment \cap {"+", "%2F", "%2E"} = {}

HeaderCases ==
  BoundedSeq([key : {"filename", "filename*"},
              value : BoundedSeq({"/", "\\", ".", ":", " ", "a"}, 2)], 2)
  \cup {<<[key |-> "filename", value |-> v]>> : v \in BoundedSeq({"/", ".", " ", "a"}, MaxLength)}

(* A name that the server sends is one name in the output directory, whatever
   it is: of names, this is the one kind that is sanitized.                *)
ServerNameStays == subject = "header" => Stays(extractFilename(input, <<"/", "a">>))

(* Where a file goes by its name: a server's name into the output directory, a
   url's there or not as its last segment tells, and to the same file from all
   copies of the code or not.                                              *)
NamesAsMade == UrlNameStays /\ NamesAgree /\ ServerNameStays

-----------------------------------------------------------------------------
Is(name, Cases) == subject = name /\ input \in Cases

InputInit ==
  \/ Is("glob", PathCases) \/ Is("rules", RuleCases)
  \/ Is("robots", BoundedSeq(RobotsLines, MaxLength + 1))
  \/ Is("links", LinkCases) \/ Is("files", PairCases) \/ Is("queries", QueryCases)
  \/ Is("element", ElementCases) \/ Is("style", StyleCases)
  \/ Is("preferences", PreferenceCases)
  \/ Is("hashes", SUBSET ToSet(Preferences)) \/ Is("pieces", PieceCases)
  \/ Is("sum", SumCases) \/ Is("auto", AutoCases) \/ Is("netrc", NetrcCases)
  \/ Is("retry", RetryCases) \/ Is("delay", DelayCases)
  \/ Is("name", NameCases) \/ Is("header", HeaderCases)
=============================================================================
