------------------------------- MODULE Crawler -------------------------------
(***************************************************************************)
(* The recursive download: the URL queue, the feeder goroutine, the        *)
(* workers and the robots.txt cache of internal/crawler, with the exit     *)
(* code that main makes of a crawl.                                        *)
(*                                                                         *)
(* One step is what a goroutine does between two points where another can  *)
(* be seen: the queue's lock, the channel, the cache's lock, the context,  *)
(* a request.  The waits between requests (Crawl-delay, --wait) only delay *)
(* a step.  The site does not change while it is crawled.                  *)
(***************************************************************************)
EXTENDS CrawlFilter, FiniteSets

CONSTANTS
  Workers,         \* config.Workers goroutines
  Modes,           \* the commands that may run: "recursive", "spider"
  MaxDepth,        \* config.MaxDepth
  Start,           \* the start URL
  Page,            \* what ParseHTML or ParseCSS finds at a URL: links in order
  Filter,          \* config.Filter
  RespectRobots,   \* FALSE under --robots-off
  Disallowed,      \* the URLs that the robots.txt of their host excludes
  RobotsAnswers,   \* per host, how a request for its robots.txt may end
  GetAnswers,      \* per URL, how a request for it may end
  MayCancel        \* whether the user may interrupt the crawl

ASSUME CrawlerAssumption ==
  /\ IsFiniteSet(Workers) /\ Workers # {}
  /\ Modes \subseteq {"recursive", "spider"}
  /\ MaxDepth \in Nat
  /\ RespectRobots \in BOOLEAN /\ MayCancel \in BOOLEAN
  /\ \A o \in DOMAIN RobotsAnswers :
       RobotsAnswers[o] \subseteq {"rules", "none", "error"}
  /\ \A u \in DOMAIN GetAnswers : GetAnswers[u] \subseteq {"ok", "error"}

VARIABLES
  items,       \* URLQueue.items
  workCh,      \* the items in the channel, by their index
  closed,      \* whether the feeder closed the channel
  feeder,      \* the feeder goroutine and the item it sends
  worker,      \* the worker goroutines and what each holds
  robots,      \* RobotsChecker.cache
  cancelled,   \* ctx.Err() # nil
  stats,       \* Crawler.stats
  main         \* the mode, and the exit code once the command returned

vars == <<items, workCh, closed, feeder, worker, robots, cancelled, stats, main>>

-----------------------------------------------------------------------------
(* The key under which a URL is known: no fragment, no default port; the host
   stays as it is spelled.                                                 *)
normalizeURL(u) ==
  [u EXCEPT !.fragment = "",
            !.port = IF <<u.scheme, @>> \in {<<"http", "80">>, <<"https", "443">>}
                     THEN "" ELSE @]

Origin(u) == <<u.scheme, u.host, u.spelling, u.port>>
Origins   == DOMAIN RobotsAnswers
Urls      == DOMAIN Page
Links     == UNION {Range(Page[u]) : u \in Urls}

(* The addresses the queue may hold: the filter keeps the others out. *)
Addresses ==
  {Start} \cup {l.to : l \in {k \in Links : Queued(Filter, k.to, k.type)}}

IsUrl(u) == u = [scheme |-> u.scheme, host |-> u.host, spelling |-> u.spelling,
                 port |-> u.port, name |-> u.name, ext |-> u.ext, fragment |-> u.fragment]

(* Whatever may be queued has a page and a host that answer. *)
ASSUME SiteAssumption ==
  /\ \A u \in Urls : Page[u] \in Seq(Links)
  /\ \A u \in Addresses : /\ IsUrl(u)
                          /\ normalizeURL(u) \in Urls \cap DOMAIN GetAnswers
                          /\ Origin(u) \in Origins

(* Mutant: a URL is noted as it was found, not under its key. *)
VisitedAsFound == {items[i].url : i \in DOMAIN items}

visited == {normalizeURL(items[i].url) : i \in DOMAIN items}

NewItem(u, depth) == [url |-> u, depth |-> depth, status |-> "pending"]

(* URLQueue.Add: a URL that was ever added is not added again. *)
Add(u, depth) ==
  items' = IF normalizeURL(u) \in visited THEN items
           ELSE Append(items, NewItem(u, depth))

Pending == {i \in DOMAIN items : items[i].status = "pending"}

SetStatus(i, status) == items' = [items EXCEPT ![i].status = status]

(* Mutant: the depth of a page is not looked at before its links are queued. *)
LinksOfAnyDepth(i) == Page[normalizeURL(items[i].url)]

(* The links of a downloaded item that extractLinks goes through. *)
LinksOf(i) ==
  IF items[i].depth < MaxDepth THEN Page[normalizeURL(items[i].url)] ELSE <<>>

Held(w) == worker[w].item

-----------------------------------------------------------------------------
(* Crawl fails before it starts where the output directory cannot be made,
   and the empty name spider mode passes cannot; otherwise the start URL is
   queued and the goroutines run.                                          *)
Crawl ==
  /\ main.at = "start"
  /\ IF main.mode = "spider"
     THEN /\ main' = [main EXCEPT !.at = "done", !.exit = 3]
          /\ UNCHANGED <<items, feeder, worker>>
     ELSE /\ main' = [main EXCEPT !.at = "wait"]
          /\ Add(Start, 0)
          /\ feeder' = [feeder EXCEPT !.at = "next"]
          /\ worker' = [w \in Workers |-> [worker[w] EXCEPT !.at = "recv"]]
  /\ UNCHANGED <<workCh, closed, robots, cancelled, stats>>

(* The signal handler cancels the context. *)
Interrupt ==
  /\ MayCancel /\ ~cancelled /\ main.at = "wait"
  /\ cancelled' = TRUE
  /\ UNCHANGED <<items, workCh, closed, feeder, worker, robots, stats, main>>

-----------------------------------------------------------------------------
Close ==
  /\ closed' = TRUE
  /\ feeder' = [feeder EXCEPT !.at = "closed"]
  /\ UNCHANGED <<items, workCh>>

(* Mutant: the feeder hands out an item without marking it. *)
TakeUnmarked ==
  /\ feeder.at = "next"
  /\ IF cancelled THEN Close
     ELSE /\ \/ \E i \in Pending : /\ \A j \in Pending : i <= j
                                   /\ feeder' = [at |-> "send", item |-> i]
             \/ Pending = {} /\ feeder' = [feeder EXCEPT !.at = "sleep"]
          /\ UNCHANGED items
          /\ UNCHANGED <<workCh, closed>>

(* The select of the feeder: close on cancellation, else URLQueue.Next. *)
FeedNext ==
  /\ feeder.at = "next"
  /\ IF cancelled THEN Close
     ELSE /\ \/ \E i \in Pending : /\ \A j \in Pending : i <= j
                                   /\ feeder' = [at |-> "send", item |-> i]
                                   /\ SetStatus(i, "in_progress")
             \/ /\ Pending = {}
                /\ feeder' = [feeder EXCEPT !.at = "sleep"]
                /\ UNCHANGED items
          /\ UNCHANGED <<workCh, closed>>

(* Mutant: the feeder waits for the items to be finished, and a failed page
   never is.                                                               *)
FeedIdleForever ==
  /\ feeder.at = "sleep"
  /\ IF \A i \in DOMAIN items : items[i].status \in {"completed", "skipped"} THEN Close
     ELSE /\ feeder' = [feeder EXCEPT !.at = "next"]
          /\ UNCHANGED <<items, workCh, closed>>

(* After 100 ms without work: close the channel unless an item is pending
   by now.  Nobody asks whether a worker is still busy.                    *)
FeedIdle ==
  /\ feeder.at = "sleep"
  /\ IF Pending = {} THEN Close
     ELSE /\ feeder' = [feeder EXCEPT !.at = "next"]
          /\ UNCHANGED <<items, workCh, closed>>

(* Mutant: the feeder does not wait for room in the channel. *)
FeedSendUnbounded ==
  /\ feeder.at = "send"
  /\ workCh' = Append(workCh, feeder.item)
  /\ feeder' = [at |-> "next", item |-> 0]
  /\ UNCHANGED <<items, closed>>

(* workCh <- item: it blocks while 2 * Workers items wait, and it does not
   look at the context.                                                    *)
FeedSend ==
  /\ feeder.at = "send"
  /\ Len(workCh) < 2 * Cardinality(Workers)
  /\ workCh' = Append(workCh, feeder.item)
  /\ feeder' = [at |-> "next", item |-> 0]
  /\ UNCHANGED <<items, closed>>

Feed ==
  /\ FeedNext \/ FeedIdle \/ FeedSend
  /\ UNCHANGED <<worker, robots, cancelled, stats, main>>

-----------------------------------------------------------------------------
Become(w, at) == worker' = [worker EXCEPT ![w].at = at]

(* The worker is through with its item and ranges over the channel again. *)
Release(w) ==
  worker' = [worker EXCEPT ![w] = [at |-> "recv", item |-> 0, links |-> <<>>]]

(* for item := range workCh *)
Receive(w) ==
  /\ worker[w].at = "recv"
  /\ IF workCh # <<>>
     THEN /\ worker' = [worker EXCEPT ![w].at = "check", ![w].item = Head(workCh)]
          /\ workCh' = Tail(workCh)
     ELSE closed /\ Become(w, "done") /\ UNCHANGED workCh
  /\ UNCHANGED <<items, closed, robots, stats>>

(* The worker looks at the context once, before it starts on the item. *)
CheckContext(w) ==
  /\ worker[w].at = "check"
  /\ IF cancelled
     THEN /\ SetStatus(Held(w), "skipped")
          /\ worker' = [worker EXCEPT ![w] = [at |-> "done", item |-> 0, links |-> <<>>]]
     ELSE Become(w, "robots") /\ UNCHANGED items
  /\ UNCHANGED <<workCh, closed, robots, stats>>

(* What IsAllowed makes of the rules a host gave: without rules, whether
   there are none or they could not be fetched, everything is allowed.     *)
Judge(w, rules) ==
  IF rules = "rules" /\ normalizeURL(items[Held(w)].url) \in Disallowed
  THEN /\ SetStatus(Held(w), "skipped")
       /\ stats' = [stats EXCEPT !.skipped = @ + 1]
       /\ Release(w)
  ELSE Become(w, "get") /\ UNCHANGED <<items, stats>>

(* IsAllowed, with the look into the cache of getRobotsData. *)
CheckRobots(w) ==
  /\ worker[w].at = "robots"
  /\ LET cached == robots[Origin(items[Held(w)].url)]
     IN IF ~RespectRobots THEN Judge(w, "none")
        ELSE IF cached = "absent"
             THEN Become(w, "fetching") /\ UNCHANGED <<items, stats>>
             ELSE Judge(w, cached)
  /\ UNCHANGED <<workCh, closed, robots>>

(* getRobotsData after a miss: the request, whose result replaces whatever
   another worker cached meanwhile; a cancelled request fails.  A body that
   breaks off is parsed as far as it came, here as one without the rule.   *)
FetchRobots(w) ==
  /\ worker[w].at = "fetching"
  /\ LET o == Origin(items[Held(w)].url)
     IN \E answer \in IF cancelled THEN {"error"} ELSE RobotsAnswers[o] :
          LET rules == IF answer = "rules" THEN "rules" ELSE "none"
          IN robots' = [robots EXCEPT ![o] = rules] /\ Judge(w, rules)
  /\ UNCHANGED <<workCh, closed>>

(* Mutant: an error that an interrupt caused is not counted. *)
FailedUncounted(w) ==
  /\ SetStatus(Held(w), "failed")
  /\ stats' = IF cancelled THEN stats ELSE [stats EXCEPT !.failed = @ + 1]
  /\ Release(w)

Failed(w) ==
  /\ SetStatus(Held(w), "failed")
  /\ stats' = [stats EXCEPT !.failed = @ + 1]
  /\ Release(w)

(* Mutant: the request is sent without the context. *)
GetUncancelled(w) ==
  /\ worker[w].at = "get"
  /\ \E answer \in GetAnswers[normalizeURL(items[Held(w)].url)] :
       IF answer = "ok" THEN Become(w, "save") /\ UNCHANGED <<items, stats>>
       ELSE Failed(w)
  /\ UNCHANGED <<workCh, closed, robots>>

(* download up to the response: it cannot succeed once the context is
   cancelled; a status other than 200 and a file that is too large are
   errors.                                                                 *)
Get(w) ==
  /\ worker[w].at = "get"
  /\ \E answer \in IF cancelled THEN {"error"}
                   ELSE GetAnswers[normalizeURL(items[Held(w)].url)] :
       IF answer = "ok" THEN Become(w, "save") /\ UNCHANGED <<items, stats>>
       ELSE Failed(w)
  /\ UNCHANGED <<workCh, closed, robots>>

(* The rest of download, the body and the file, and what processItem does
   with its result: the item is complete before its links are queued.      *)
Save(w) ==
  /\ worker[w].at = "save"
  /\ \E answer \in GetAnswers[normalizeURL(items[Held(w)].url)]
                     \cup (IF cancelled THEN {"error"} ELSE {}) :
       IF answer = "ok"
       THEN /\ SetStatus(Held(w), "completed")
            /\ stats' = [stats EXCEPT !.downloaded = @ + 1]
            /\ IF LinksOf(Held(w)) = <<>> THEN Release(w)
               ELSE worker' = [worker EXCEPT ![w].at = "extract",
                                             ![w].links = LinksOf(Held(w))]
       ELSE Failed(w)
  /\ UNCHANGED <<workCh, closed, robots>>

(* One round of the loop of extractLinks. *)
ExtractLink(w) ==
  /\ worker[w].at = "extract"
  /\ LET link == Head(worker[w].links)
     IN IF Queued(Filter, link.to, link.type)
        THEN Add(link.to, items[Held(w)].depth + 1)
        ELSE UNCHANGED items
  /\ IF Len(worker[w].links) = 1 THEN Release(w)
     ELSE worker' = [worker EXCEPT ![w].links = Tail(@)]
  /\ UNCHANGED <<workCh, closed, robots, stats>>

Work(w) ==
  /\ \/ Receive(w) \/ CheckContext(w) \/ CheckRobots(w) \/ FetchRobots(w)
     \/ Get(w) \/ Save(w) \/ ExtractLink(w)
  /\ UNCHANGED <<feeder, cancelled, main>>

-----------------------------------------------------------------------------
(* wg.Wait returns, and with it Crawl; runRecursiveDownload reads the
   statistics.                                                             *)
Return ==
  /\ main.at = "wait"
  /\ \A w \in Workers : worker[w].at = "done"
  /\ main' = [main EXCEPT !.at = "done", !.exit = IF stats.failed > 0 THEN 1 ELSE 0]
  /\ UNCHANGED <<items, workCh, closed, feeder, worker, robots, cancelled, stats>>

(* The command has returned: what is left of the goroutines ends with it. *)
Exited == main.at = "done" /\ UNCHANGED vars

Init ==
  /\ items = <<>>
  /\ workCh = <<>>
  /\ closed = FALSE
  /\ feeder = [at |-> "idle", item |-> 0]
  /\ worker = [w \in Workers |-> [at |-> "idle", item |-> 0, links |-> <<>>]]
  /\ robots = [o \in Origins |-> "absent"]
  /\ cancelled = FALSE
  /\ stats = [downloaded |-> 0, skipped |-> 0, failed |-> 0]
  /\ main \in [at : {"start"}, mode : Modes, exit : {-1}]

Next ==
  \/ Crawl
  \/ Interrupt
  \/ main.at = "wait" /\ Feed
  \/ main.at = "wait" /\ \E w \in Workers : Work(w)
  \/ Return
  \/ Exited

(* The scheduler runs every goroutine, and every request ends: the clients
   give up after Config.Timeout and, for robots.txt, after ten seconds.    *)
Fairness ==
  /\ WF_vars(Crawl) /\ WF_vars(Return)
  /\ WF_vars(main.at = "wait" /\ Feed)
  /\ \A w \in Workers : WF_vars(main.at = "wait" /\ Work(w))

Spec == Init /\ [][Next]_vars /\ Fairness
-----------------------------------------------------------------------------
Statuses == {"pending", "in_progress", "completed", "failed", "skipped"}

WorkerStates == {"idle", "recv", "check", "robots", "fetching", "get", "save",
                 "extract", "done"}

(* The type invariant of the crawler. *)
TypeOK ==
  /\ items \in Seq([url : Addresses, depth : Nat, status : Statuses])
  /\ workCh \in Seq(DOMAIN items) /\ Len(workCh) <= 2 * Cardinality(Workers)
  /\ closed \in BOOLEAN /\ cancelled \in BOOLEAN
  /\ feeder.at \in {"idle", "next", "sleep", "send", "closed"}
  /\ feeder.item \in DOMAIN items \cup {0}
  /\ \A w \in Workers : /\ worker[w].at \in WorkerStates
                        /\ worker[w].item \in DOMAIN items \cup {0}
  /\ \A o \in Origins : robots[o] \in {"absent", "rules", "none"}
  /\ stats \in [downloaded : Nat, skipped : Nat, failed : Nat]
  /\ main \in [at : {"start", "wait", "done"}, mode : Modes, exit : {-1, 0, 1, 3}]

(* Where an item is between URLQueue.Next and its final status. *)
Places(i) ==
  (IF feeder.item = i THEN {<<"feeder", 0>>} ELSE {})
    \cup {<<"channel", k>> : k \in {k \in DOMAIN workCh : workCh[k] = i}}
    \cup {<<"worker", w>> : w \in {w \in Workers : /\ Held(w) = i
                                                   /\ worker[w].at # "extract"}}

(* An item that is marked as in progress is in exactly one pair of hands:
   the feeder's, the channel's or one worker's; an item with any other
   status is in nobody's.  Nothing is taken up twice and nothing that was
   taken up is lost, although workers set the status without the lock.     *)
OneHolder ==
  \A i \in DOMAIN items :
    Cardinality(Places(i)) = IF items[i].status = "in_progress" THEN 1 ELSE 0

(* The port a request for the URL goes to. *)
PortOf(u) ==
  IF u.port # "" THEN u.port
  ELSE IF u.scheme = "http" THEN "80" ELSE IF u.scheme = "https" THEN "443" ELSE ""

(* What is asked of whom: all of the address but its fragment. *)
Request(u) == <<u.scheme, u.host, u.spelling, PortOf(u), u.name, u.ext>>

(* No two items of the queue stand for one request, whichever workers find the
   page at once, with which fragments, with the default port or without it.
   A host that is spelled in two letter cases is two hosts for the queue.   *)
NoRequestTwice ==
  \A i, j \in DOMAIN items : i # j => Request(items[i].url) # Request(items[j].url)

HasStatus(status) == {i \in DOMAIN items : items[i].status = status}

(* The statistics that are printed, and that the exit code is made of, agree
   with the items; only items given up after an interrupt are not counted. *)
StatsAgree ==
  /\ stats.downloaded = Cardinality(HasStatus("completed"))
  /\ stats.failed = Cardinality(HasStatus("failed"))
  /\ stats.skipped <= Cardinality(HasStatus("skipped"))
  /\ ~cancelled => stats.skipped = Cardinality(HasStatus("skipped"))

(* The pages that the links of a page lead to which the filter lets through. *)
LinkedFrom(u) ==
  {normalizeURL(l.to) : l \in {k \in Range(Page[u]) : Queued(Filter, k.to, k.type)}}

(* The way from the start to a page over as many links as the number says. *)
Leads(way, d, u) ==
  /\ way[0] = normalizeURL(Start) /\ way[d] = u
  /\ \A k \in 1 .. d : way[k] \in LinkedFrom(way[k - 1])

(* The pages that lie so many links away from the start. *)
Distance ==
  [d \in 0 .. MaxDepth |-> {u \in Urls : \E way \in [0 .. d -> Urls] : Leads(way, d, u)}]

(* -l: what is in the queue was reached over at most MaxDepth links, all of
   which the filter lets through, and as many as the item says: none claims
   to be nearer to the start than it was found, whoever found it.          *)
WithinDepth ==
  \A i \in DOMAIN items :
    /\ items[i].depth \in 0 .. MaxDepth
    /\ normalizeURL(items[i].url) \in Distance[items[i].depth]

(* A page that the robots.txt of its host excludes is never downloaded, if
   that file can always be read: not when two workers ask for it at once and
   not when an interrupt makes the request for it fail, which allows all.  *)
RobotsObeyed ==
  \A i \in DOMAIN items :
    (/\ RespectRobots
     /\ RobotsAnswers[Origin(items[i].url)] = {"rules"}
     /\ normalizeURL(items[i].url) \in Disallowed)
      => items[i].status # "completed"

(* Exit code 0 of a crawl nobody interrupted: whatever was taken from the
   queue was downloaded, or excluded by a robots.txt.                      *)
SuccessMeansFinished ==
  (main.exit = 0 /\ ~cancelled)
    => \A i \in DOMAIN items : \/ items[i].status \in {"completed", "pending"}
                              \/ /\ items[i].status = "skipped"
                                 /\ normalizeURL(items[i].url) \in Disallowed

(* What a crawl reports, in its statistics and its exit code, is what became
   of its pages.                                                           *)
ResultIsTrue == StatsAgree /\ SuccessMeansFinished

(* Every crawl ends, an interrupted one too, although the feeder may then
   block for ever on a channel nobody reads.                               *)
CrawlEnds == <>(main.at = "done")

(* "No more work, check if workers are done": a crawl that was not
   interrupted ends with nothing pending.                                  *)
NothingLeftPending == (main.at = "done" /\ ~cancelled) => Pending = {}
=============================================================================
