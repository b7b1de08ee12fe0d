---------------------------- MODULE CrawlerProofs ----------------------------
(***************************************************************************)
(* The crawl, for every site, any number of workers and every moment of an *)
(* interrupt: an item is in one pair of hands, no page is in the queue     *)
(* twice or beyond the depth, and what robots.txt excludes is not          *)
(* downloaded.                                                             *)
(***************************************************************************)
EXTENDS Crawler, FiniteSetTheorems, SequenceTheorems, TLAPS

Item == [url : Addresses, depth : Nat, status : Statuses]

WorkerRecord == [at : WorkerStates, item : Nat, links : Seq(Links)]

FeederRecord == [at : {"idle", "next", "sleep", "send", "closed"}, item : Nat]

(* The states in which a worker has an item to see to. *)
Busy == {"check", "robots", "fetching", "get", "save"}

IsBusy(w) == worker[w].at \in Busy

CrawlTypes ==
  /\ items \in Seq(Item)
  /\ workCh \in Seq(Nat)
  /\ feeder \in FeederRecord
  /\ worker \in [Workers -> WorkerRecord]

(* What is with the feeder, in the channel or with a worker is marked, and is
   nowhere else; what is marked is in one of these places.                 *)
FeederHolds ==
  /\ feeder.at # "send" => feeder.item = 0
  /\ feeder.at = "send" => /\ feeder.item \in DOMAIN items
                        /\ items[feeder.item].status = "in_progress"

ChannelHolds ==
  /\ \A k \in DOMAIN workCh : /\ workCh[k] \in DOMAIN items
                              /\ items[workCh[k]].status = "in_progress"
                              /\ workCh[k] # feeder.item
  /\ \A k, l \in DOMAIN workCh : (k # l) => (workCh[k] # workCh[l])

WorkersHold ==
  /\ \A w \in Workers : IsBusy(w) =>
       /\ Held(w) \in DOMAIN items
       /\ items[Held(w)].status = "in_progress"
       /\ Held(w) # feeder.item
       /\ \A k \in DOMAIN workCh : workCh[k] # Held(w)
  /\ \A v, w \in Workers : (v # w /\ IsBusy(v) /\ IsBusy(w)) => Held(v) # Held(w)

NobodyElseHolds ==
  \A w \in Workers :
    /\ worker[w].at = "extract" => /\ Held(w) \in DOMAIN items
                                   /\ items[Held(w)].status = "completed"
                                   /\ worker[w].links # <<>>
    /\ ~IsBusy(w) /\ worker[w].at # "extract" => Held(w) = 0

MarkedIsHeld ==
  \A i \in DOMAIN items : items[i].status = "in_progress" =>
    \/ feeder.item = i
    \/ \E k \in DOMAIN workCh : workCh[k] = i
    \/ \E w \in Workers : IsBusy(w) /\ Held(w) = i

Custody == FeederHolds /\ ChannelHolds /\ WorkersHold /\ NobodyElseHolds /\ MarkedIsHeld

(* URLQueue.visited: what is in the queue has a key of its own. *)
KeysApart ==
  \A i, j \in DOMAIN items :
    (i # j) => normalizeURL(items[i].url) # normalizeURL(items[j].url)

(* Before Crawl is called no goroutine runs. *)
NotYet ==
  /\ main \in [at : {"start", "wait", "done"}, mode : Modes, exit : {-1, 0, 1, 3}]
  /\ main.at = "start" => /\ feeder.at = "idle"
                          /\ \A w \in Workers : worker[w].at = "idle"

CrawlInv == CrawlTypes /\ Custody /\ KeysApart /\ NotYet

-----------------------------------------------------------------------------
LEMMA ItemsFrom1 ==
  ASSUME CrawlTypes
  PROVE  /\ DOMAIN items = 1 .. Len(items) /\ Len(items) \in Nat
         /\ DOMAIN workCh = 1 .. Len(workCh) /\ Len(workCh) \in Nat
         /\ \A i \in DOMAIN items : items[i] \in Item
  BY DEF CrawlTypes

(* A change of an item's status changes nothing else. *)
LEMMA SetStatusFacts ==
  ASSUME CrawlTypes, NEW i \in DOMAIN items, NEW s \in Statuses, SetStatus(i, s)
  PROVE  /\ items' \in Seq(Item)
         /\ DOMAIN items' = DOMAIN items
         /\ \A j \in DOMAIN items : /\ items'[j].url = items[j].url
                                    /\ items'[j].depth = items[j].depth
         /\ \A j \in DOMAIN items \ {i} : items'[j] = items[j]
         /\ items'[i].status = s
<1> DEFINE n == [items[i] EXCEPT !.status = s]
<1>1. items[i] \in Item
  BY ItemsFrom1
<1>2. n \in Item /\ n.url = items[i].url /\ n.depth = items[i].depth /\ n.status = s
  BY <1>1 DEF Item
<1>3. items' = [items EXCEPT ![i] = n]
  BY DEF SetStatus
<1> HIDE DEF n
<1>4. items' \in Seq(Item) /\ DOMAIN items' = DOMAIN items
  BY <1>2, <1>3 DEF CrawlTypes
<1>5. \A j \in DOMAIN items : items'[j] = IF j = i THEN n ELSE items[j]
  BY <1>3 DEF CrawlTypes
<1>6. QED
  BY <1>2, <1>4, <1>5

(* What is added to the queue comes last, pending, and under a new key. *)
LEMMA AddFacts ==
  ASSUME CrawlTypes, NEW u \in Addresses, NEW d \in Nat, Add(u, d)
  PROVE  /\ items' \in Seq(Item)
         /\ DOMAIN items \subseteq DOMAIN items'
         /\ \A j \in DOMAIN items : items'[j] = items[j]
         /\ \A j \in DOMAIN items' \ DOMAIN items : items'[j].status = "pending"
         /\ KeysApart => KeysApart'
<1>1. CASE normalizeURL(u) \in visited
  <2>1. items' = items
    BY <1>1 DEF Add
  <2>2. QED
    BY <2>1 DEF CrawlTypes, KeysApart
<1>2. CASE normalizeURL(u) \notin visited
  <2> DEFINE n == NewItem(u, d)
  <2>1. items' = Append(items, n)
    BY <1>2 DEF Add
  <2>2. n \in Item /\ n.url = u /\ n.status = "pending"
    BY DEF NewItem, Item, Statuses
  <2>3. \A j \in DOMAIN items : normalizeURL(items[j].url) # normalizeURL(u)
    BY <1>2 DEF visited
  <2> HIDE DEF n
  <2>4. /\ items' \in Seq(Item) /\ DOMAIN items' = 1 .. Len(items) + 1
        /\ \A j \in DOMAIN items : items'[j] = items[j]
        /\ items'[Len(items) + 1] = n
    BY <2>1, <2>2 DEF CrawlTypes
  <2>5. DOMAIN items = 1 .. Len(items) /\ Len(items) \in Nat
    BY ItemsFrom1
  <2>6. \A j \in DOMAIN items' : j \in DOMAIN items \/ j = Len(items) + 1
    BY <2>4, <2>5
  <2>7. KeysApart => KeysApart'
    BY <2>2, <2>3, <2>4, <2>6 DEF KeysApart
  <2>8. QED
    BY <2>2, <2>4, <2>5, <2>6, <2>7
<1>3. QED  BY <1>1, <1>2

LEMMA BecomeFacts ==
  ASSUME CrawlTypes, NEW w \in Workers, NEW at \in WorkerStates, Become(w, at)
  PROVE  /\ worker' \in [Workers -> WorkerRecord]
         /\ \A v \in Workers \ {w} : worker'[v] = worker[v]
         /\ worker'[w].at = at /\ worker'[w].item = worker[w].item
         /\ worker'[w].links = worker[w].links
<1>1. worker[w] \in WorkerRecord
  BY DEF CrawlTypes
<1>2. QED
  BY <1>1 DEF Become, CrawlTypes, WorkerRecord

LEMMA ReleaseFacts ==
  ASSUME CrawlTypes, NEW w \in Workers, Release(w)
  PROVE  /\ worker' \in [Workers -> WorkerRecord]
         /\ \A v \in Workers \ {w} : worker'[v] = worker[v]
         /\ worker'[w].at = "recv" /\ worker'[w].item = 0
<1>1. [at |-> "recv", item |-> 0, links |-> <<>>] \in WorkerRecord
  BY DEF WorkerRecord, WorkerStates
<1>2. QED
  BY <1>1 DEF Release, CrawlTypes

-----------------------------------------------------------------------------
(* The keys are apart as long as no URL changes. *)
LEMMA KeysStay ==
  ASSUME KeysApart, DOMAIN items' = DOMAIN items,
         \A j \in DOMAIN items : items'[j].url = items[j].url
  PROVE  KeysApart'
  BY DEF KeysApart

(* A worker that goes on with its item disturbs nobody. *)
LEMMA GoesOn ==
  ASSUME CrawlInv, NEW w \in Workers, NEW at \in Busy, IsBusy(w), Become(w, at),
         UNCHANGED <<items, workCh, feeder>>
  PROVE  CrawlTypes' /\ Custody' /\ KeysApart'
<1>1. at \in WorkerStates
  BY DEF Busy, WorkerStates
<1>2. /\ worker' \in [Workers -> WorkerRecord]
      /\ \A v \in Workers \ {w} : worker'[v] = worker[v]
      /\ worker'[w].at = at /\ worker'[w].item = worker[w].item
  BY <1>1, BecomeFacts DEF CrawlInv
<1>3. CrawlTypes' /\ KeysApart'
  BY <1>2 DEF CrawlInv, CrawlTypes, KeysApart
<1>4. \A v \in Workers : /\ Held(v)' = Held(v)
                         /\ IsBusy(v)' <=> IsBusy(v)
                         /\ v # w => worker'[v] = worker[v]
  BY <1>2 DEF Held, IsBusy
<1>5. FeederHolds' /\ ChannelHolds'
  BY DEF CrawlInv, Custody, FeederHolds, ChannelHolds
<1>6. WorkersHold'
  BY <1>4 DEF CrawlInv, Custody, WorkersHold
<1>7. NobodyElseHolds'
  <2>1. worker'[w].at # "extract" /\ IsBusy(w)'
    BY <1>2, <1>4 DEF Busy
  <2>2. QED
    BY <1>4, <2>1 DEF CrawlInv, Custody, NobodyElseHolds
<1>8. MarkedIsHeld'
  BY <1>4 DEF CrawlInv, Custody, MarkedIsHeld
<1>9. QED
  BY <1>3, <1>5, <1>6, <1>7, <1>8 DEF Custody

(* A worker that is through with its item gives it a final status, and goes
   free or on to the links of a page it completed.                         *)
LEMMA Settles ==
  ASSUME CrawlInv, NEW w \in Workers, IsBusy(w),
         NEW s \in {"completed", "failed", "skipped"}, SetStatus(Held(w), s),
         worker' \in [Workers -> WorkerRecord],
         \A v \in Workers \ {w} : worker'[v] = worker[v],
         \/ worker'[w].at \in {"recv", "done"} /\ worker'[w].item = 0
         \/ /\ s = "completed" /\ worker'[w].at = "extract"
            /\ worker'[w].item = worker[w].item /\ worker'[w].links # <<>>,
         UNCHANGED <<workCh, feeder>>
  PROVE  CrawlTypes' /\ Custody' /\ KeysApart'
<1> DEFINE i == Held(w)
<1>1. i \in DOMAIN items /\ s \in Statuses
  BY DEF CrawlInv, Custody, WorkersHold, Statuses
<1>2. /\ items' \in Seq(Item)
      /\ DOMAIN items' = DOMAIN items
      /\ \A j \in DOMAIN items : items'[j].url = items[j].url
      /\ \A j \in DOMAIN items \ {i} : items'[j] = items[j]
      /\ items'[i].status = s
  BY <1>1, SetStatusFacts DEF CrawlInv
<1>3. CrawlTypes' /\ KeysApart'
  BY <1>2, KeysStay DEF CrawlInv, CrawlTypes
<1>4. /\ i # feeder.item
      /\ \A k \in DOMAIN workCh : workCh[k] # i
      /\ \A v \in Workers \ {w} : IsBusy(v) => Held(v) # i
      /\ items[i].status = "in_progress"
  BY DEF CrawlInv, Custody, WorkersHold
<1>5. /\ ~IsBusy(w)'
      /\ \A v \in Workers \ {w} : Held(v)' = Held(v) /\ IsBusy(v)' = IsBusy(v)
  BY DEF Held, IsBusy, Busy
<1>6. \A v \in Workers \ {w} : worker[v].at = "extract" => Held(v) # i
  BY <1>4 DEF CrawlInv, Custody, NobodyElseHolds
<1> HIDE DEF i
<1>7. FeederHolds'
  BY <1>2, <1>4 DEF CrawlInv, Custody, FeederHolds
<1>8. ChannelHolds'
  BY <1>2, <1>4 DEF CrawlInv, Custody, ChannelHolds
<1>9. WorkersHold'
  BY <1>2, <1>4, <1>5 DEF CrawlInv, Custody, WorkersHold
<1>10. NobodyElseHolds'
  <2>1. ASSUME NEW v \in Workers, v # w
        PROVE  (/\ worker[v].at = "extract" => /\ Held(v) \in DOMAIN items
                                               /\ items[Held(v)].status = "completed"
                                               /\ worker[v].links # <<>>
                /\ ~IsBusy(v) /\ worker[v].at # "extract" => Held(v) = 0)'
    BY <1>2, <1>5, <1>6, <2>1 DEF CrawlInv, Custody, NobodyElseHolds
  <2>2. (/\ worker[w].at = "extract" => /\ Held(w) \in DOMAIN items
                                        /\ items[Held(w)].status = "completed"
                                        /\ worker[w].links # <<>>
         /\ ~IsBusy(w) /\ worker[w].at # "extract" => Held(w) = 0)'
    BY <1>1, <1>2, <1>5 DEF i, Held
  <2>3. QED
    BY <2>1, <2>2 DEF NobodyElseHolds
<1>11. MarkedIsHeld'
  BY <1>2, <1>5 DEF CrawlInv, Custody, MarkedIsHeld, i
<1>12. QED
  BY <1>3, <1>7, <1>8, <1>9, <1>10, <1>11 DEF Custody

-----------------------------------------------------------------------------
(* What a worker finds at the head of the channel becomes its own. *)
LEMMA ReceiveKeeps ==
  ASSUME CrawlInv, NEW w \in Workers, Receive(w), UNCHANGED feeder
  PROVE  CrawlTypes' /\ Custody' /\ KeysApart'
<1>1. /\ worker[w].at = "recv" /\ worker[w] \in WorkerRecord
      /\ ~IsBusy(w) /\ items' = items
  BY DEF Receive, CrawlInv, CrawlTypes, IsBusy, Busy
<1>2. Held(w) = 0
  BY <1>1 DEF CrawlInv, Custody, NobodyElseHolds
<1>3. KeysApart'
  BY <1>1 DEF CrawlInv, KeysApart
<1>4. CASE workCh # <<>>
  <2> DEFINE h == Head(workCh)
             r == [worker[w] EXCEPT !.at = "check", !.item = h]
  <2>1. /\ workCh \in Seq(Nat) /\ workCh' = Tail(workCh)
        /\ worker' = [worker EXCEPT ![w].at = "check", ![w].item = h]
    BY <1>4 DEF Receive, CrawlInv, CrawlTypes
  <2>2. /\ 1 \in DOMAIN workCh /\ h = workCh[1] /\ workCh' \in Seq(Nat)
        /\ \A k \in DOMAIN workCh' : k + 1 \in DOMAIN workCh /\ workCh'[k] = workCh[k + 1]
                                     /\ k + 1 # 1
        /\ \A k \in DOMAIN workCh : k = 1 \/ (k - 1 \in DOMAIN workCh' /\ workCh'[k - 1] = workCh[k])
        /\ \A k, l \in DOMAIN workCh' : k # l => k + 1 # l + 1
    BY <1>4, <2>1
  <2>3. /\ h \in DOMAIN items /\ items[h].status = "in_progress" /\ h # feeder.item
        /\ \A k \in DOMAIN workCh' : workCh'[k] # h
        /\ \A v \in Workers : IsBusy(v) => Held(v) # h
    BY <2>2 DEF CrawlInv, Custody, ChannelHolds, WorkersHold
  <2>4. h \in Nat
    BY <2>1, <2>2
  <2> HIDE DEF h
  <2>5. r \in WorkerRecord /\ r.at = "check" /\ r.item = h
    BY <1>1, <2>4 DEF WorkerRecord, WorkerStates
  <2>6. worker' = [worker EXCEPT ![w] = r]
    BY <2>1 DEF CrawlInv, CrawlTypes
  <2> HIDE DEF r
  <2>7. /\ worker' \in [Workers -> WorkerRecord]
        /\ \A v \in Workers \ {w} : worker'[v] = worker[v]
        /\ worker'[w].at = "check" /\ worker'[w].item = h
    BY <2>5, <2>6 DEF CrawlInv, CrawlTypes
  <2>8. /\ IsBusy(w)' /\ Held(w)' = h
        /\ \A v \in Workers \ {w} : Held(v)' = Held(v) /\ IsBusy(v)' = IsBusy(v)
    BY <2>7 DEF Held, IsBusy, Busy
  <2>0. ChannelHolds /\ WorkersHold /\ NobodyElseHolds /\ MarkedIsHeld /\ feeder' = feeder
    BY DEF CrawlInv, Custody
  <2>9. CrawlTypes'
    BY <1>1, <2>2, <2>7 DEF CrawlInv, CrawlTypes
  <2>10. FeederHolds'
    BY <1>1 DEF CrawlInv, Custody, FeederHolds
  <2>11. ChannelHolds'
    BY ONLY <1>1, <2>2, <2>0 DEF ChannelHolds
  <2>12. WorkersHold'
    BY ONLY <1>1, <2>2, <2>3, <2>8, <2>0 DEF WorkersHold
  <2>13. NobodyElseHolds'
    BY ONLY <1>1, <2>7, <2>8, <2>0 DEF NobodyElseHolds
  <2>14. MarkedIsHeld'
    BY ONLY <1>1, <2>2, <2>8, <2>0 DEF MarkedIsHeld
  <2>15. QED
    BY <1>3, <2>9, <2>10, <2>11, <2>12, <2>13, <2>14 DEF Custody
<1>5. CASE workCh = <<>>
  <2>1. Become(w, "done") /\ workCh' = workCh
    BY <1>5 DEF Receive
  <2>2. /\ worker' \in [Workers -> WorkerRecord]
        /\ \A v \in Workers \ {w} : worker'[v] = worker[v]
        /\ worker'[w].at = "done" /\ worker'[w].item = worker[w].item
    BY <2>1, BecomeFacts DEF CrawlInv, WorkerStates
  <2>3. \A v \in Workers : Held(v)' = Held(v) /\ IsBusy(v)' = IsBusy(v)
    BY <1>1, <2>2 DEF Held, IsBusy, Busy
  <2>4. CrawlTypes'
    BY <1>1, <2>1, <2>2 DEF CrawlInv, CrawlTypes
  <2>5. FeederHolds' /\ ChannelHolds'
    BY <1>1, <2>1 DEF CrawlInv, Custody, FeederHolds, ChannelHolds
  <2>6. WorkersHold' /\ MarkedIsHeld'
    BY <1>1, <2>1, <2>3 DEF CrawlInv, Custody, WorkersHold, MarkedIsHeld
  <2>7. NobodyElseHolds'
    BY <1>1, <1>2, <2>2, <2>3 DEF CrawlInv, Custody, NobodyElseHolds
  <2>8. QED
    BY <1>3, <2>4, <2>5, <2>6, <2>7 DEF Custody
<1>6. QED
  BY <1>4, <1>5

(* A link that is queued is new, pending and in nobody's hands. *)
LEMMA ExtractKeeps ==
  ASSUME CrawlInv, NEW w \in Workers, ExtractLink(w), UNCHANGED feeder
  PROVE  CrawlTypes' /\ Custody' /\ KeysApart'
<1> DEFINE link == Head(worker[w].links)
<1>1. /\ worker[w].at = "extract" /\ worker[w] \in WorkerRecord
      /\ ~IsBusy(w) /\ workCh' = workCh
  BY DEF ExtractLink, CrawlInv, CrawlTypes, IsBusy, Busy
<1>2. /\ Held(w) \in DOMAIN items /\ items[Held(w)].status = "completed"
      /\ worker[w].links # <<>>
  BY <1>1 DEF CrawlInv, Custody, NobodyElseHolds
<1>3. worker[w].links \in Seq(Links)
  BY <1>1 DEF WorkerRecord
<1>4. link \in Links
  BY <1>2, <1>3
<1>5. items[Held(w)].depth + 1 \in Nat
  BY <1>2, ItemsFrom1 DEF CrawlInv, Item
<1> HIDE DEF link
<1>6. /\ items' \in Seq(Item)
      /\ DOMAIN items \subseteq DOMAIN items'
      /\ \A j \in DOMAIN items : items'[j] = items[j]
      /\ \A j \in DOMAIN items' \ DOMAIN items : items'[j].status = "pending"
      /\ KeysApart'
  <2>1. CASE Queued(Filter, link.to, link.type)
    <3>1. link.to \in Addresses
      BY <1>4, <2>1 DEF Addresses
    <3>2. Add(link.to, items[Held(w)].depth + 1)
      BY <2>1 DEF ExtractLink, link
    <3>3. QED
      BY <1>5, <3>1, <3>2, AddFacts DEF CrawlInv
  <2>2. CASE ~Queued(Filter, link.to, link.type)
    <3>1. items' = items
      BY <2>2 DEF ExtractLink, link
    <3>2. QED
      BY <3>1 DEF CrawlInv, CrawlTypes, KeysApart
  <2>3. QED  BY <2>1, <2>2
<1>7. /\ worker' \in [Workers -> WorkerRecord]
      /\ \A v \in Workers \ {w} : worker'[v] = worker[v]
      /\ \/ worker'[w].at = "recv" /\ worker'[w].item = 0
         \/ /\ worker'[w].at = "extract" /\ worker'[w].item = worker[w].item
            /\ worker'[w].links # <<>>
  <2>1. CASE Len(worker[w].links) = 1
    BY <2>1, ReleaseFacts DEF ExtractLink, CrawlInv
  <2>2. CASE Len(worker[w].links) # 1
    <3> DEFINE rest == Tail(worker[w].links)
               r == [worker[w] EXCEPT !.links = rest]
    <3>1. rest \in Seq(Links) /\ rest # <<>>
      <4> DEFINE q == worker[w].links
      <4>1. q \in Seq(Links) /\ q # <<>> /\ Len(q) # 1
        BY <1>2, <1>3, <2>2
      <4> HIDE DEF q
      <4>2. Tail(q) \in Seq(Links) /\ Len(Tail(q)) = Len(q) - 1
        BY ONLY <4>1, HeadTailProperties
      <4>3. Len(q) \in Nat
        BY ONLY <4>1, LenProperties
      <4>5. ASSUME Tail(q) = <<>> PROVE FALSE
        <5>1. Len(Tail(q)) = 0
          BY <4>5, EmptySeq
        <5>2. QED
          BY ONLY <5>1, <4>1, <4>2, <4>3
      <4>4. QED
        BY <4>2, <4>5 DEF q
    <3>2. worker' = [worker EXCEPT ![w].links = rest]
      BY <2>2 DEF ExtractLink, CrawlInv, CrawlTypes
    <3> HIDE DEF rest
    <3>3. r \in WorkerRecord /\ r.at = worker[w].at /\ r.item = worker[w].item /\ r.links = rest
      BY <1>1, <3>1 DEF WorkerRecord
    <3>4. worker' = [worker EXCEPT ![w] = r]
      BY <3>2 DEF CrawlInv, CrawlTypes
    <3> HIDE DEF r
    <3>5. QED
      BY <1>1, <3>1, <3>3, <3>4 DEF CrawlInv, CrawlTypes
  <2>3. QED  BY <2>1, <2>2
<1>8. \A v \in Workers : /\ IsBusy(v)' = IsBusy(v)
                         /\ IsBusy(v) => Held(v)' = Held(v)
                         /\ v # w => worker'[v] = worker[v] /\ Held(v)' = Held(v)
  BY <1>1, <1>7 DEF Held, IsBusy, Busy
<1>9. CrawlTypes'
  BY <1>1, <1>6, <1>7 DEF CrawlInv, CrawlTypes
<1>10. FeederHolds' /\ ChannelHolds'
  BY <1>1, <1>6 DEF CrawlInv, Custody, FeederHolds, ChannelHolds
<1>11. WorkersHold'
  BY <1>1, <1>6, <1>8 DEF CrawlInv, Custody, WorkersHold
<1>12. NobodyElseHolds'
  <2>1. Held(w)' = worker'[w].item /\ Held(w) = worker[w].item
    BY DEF Held
  <2>2. QED
    BY <1>1, <1>2, <1>6, <1>7, <1>8, <2>1 DEF CrawlInv, Custody, NobodyElseHolds
<1>13. MarkedIsHeld'
  BY <1>1, <1>6, <1>8 DEF CrawlInv, Custody, MarkedIsHeld
<1>14. QED
  BY <1>6, <1>9, <1>10, <1>11, <1>12, <1>13 DEF Custody

-----------------------------------------------------------------------------
LEMMA ReleaseSettles ==
  ASSUME CrawlInv, NEW w \in Workers, IsBusy(w),
         NEW s \in {"completed", "failed", "skipped"}, SetStatus(Held(w), s),
         Release(w), UNCHANGED <<workCh, feeder>>
  PROVE  CrawlTypes' /\ Custody' /\ KeysApart'
<1>1. /\ worker' \in [Workers -> WorkerRecord]
      /\ \A v \in Workers \ {w} : worker'[v] = worker[v]
      /\ worker'[w].at = "recv" /\ worker'[w].item = 0
  BY ReleaseFacts DEF CrawlInv
<1>2. QED
  BY <1>1, Settles

LEMMA JudgeKeeps ==
  ASSUME CrawlInv, NEW w \in Workers, IsBusy(w), NEW rules, Judge(w, rules),
         UNCHANGED <<workCh, feeder>>
  PROVE  CrawlTypes' /\ Custody' /\ KeysApart'
<1>1. CASE rules = "rules" /\ normalizeURL(items[Held(w)].url) \in Disallowed
  BY <1>1, ReleaseSettles DEF Judge
<1>2. CASE ~(rules = "rules" /\ normalizeURL(items[Held(w)].url) \in Disallowed)
  BY <1>2, GoesOn DEF Judge, Busy
<1>3. QED  BY <1>1, <1>2

LEMMA FailedKeeps ==
  ASSUME CrawlInv, NEW w \in Workers, IsBusy(w), Failed(w), UNCHANGED <<workCh, feeder>>
  PROVE  CrawlTypes' /\ Custody' /\ KeysApart'
  BY ReleaseSettles DEF Failed

(* What a worker does keeps the items in one pair of hands. *)
LEMMA WorkKeeps ==
  ASSUME CrawlInv, NEW w \in Workers, Work(w)
  PROVE  CrawlTypes' /\ Custody' /\ KeysApart'
<1> feeder' = feeder
  BY DEF Work
<1>1. CASE Receive(w)
  BY <1>1, ReceiveKeeps
<1>2. CASE CheckContext(w)
  <2>1. IsBusy(w) /\ workCh' = workCh
    BY <1>2 DEF CheckContext, IsBusy, Busy
  <2>2. CASE cancelled
    <3> DEFINE r == [at |-> "done", item |-> 0, links |-> <<>>]
    <3>1. r \in WorkerRecord /\ r.at = "done" /\ r.item = 0
      BY DEF WorkerRecord, WorkerStates
    <3>2. worker' = [worker EXCEPT ![w] = r] /\ SetStatus(Held(w), "skipped")
      BY <1>2, <2>2 DEF CheckContext
    <3> HIDE DEF r
    <3>3. /\ worker' \in [Workers -> WorkerRecord]
          /\ \A v \in Workers \ {w} : worker'[v] = worker[v]
          /\ worker'[w].at = "done" /\ worker'[w].item = 0
      BY <3>1, <3>2 DEF CrawlInv, CrawlTypes
    <3>4. QED
      BY <2>1, <3>2, <3>3, Settles
  <2>3. CASE ~cancelled
    <3>1. Become(w, "robots") /\ items' = items
      BY <1>2, <2>3 DEF CheckContext
    <3>2. QED
      BY <2>1, <3>1, GoesOn DEF Busy
  <2>4. QED  BY <2>2, <2>3
<1>3. CASE CheckRobots(w)
  <2>1. IsBusy(w) /\ workCh' = workCh
    BY <1>3 DEF CheckRobots, IsBusy, Busy
  <2>2. CASE \E rules : Judge(w, rules)
    BY <2>1, <2>2, JudgeKeeps
  <2>3. CASE Become(w, "fetching") /\ items' = items
    BY <2>1, <2>3, GoesOn DEF Busy
  <2>4. QED
    BY <1>3, <2>2, <2>3 DEF CheckRobots
<1>4. CASE FetchRobots(w)
  <2>1. IsBusy(w) /\ workCh' = workCh
    BY <1>4 DEF FetchRobots, IsBusy, Busy
  <2>2. \E rules : Judge(w, rules)
    BY <1>4 DEF FetchRobots
  <2>3. QED
    BY <2>1, <2>2, JudgeKeeps
<1>5. CASE Get(w)
  <2>1. IsBusy(w) /\ workCh' = workCh
    BY <1>5 DEF Get, IsBusy, Busy
  <2>2. CASE Become(w, "save") /\ items' = items
    BY <2>1, <2>2, GoesOn DEF Busy
  <2>3. CASE Failed(w)
    BY <2>1, <2>3, FailedKeeps
  <2>4. QED
    BY <1>5, <2>2, <2>3 DEF Get
<1>6. CASE Save(w)
  <2>1. IsBusy(w) /\ workCh' = workCh /\ worker[w].at = "save"
    BY <1>6 DEF Save, IsBusy, Busy
  <2>2. CASE Failed(w)
    BY <2>1, <2>2, FailedKeeps
  <2>3. CASE SetStatus(Held(w), "completed") /\ LinksOf(Held(w)) = <<>> /\ Release(w)
    BY <2>1, <2>3, ReleaseSettles
  <2>4. CASE /\ SetStatus(Held(w), "completed") /\ LinksOf(Held(w)) # <<>>
             /\ worker' = [worker EXCEPT ![w].at = "extract", ![w].links = LinksOf(Held(w))]
    <3> DEFINE l == LinksOf(Held(w))
               r == [worker[w] EXCEPT !.at = "extract", !.links = l]
    <3>1. Held(w) \in DOMAIN items /\ worker[w] \in WorkerRecord
      BY <2>1 DEF CrawlInv, CrawlTypes, Custody, WorkersHold
    <3>2. items[Held(w)].url \in Addresses
      BY <3>1, ItemsFrom1 DEF CrawlInv, Item
    <3>3. l \in Seq(Links)
      BY <3>2, SiteAssumption DEF LinksOf
    <3>4. worker' = [worker EXCEPT ![w].at = "extract", ![w].links = l] /\ l # <<>>
      BY <2>4
    <3> HIDE DEF l
    <3>5. r \in WorkerRecord /\ r.at = "extract" /\ r.item = worker[w].item /\ r.links = l
      BY <3>1, <3>3 DEF WorkerRecord, WorkerStates
    <3>6. worker' = [worker EXCEPT ![w] = r]
      BY <3>4 DEF CrawlInv, CrawlTypes
    <3> HIDE DEF r
    <3>7. /\ worker' \in [Workers -> WorkerRecord]
          /\ \A v \in Workers \ {w} : worker'[v] = worker[v]
          /\ worker'[w].at = "extract" /\ worker'[w].item = worker[w].item
          /\ worker'[w].links # <<>>
      BY <3>4, <3>5, <3>6 DEF CrawlInv, CrawlTypes
    <3>8. QED
      BY <2>1, <2>4, <3>7, Settles
  <2>5. QED
    BY <1>6, <2>2, <2>3, <2>4 DEF Save
<1>7. CASE ExtractLink(w)
  BY <1>7, ExtractKeeps
<1>8. QED
  BY <1>1, <1>2, <1>3, <1>4, <1>5, <1>6, <1>7 DEF Work

-----------------------------------------------------------------------------
(* Steps that leave the items and the channel alone, and the feeder without
   an item.                                                                *)
LEMMA FeederWaits ==
  ASSUME CrawlInv, feeder.item = 0,
         feeder' \in FeederRecord, feeder'.item = 0, feeder'.at # "send",
         UNCHANGED <<items, workCh, worker>>
  PROVE  CrawlTypes' /\ Custody' /\ KeysApart'
<1>1. CrawlTypes' /\ KeysApart'
  BY DEF CrawlInv, CrawlTypes, KeysApart
<1>2. FeederHolds' /\ ChannelHolds'
  BY DEF CrawlInv, Custody, FeederHolds, ChannelHolds
<1>3. \A w \in Workers : Held(w)' = Held(w) /\ IsBusy(w)' = IsBusy(w)
  BY DEF Held, IsBusy
<1>4. WorkersHold' /\ NobodyElseHolds' /\ MarkedIsHeld'
  BY <1>3 DEF CrawlInv, Custody, WorkersHold, NobodyElseHolds, MarkedIsHeld
<1>5. QED
  BY <1>1, <1>2, <1>4 DEF Custody

(* URLQueue.Next gives the feeder an item that nobody holds. *)
LEMMA FeedTakes ==
  ASSUME CrawlInv, feeder.item = 0, NEW i \in Pending,
         feeder' = [at |-> "send", item |-> i], SetStatus(i, "in_progress"),
         UNCHANGED <<workCh, worker>>
  PROVE  CrawlTypes' /\ Custody' /\ KeysApart'
<1>1. i \in DOMAIN items /\ items[i].status = "pending" /\ i \in Nat /\ i # 0
  BY ItemsFrom1 DEF Pending, CrawlInv
<1>2. /\ items' \in Seq(Item)
      /\ DOMAIN items' = DOMAIN items
      /\ \A j \in DOMAIN items : items'[j].url = items[j].url
      /\ \A j \in DOMAIN items \ {i} : items'[j] = items[j]
      /\ items'[i].status = "in_progress"
  BY <1>1, SetStatusFacts DEF CrawlInv, Statuses
<1>3. feeder' \in FeederRecord /\ feeder'.at = "send" /\ feeder'.item = i
  BY <1>1 DEF FeederRecord
<1>4. CrawlTypes' /\ KeysApart'
  BY <1>2, <1>3, KeysStay DEF CrawlInv, CrawlTypes
<1>5. \A w \in Workers : Held(w)' = Held(w) /\ IsBusy(w)' = IsBusy(w)
  BY DEF Held, IsBusy
<1>6. FeederHolds'
  BY <1>1, <1>2, <1>3 DEF FeederHolds
<1>7. ChannelHolds'
  BY <1>1, <1>2, <1>3 DEF CrawlInv, Custody, ChannelHolds
<1>8. WorkersHold'
  BY <1>1, <1>2, <1>3, <1>5 DEF CrawlInv, Custody, WorkersHold
<1>9. NobodyElseHolds'
  BY <1>1, <1>2, <1>5 DEF CrawlInv, Custody, NobodyElseHolds
<1>10. MarkedIsHeld'
  BY <1>1, <1>2, <1>3, <1>5 DEF CrawlInv, Custody, MarkedIsHeld
<1>11. QED
  BY <1>4, <1>6, <1>7, <1>8, <1>9, <1>10 DEF Custody

(* The item that is sent goes from the feeder's hands into the channel. *)
LEMMA FeedSends ==
  ASSUME CrawlInv, FeedSend, UNCHANGED worker
  PROVE  CrawlTypes' /\ Custody' /\ KeysApart'
<1> DEFINE f == feeder.item
           n == Len(workCh) + 1
<1>1. /\ workCh' = Append(workCh, f) /\ feeder' = [at |-> "next", item |-> 0]
      /\ items' = items
  BY DEF FeedSend
<1>2. f \in Nat /\ workCh \in Seq(Nat)
  BY DEF CrawlInv, CrawlTypes, FeederRecord
<1>3. feeder' \in FeederRecord /\ feeder'.at = "next" /\ feeder'.item = 0
  BY <1>1 DEF FeederRecord
<1>4. f \in DOMAIN items /\ items[f].status = "in_progress"
  BY DEF FeedSend, CrawlInv, Custody, FeederHolds
<1>5. ~(0 \in DOMAIN items)
  BY ItemsFrom1 DEF CrawlInv
<1>6. f # 0
  BY <1>4, <1>5
<1> HIDE DEF f
<1>7. /\ workCh' \in Seq(Nat) /\ DOMAIN workCh = 1 .. Len(workCh)
      /\ DOMAIN workCh' = 1 .. n /\ n \in Nat /\ n \notin DOMAIN workCh
      /\ \A k \in DOMAIN workCh : workCh'[k] = workCh[k]
      /\ workCh'[n] = f
  BY <1>1, <1>2
<1>8. DOMAIN workCh' = DOMAIN workCh \cup {n}
  BY <1>7, <1>2
<1> HIDE DEF n
<1>9. /\ \A k \in DOMAIN workCh : workCh[k] # f
      /\ \A w \in Workers : IsBusy(w) => Held(w) # f
  BY DEF CrawlInv, Custody, ChannelHolds, WorkersHold, f
<1>10. \A w \in Workers : Held(w)' = Held(w) /\ IsBusy(w)' = IsBusy(w)
  BY DEF Held, IsBusy
<1>11. CrawlTypes' /\ KeysApart'
  BY <1>1, <1>3, <1>7 DEF CrawlInv, CrawlTypes, KeysApart
<1>12. FeederHolds'
  BY <1>3 DEF FeederHolds
<1>13. ChannelHolds'
  <2>1. ChannelHolds
    BY DEF CrawlInv, Custody
  <2>2. \A k \in DOMAIN workCh' : /\ workCh'[k] \in DOMAIN items
                                  /\ items[workCh'[k]].status = "in_progress"
    BY <1>4, <1>6, <1>7, <1>8, <2>1 DEF ChannelHolds
  <2>3. \A k, l \in DOMAIN workCh' : (k # l) => (workCh'[k] # workCh'[l])
    BY ONLY <1>7, <1>8, <1>9, <2>1 DEF ChannelHolds
  <2>4. \A k \in DOMAIN workCh' : workCh'[k] # feeder'.item
    BY <1>3, <1>5, <2>2
  <2>5. QED
    BY <1>1, <2>2, <2>3, <2>4 DEF ChannelHolds
<1>14. WorkersHold'
  <2>1. \A w \in Workers : IsBusy(w) => Held(w) # 0
    BY <1>5 DEF CrawlInv, Custody, WorkersHold
  <2>2. QED
    BY <1>1, <1>3, <1>7, <1>8, <1>9, <1>10, <2>1 DEF CrawlInv, Custody, WorkersHold
<1>15. NobodyElseHolds'
  BY <1>1, <1>10 DEF CrawlInv, Custody, NobodyElseHolds
<1>16. MarkedIsHeld'
  <2>1. MarkedIsHeld /\ f = feeder.item
    BY DEF CrawlInv, Custody, f
  <2>2. QED
    BY ONLY <2>1, <1>1, <1>7, <1>8, <1>10 DEF MarkedIsHeld
<1>17. QED
  BY <1>11, <1>12, <1>13, <1>14, <1>15, <1>16 DEF Custody

LEMMA FeedKeeps ==
  ASSUME CrawlInv, Feed
  PROVE  CrawlTypes' /\ Custody' /\ KeysApart'
<1> worker' = worker
  BY DEF Feed
<1>1. feeder \in FeederRecord /\ (feeder.at # "send" => feeder.item = 0)
  BY DEF CrawlInv, CrawlTypes, Custody, FeederHolds
<1> DEFINE Waits(at) == feeder' = [feeder EXCEPT !.at = at] /\ UNCHANGED <<items, workCh>>
<1>2. ASSUME NEW at \in {"next", "sleep", "closed"}, feeder.at # "send", Waits(at)
      PROVE  CrawlTypes' /\ Custody' /\ KeysApart'
  <2>1. feeder' \in FeederRecord /\ feeder'.item = 0 /\ feeder'.at = at
    BY <1>1, <1>2 DEF FeederRecord
  <2>2. QED
    BY <1>1, <1>2, <2>1, FeederWaits
<1>3. CASE FeedNext
  <2>1. feeder.at # "send"
    BY <1>3 DEF FeedNext
  <2>2. CASE \E at \in {"next", "sleep", "closed"} : Waits(at)
    BY <1>2, <2>1, <2>2
  <2>3. CASE \E i \in Pending : /\ feeder' = [at |-> "send", item |-> i]
                                /\ SetStatus(i, "in_progress") /\ workCh' = workCh
    BY <1>1, <2>1, <2>3, FeedTakes
  <2>4. QED
    BY <1>3, <2>2, <2>3 DEF FeedNext, Close
<1>4. CASE FeedIdle
  <2>1. feeder.at # "send" /\ \E at \in {"next", "sleep", "closed"} : Waits(at)
    BY <1>4 DEF FeedIdle, Close
  <2>2. QED
    BY <1>2, <2>1
<1>5. CASE FeedSend
  BY <1>5, FeedSends
<1>6. QED
  BY <1>3, <1>4, <1>5 DEF Feed

(* The goroutines start with empty hands. *)
LEMMA CrawlKeeps ==
  ASSUME CrawlInv, Crawl
  PROVE  CrawlInv'
<1>1. /\ workCh' = workCh /\ main.at = "start" /\ main'.at # "start"
      /\ main' \in [at : {"start", "wait", "done"}, mode : Modes, exit : {-1, 0, 1, 3}]
      /\ feeder.at = "idle" /\ feeder \in FeederRecord /\ feeder.item = 0
      /\ \A w \in Workers : worker[w].at = "idle" /\ worker[w] \in WorkerRecord
  <2>1. feeder.at = "idle" /\ \A w \in Workers : worker[w].at = "idle"
    BY DEF Crawl, CrawlInv, NotYet
  <2>2. /\ main'.at # "start"
        /\ main' \in [at : {"start", "wait", "done"}, mode : Modes, exit : {-1, 0, 1, 3}]
    BY DEF Crawl, CrawlInv, NotYet
  <2>3. QED
    BY <2>1, <2>2 DEF Crawl, CrawlInv, CrawlTypes, Custody, FeederHolds
<1>2. NotYet'
  BY <1>1 DEF NotYet
<1>3. CASE UNCHANGED <<items, feeder, worker>>
  <2>1. CrawlTypes' /\ Custody' /\ KeysApart'
    BY <1>1, <1>3, FeederWaits DEF CrawlInv
  <2>2. QED
    BY <1>2, <2>1 DEF CrawlInv
<1>4. CASE /\ Add(Start, 0) /\ feeder' = [feeder EXCEPT !.at = "next"]
           /\ worker' = [w \in Workers |-> [worker[w] EXCEPT !.at = "recv"]]
  <2>1. Start \in Addresses
    BY DEF Addresses
  <2>2. /\ items' \in Seq(Item)
        /\ DOMAIN items \subseteq DOMAIN items'
        /\ \A j \in DOMAIN items : items'[j] = items[j]
        /\ \A j \in DOMAIN items' \ DOMAIN items : items'[j].status = "pending"
        /\ KeysApart'
    BY <1>4, <2>1, AddFacts DEF CrawlInv
  <2>3. feeder' \in FeederRecord /\ feeder'.at = "next" /\ feeder'.item = 0
    BY <1>1, <1>4 DEF FeederRecord
  <2>4. \A w \in Workers : [worker[w] EXCEPT !.at = "recv"] \in WorkerRecord
    BY <1>1 DEF WorkerRecord, WorkerStates
  <2>5. worker' \in [Workers -> WorkerRecord]
    BY <1>4, <2>4
  <2>6. \A w \in Workers : worker'[w].at = "recv" /\ worker'[w].item = worker[w].item
    BY <1>1, <1>4 DEF WorkerRecord
  <2>7. \A w \in Workers : ~IsBusy(w) /\ ~IsBusy(w)' /\ Held(w)' = 0
    BY <1>1, <2>6 DEF IsBusy, Busy, CrawlInv, Custody, NobodyElseHolds, Held
  <2>8. CrawlTypes'
    BY <1>1, <2>2, <2>3, <2>5 DEF CrawlInv, CrawlTypes
  <2>9. FeederHolds' /\ ChannelHolds'
    BY <1>1, <2>2, <2>3 DEF CrawlInv, Custody, FeederHolds, ChannelHolds
  <2>10. WorkersHold' /\ NobodyElseHolds'
    BY <2>6, <2>7 DEF WorkersHold, NobodyElseHolds
  <2>11. MarkedIsHeld'
    BY <1>1, <2>2, <2>3, <2>7 DEF CrawlInv, Custody, MarkedIsHeld
  <2>12. QED
    BY <1>2, <2>2, <2>8, <2>9, <2>10, <2>11 DEF CrawlInv, Custody
<1>5. QED
  BY <1>3, <1>4 DEF Crawl

-----------------------------------------------------------------------------
LEMMA CrawlInit == Init => CrawlInv
<1> SUFFICES ASSUME Init PROVE CrawlInv
  OBVIOUS
<1>1. /\ items = <<>> /\ workCh = <<>> /\ DOMAIN items = {} /\ DOMAIN workCh = {}
      /\ feeder = [at |-> "idle", item |-> 0]
  BY DEF Init
<1> DEFINE r == [at |-> "idle", item |-> 0, links |-> <<>>]
<1>2. r \in WorkerRecord /\ r.at = "idle" /\ r.item = 0
  BY DEF WorkerRecord, WorkerStates
<1>3. worker = [w \in Workers |-> r]
  BY DEF Init
<1> HIDE DEF r
<1>4. /\ worker \in [Workers -> WorkerRecord]
      /\ \A w \in Workers : worker[w].at = "idle" /\ Held(w) = 0 /\ ~IsBusy(w)
  BY <1>2, <1>3 DEF Held, IsBusy, Busy
<1>5. CrawlTypes
  BY <1>1, <1>4 DEF CrawlTypes, FeederRecord
<1>6. Custody
  BY <1>1, <1>4 DEF Custody, FeederHolds, ChannelHolds, WorkersHold, NobodyElseHolds,
                    MarkedIsHeld
<1>7. KeysApart /\ NotYet
  BY <1>1, <1>4 DEF KeysApart, NotYet, Init
<1>8. QED
  BY <1>5, <1>6, <1>7 DEF CrawlInv

LEMMA CrawlStep == CrawlInv /\ [Next]_vars => CrawlInv'
<1> SUFFICES ASSUME CrawlInv, [Next]_vars PROVE CrawlInv'
  OBVIOUS
<1>1. CASE Crawl
  BY <1>1, CrawlKeeps
<1>2. CASE UNCHANGED <<items, workCh, feeder, worker>> /\ NotYet'
  <2>1. CrawlTypes' /\ KeysApart'
    BY <1>2 DEF CrawlInv, CrawlTypes, KeysApart
  <2>2. FeederHolds' /\ ChannelHolds'
    BY <1>2 DEF CrawlInv, Custody, FeederHolds, ChannelHolds
  <2>3. WorkersHold' /\ NobodyElseHolds' /\ MarkedIsHeld'
    BY <1>2 DEF CrawlInv, Custody, WorkersHold, NobodyElseHolds, MarkedIsHeld, Held, IsBusy
  <2>4. QED
    BY <1>2, <2>1, <2>2, <2>3 DEF CrawlInv, Custody
<1>3. CASE Interrupt
  <2>1. UNCHANGED <<items, workCh, feeder, worker, main>>
    BY <1>3 DEF Interrupt
  <2>2. QED
    BY <1>2, <2>1 DEF CrawlInv, NotYet
<1>4. CASE main.at = "wait" /\ Feed
  <2>1. CrawlTypes' /\ Custody' /\ KeysApart' /\ main' = main
    BY <1>4, FeedKeeps DEF Feed
  <2>2. QED
    BY <1>4, <2>1 DEF CrawlInv, NotYet
<1>5. CASE main.at = "wait" /\ \E w \in Workers : Work(w)
  <2>1. CrawlTypes' /\ Custody' /\ KeysApart' /\ main' = main
    BY <1>5, WorkKeeps DEF Work
  <2>2. QED
    BY <1>5, <2>1 DEF CrawlInv, NotYet
<1>6. CASE Return
  <2>1. UNCHANGED <<items, workCh, feeder, worker>>
    BY <1>6 DEF Return
  <2>2. NotYet'
    BY <1>6 DEF Return, CrawlInv, NotYet
  <2>3. QED
    BY <1>2, <2>1, <2>2
<1>7. CASE UNCHANGED vars
  BY <1>2, <1>7 DEF vars, CrawlInv, NotYet
<1>8. QED
  BY <1>1, <1>3, <1>4, <1>5, <1>6, <1>7 DEF Next, Exited

LEMMA CrawlInvariant == Spec => []CrawlInv
  BY CrawlInit, CrawlStep, PTL DEF Spec

-----------------------------------------------------------------------------
(* The hands an item is in, as OneHolder counts them. *)
LEMMA HolderIsOne == CrawlInv => OneHolder
<1> SUFFICES ASSUME CrawlInv, NEW i \in DOMAIN items
             PROVE  Cardinality(Places(i)) = IF items[i].status = "in_progress" THEN 1 ELSE 0
  BY DEF OneHolder
<1>1. i # 0
  BY ItemsFrom1 DEF CrawlInv
<1>2. \A w \in Workers : (Held(w) = i /\ worker[w].at # "extract") <=> (IsBusy(w) /\ Held(w) = i)
  BY <1>1 DEF CrawlInv, Custody, NobodyElseHolds, IsBusy, Busy
<1> DEFINE atFeeder  == IF feeder.item = i THEN {<<"feeder", 0>>} ELSE {}
           inChannel == {<<"channel", k>> : k \in {k \in DOMAIN workCh : workCh[k] = i}}
           atWorkers == {<<"worker", w>> : w \in {w \in Workers : /\ Held(w) = i
                                                                 /\ worker[w].at # "extract"}}
<1>3. Places(i) = atFeeder \cup inChannel \cup atWorkers
  BY DEF Places
<1>4. \A w \in Workers : IsBusy(w) /\ Held(w) = i =>
        /\ items[i].status = "in_progress" /\ feeder.item # i
        /\ \A k \in DOMAIN workCh : workCh[k] # i
        /\ \A v \in Workers : IsBusy(v) /\ Held(v) = i => v = w
  BY DEF CrawlInv, Custody, WorkersHold
<1>5. \A k \in DOMAIN workCh : workCh[k] = i =>
        /\ items[i].status = "in_progress" /\ feeder.item # i
        /\ \A l \in DOMAIN workCh : workCh[l] = i => l = k
  BY DEF CrawlInv, Custody, ChannelHolds
<1>6. feeder.item = i => items[i].status = "in_progress"
  BY <1>1 DEF CrawlInv, Custody, FeederHolds
<1>7. CASE items[i].status # "in_progress"
  <2>1. atFeeder = {} /\ inChannel = {} /\ atWorkers = {}
    BY <1>2, <1>4, <1>5, <1>6, <1>7
  <2>2. Places(i) = {}
    BY <1>3, <2>1
  <2>3. QED
    BY <1>7, <2>2, FS_EmptySet
<1>8. CASE items[i].status = "in_progress"
  <2>1. \E p : Places(i) = {p}
    <3>1. CASE feeder.item = i
      <4>1. atFeeder = {<<"feeder", 0>>} /\ inChannel = {} /\ atWorkers = {}
        BY <1>2, <1>4, <1>5, <3>1
      <4>2. QED  BY <1>3, <4>1
    <3>2. ASSUME NEW k \in DOMAIN workCh, workCh[k] = i PROVE \E p : Places(i) = {p}
      <4>1. atFeeder = {} /\ atWorkers = {}
        BY <1>2, <1>4, <1>5, <3>2
      <4>2. inChannel = {<<"channel", k>>}
        BY <1>5, <3>2
      <4>3. QED  BY <1>3, <4>1, <4>2
    <3>3. ASSUME NEW w \in Workers, IsBusy(w), Held(w) = i PROVE \E p : Places(i) = {p}
      <4>1. atFeeder = {} /\ inChannel = {}
        BY <1>4, <3>3
      <4>2. atWorkers = {<<"worker", w>>}
        BY <1>2, <1>4, <3>3
      <4>3. QED  BY <1>3, <4>1, <4>2
    <3>4. QED
      BY <1>8, <3>1, <3>2, <3>3 DEF CrawlInv, Custody, MarkedIsHeld
  <2>2. QED
    BY <1>8, <2>1, FS_Singleton
<1>9. QED
  BY <1>7, <1>8

(* What the feeder, the channel and the workers hold at any time are just the
   items that are marked as in progress, each of them once.                *)
THEOREM OneHolderAlways == Spec => []OneHolder
  BY CrawlInvariant, HolderIsOne, PTL

(* The port in the key of a URL. *)
KeyPort(scheme, port) ==
  IF (scheme = "http" /\ port = "80") \/ (scheme = "https" /\ port = "443") THEN "" ELSE port

LEMMA KeyOfUrl ==
  ASSUME NEW u, IsUrl(u)
  PROVE  normalizeURL(u) =
           [scheme |-> u.scheme, host |-> u.host, spelling |-> u.spelling,
            port |-> KeyPort(u.scheme, u.port), name |-> u.name, ext |-> u.ext,
            fragment |-> ""]
<1>1. PICK s, h, l, p, n, e, f :
        /\ s = u.scheme /\ h = u.host /\ l = u.spelling /\ p = u.port
        /\ n = u.name /\ e = u.ext /\ f = u.fragment
  OBVIOUS
<1>2. u = [scheme |-> s, host |-> h, spelling |-> l, port |-> p, name |-> n, ext |-> e,
           fragment |-> f]
  BY <1>1, Zenon DEF IsUrl
<1> DEFINE q == IF <<s, p>> \in {<<"http", "80">>, <<"https", "443">>} THEN "" ELSE p
<1>3. q = KeyPort(s, p)
  BY ONLY DEF q, KeyPort
<1>4. normalizeURL(u) = [u EXCEPT !.fragment = "", !.port = q]
  BY <1>1 DEF normalizeURL
<1> HIDE DEF q
<1>5. PICK r : r = [u EXCEPT !.fragment = ""]
  OBVIOUS
<1>6. r = [scheme |-> s, host |-> h, spelling |-> l, port |-> p, name |-> n, ext |-> e,
           fragment |-> ""]
  BY ONLY <1>2, <1>5
<1>7. normalizeURL(u) = [r EXCEPT !.port = q]
  BY <1>4, <1>5
<1>8. normalizeURL(u) = [scheme |-> s, host |-> h, spelling |-> l, port |-> q, name |-> n,
                         ext |-> e, fragment |-> ""]
  BY ONLY <1>6, <1>7
<1>9. QED
  BY <1>1, <1>3, <1>8, Zenon

LEMMA PortDecides ==
  ASSUME NEW u, NEW v, u.scheme = v.scheme, PortOf(u) = PortOf(v)
  PROVE  KeyPort(u.scheme, u.port) = KeyPort(v.scheme, v.port)
<1>1. PICK s, p, q : s = u.scheme /\ s = v.scheme /\ p = u.port /\ q = v.port
  OBVIOUS
<1>2. (IF p # "" THEN p ELSE IF s = "http" THEN "80" ELSE IF s = "https" THEN "443" ELSE "") =
      (IF q # "" THEN q ELSE IF s = "http" THEN "80" ELSE IF s = "https" THEN "443" ELSE "")
  BY <1>1 DEF PortOf
<1>3. KeyPort(s, p) = KeyPort(s, q)
  BY ONLY <1>2 DEF KeyPort
<1>4. QED
  BY <1>1, <1>3

(* Two items for one request would have one key, and the key of an item never
   enters the queue again, whichever workers find the page at once, with which
   fragments and ports.                                                     *)
THEOREM RequestsMadeOnce == Spec => []NoRequestTwice
<1>1. CrawlInv => NoRequestTwice
  <2> SUFFICES ASSUME CrawlInv, NEW i \in DOMAIN items, NEW j \in DOMAIN items, i # j,
                      Request(items[i].url) = Request(items[j].url)
               PROVE  FALSE
    BY DEF NoRequestTwice
  <2> DEFINE u == items[i].url
             v == items[j].url
  <2>1. IsUrl(u) /\ IsUrl(v)
    BY ItemsFrom1, SiteAssumption DEF CrawlInv, Item
  <2>2. normalizeURL(u) # normalizeURL(v)
    BY DEF CrawlInv, KeysApart
  <2>3. Request(u) = Request(v)
    OBVIOUS
  <2> HIDE DEF u, v
  <2>4. /\ u.scheme = v.scheme /\ u.host = v.host /\ u.spelling = v.spelling
        /\ PortOf(u) = PortOf(v) /\ u.name = v.name /\ u.ext = v.ext
    BY <2>3 DEF Request
  <2>5. KeyPort(u.scheme, u.port) = KeyPort(v.scheme, v.port)
    BY <2>4, PortDecides
  <2>6. \A w : IsUrl(w) => normalizeURL(w) =
          [scheme |-> w.scheme, host |-> w.host, spelling |-> w.spelling,
           port |-> KeyPort(w.scheme, w.port), name |-> w.name, ext |-> w.ext, fragment |-> ""]
    BY KeyOfUrl
  <2>8. normalizeURL(u) = normalizeURL(v)
    BY <2>1, <2>4, <2>5, <2>6
  <2>7. QED
    BY <2>2, <2>8
<1>2. QED
  BY <1>1, CrawlInvariant, PTL

-----------------------------------------------------------------------------
(* What RobotsObeyed protects: a page that its host excludes, by a file that
   can always be read.                                                     *)
Excluded(u) == /\ RespectRobots
               /\ RobotsAnswers[Origin(u)] = {"rules"}
               /\ normalizeURL(u) \in Disallowed

HeldUrl(w) == items[Held(w)].url

(* Such a file is in the cache as what it is, or the crawl was interrupted;
   who passed it by can only fail.                                         *)
RobotsInv ==
  /\ robots \in [Origins -> {"absent", "rules", "none"}]
  /\ \A o \in Origins :
       (RobotsAnswers[o] = {"rules"} /\ robots[o] = "none") => cancelled
  /\ \A w \in Workers : /\ worker[w].at = "get" /\ Excluded(HeldUrl(w)) => cancelled
                        /\ worker[w].at = "save" => ~Excluded(HeldUrl(w))
  /\ \A i \in DOMAIN items : Excluded(items[i].url) => items[i].status # "completed"

(* An item keeps its place in the queue, its address and its depth. *)
Keeps(j) == /\ j \in DOMAIN items'
            /\ items'[j].url = items[j].url
            /\ items'[j].depth = items[j].depth

(* The other workers notice nothing, whatever the step does to the items. *)
LEMMA OthersKeepTheirs ==
  ASSUME CrawlInv, NEW w \in Workers, Work(w)
  PROVE  /\ \A v \in Workers \ {w} : worker'[v] = worker[v]
         /\ \A j \in DOMAIN items : Keeps(j)
         /\ \A v \in Workers : IsBusy(v) => Held(v) \in DOMAIN items
         /\ cancelled' = cancelled
<1>1. \A v \in Workers : IsBusy(v) => Held(v) \in DOMAIN items
  BY DEF CrawlInv, Custody, WorkersHold
<1>2. \A v \in Workers \ {w} : worker'[v] = worker[v]
  BY DEF Work, Receive, CheckContext, CheckRobots, FetchRobots, Get, Save, ExtractLink,
         Judge, Failed, Become, Release, CrawlInv, CrawlTypes
<1>3. \A j \in DOMAIN items : Keeps(j)
  <2>1. ASSUME NEW s, SetStatus(Held(w), s)
        PROVE  \A j \in DOMAIN items : Keeps(j)
    BY <2>1, ItemsFrom1 DEF Keeps, SetStatus, CrawlInv, CrawlTypes, Item
  <2>2. ASSUME NEW u, NEW d, Add(u, d)
        PROVE  \A j \in DOMAIN items : Keeps(j)
    <3>1. CASE normalizeURL(u) \in visited
      BY <2>2, <3>1 DEF Keeps, Add
    <3>2. CASE normalizeURL(u) \notin visited
      <4> DEFINE n == NewItem(u, d)
      <4>1. items' = Append(items, n)
        BY <2>2, <3>2 DEF Add
      <4> HIDE DEF n
      <4>2. QED
        BY <4>1 DEF Keeps, CrawlInv, CrawlTypes
    <3>3. QED  BY <3>1, <3>2
  <2>3. CASE items' = items
    BY <2>3 DEF Keeps
  <2>4. QED
    BY <2>1, <2>2, <2>3 DEF Work, Receive, CheckContext, CheckRobots, FetchRobots, Get, Save,
                            ExtractLink, Judge, Failed
<1>4. QED
  BY <1>1, <1>2, <1>3 DEF Work

(* Only a judgement lets a worker send a request, and only an answer to it
   lets it save the page.                                                  *)
LEMMA WhereWorkersGo ==
  ASSUME CrawlInv, NEW w \in Workers, Work(w)
  PROVE  /\ worker'[w].at = "get" =>
              /\ UNCHANGED items /\ Held(w)' = Held(w) /\ IsBusy(w)
              /\ \/ CheckRobots(w) /\ Become(w, "get")
                 \/ FetchRobots(w) /\ Become(w, "get")
         /\ worker'[w].at = "save" =>
              UNCHANGED items /\ Held(w)' = Held(w) /\ worker[w].at = "get" /\ ~cancelled
<1>1. \A at \in WorkerStates : Become(w, at) => worker'[w].at = at /\ Held(w)' = Held(w)
  BY BecomeFacts DEF CrawlInv, Held
<1>2. Release(w) => worker'[w].at = "recv"
  BY ReleaseFacts DEF CrawlInv
<1> DEFINE Elsewhere == worker'[w].at \notin {"get", "save"}
<1>3. Release(w) => Elsewhere
  BY <1>2
<1>4. worker[w] \in WorkerRecord /\ worker \in [Workers -> WorkerRecord]
  BY DEF CrawlInv, CrawlTypes
<1>5. CASE Receive(w)
  BY <1>1, <1>4, <1>5 DEF Receive, WorkerStates, WorkerRecord
<1>6. CASE CheckContext(w)
  BY <1>1, <1>4, <1>6 DEF CheckContext, WorkerStates
<1>7. CASE CheckRobots(w) \/ FetchRobots(w)
  <2>1. IsBusy(w)
    BY <1>7 DEF CheckRobots, FetchRobots, IsBusy, Busy
  <2>2. CASE Release(w)
    BY <1>3, <2>2
  <2>3. CASE Become(w, "fetching")
    BY <1>1, <2>3 DEF WorkerStates
  <2>4. CASE Become(w, "get") /\ UNCHANGED items
    BY <1>1, <1>7, <2>1, <2>4 DEF WorkerStates
  <2>5. QED
    BY <1>7, <2>2, <2>3, <2>4 DEF CheckRobots, FetchRobots, Judge
<1>8. CASE Get(w)
  <2>1. CASE Failed(w)
    BY <1>3, <2>1 DEF Failed
  <2>2. CASE ~Failed(w)
    <3>1. Become(w, "save") /\ UNCHANGED items /\ worker[w].at = "get" /\ ~cancelled
      BY <1>8, <2>2 DEF Get
    <3>2. QED
      BY <1>1, <3>1 DEF WorkerStates
  <2>3. QED  BY <2>1, <2>2
<1>9. CASE Save(w)
  <2>1. CASE Release(w)
    BY <1>3, <2>1
  <2>2. CASE worker' = [worker EXCEPT ![w].at = "extract", ![w].links = LinksOf(Held(w))]
    <3> DEFINE l == LinksOf(Held(w))
    <3>1. worker' = [worker EXCEPT ![w].at = "extract", ![w].links = l]
      BY <2>2
    <3> HIDE DEF l
    <3>2. worker'[w].at = "extract"
      BY <1>4, <3>1 DEF WorkerRecord
    <3>3. QED  BY <3>2
  <2>3. QED
    BY <1>9, <2>1, <2>2 DEF Save, Failed
<1>10. CASE ExtractLink(w)
  <2>1. CASE Release(w)
    BY <1>3, <2>1
  <2>2. CASE ~Release(w)
    <3> DEFINE l == Tail(worker[w].links)
    <3>1. worker' = [worker EXCEPT ![w].links = l] /\ worker[w].at = "extract"
      BY <1>10, <2>2 DEF ExtractLink
    <3> HIDE DEF l
    <3>2. worker'[w].at = "extract"
      BY <1>4, <3>1 DEF WorkerRecord
    <3>3. QED  BY <3>2
  <2>3. QED  BY <2>1, <2>2
<1>11. QED
  BY <1>5, <1>6, <1>7, <1>8, <1>9, <1>10 DEF Work

(* An item is completed by the worker that saves its page, and by no other
   step.                                                                   *)
LEMMA WhoCompletes ==
  ASSUME CrawlInv, NEW w \in Workers, Work(w), NEW j \in DOMAIN items',
         items'[j].status = "completed"
  PROVE  /\ j \in DOMAIN items
         /\ items[j].status = "completed" \/ (j = Held(w) /\ worker[w].at = "save")
<1>1. ASSUME NEW s \in Statuses, SetStatus(Held(w), s), s = "completed" => worker[w].at = "save",
             IsBusy(w)
      PROVE  /\ j \in DOMAIN items
             /\ items[j].status = "completed" \/ (j = Held(w) /\ worker[w].at = "save")
  <2>1. Held(w) \in DOMAIN items
    BY <1>1 DEF CrawlInv, Custody, WorkersHold
  <2>2. /\ DOMAIN items' = DOMAIN items
        /\ \A k \in DOMAIN items \ {Held(w)} : items'[k] = items[k]
        /\ items'[Held(w)].status = s
    BY <1>1, <2>1, SetStatusFacts DEF CrawlInv
  <2>3. QED
    BY <1>1, <2>2
<1>2. CASE items' = items
  BY <1>2
<1>3. ASSUME ExtractLink(w)
      PROVE  j \in DOMAIN items /\ items[j].status = "completed"
  <2>1. CASE items' = items
    BY <2>1
  <2>2. CASE items' # items
    <3> DEFINE link == Head(worker[w].links)
    <3>1. /\ worker[w].at = "extract" /\ worker[w].links \in Seq(Links)
          /\ worker[w].links # <<>> /\ Held(w) \in DOMAIN items
      BY <1>3 DEF ExtractLink, CrawlInv, CrawlTypes, WorkerRecord, Custody, NobodyElseHolds
    <3>2. link \in Links /\ items[Held(w)].depth + 1 \in Nat
      BY <3>1, ItemsFrom1 DEF CrawlInv, Item
    <3> HIDE DEF link
    <3>3. Queued(Filter, link.to, link.type) /\ Add(link.to, items[Held(w)].depth + 1)
      BY <1>3, <2>2 DEF ExtractLink, link
    <3>4. link.to \in Addresses
      BY <3>2, <3>3 DEF Addresses
    <3>5. /\ \A k \in DOMAIN items : items'[k] = items[k]
          /\ \A k \in DOMAIN items' \ DOMAIN items : items'[k].status = "pending"
      BY <3>2, <3>3, <3>4, AddFacts DEF CrawlInv
    <3>6. QED
      BY <3>5
  <2>3. QED  BY <2>1, <2>2
<1>4. Failed(w) => SetStatus(Held(w), "failed")
  BY DEF Failed
<1>5. QED
  BY <1>1, <1>2, <1>3, <1>4 DEF Work, Receive, CheckContext, CheckRobots, FetchRobots, Get,
                                Save, Judge, IsBusy, Busy, Statuses

LEMMA RobotsWork ==
  ASSUME CrawlInv, RobotsInv, NEW w \in Workers, Work(w)
  PROVE  RobotsInv'
<1> DEFINE u == HeldUrl(w)
           o == Origin(u)
<1>1. /\ \A v \in Workers \ {w} : worker'[v] = worker[v]
      /\ \A j \in DOMAIN items : j \in DOMAIN items' /\ items'[j].url = items[j].url
      /\ \A v \in Workers : IsBusy(v) => Held(v) \in DOMAIN items
      /\ cancelled' = cancelled
  BY OthersKeepTheirs DEF Keeps
<1>2. IsBusy(w) => o \in Origins
  BY <1>1, ItemsFrom1, SiteAssumption DEF CrawlInv, Item, HeldUrl
<1>3. /\ robots' \in [Origins -> {"absent", "rules", "none"}]
      /\ \A q \in Origins :
           (RobotsAnswers[q] = {"rules"} /\ robots'[q] = "none") => cancelled
  <2>1. CASE robots' = robots
    BY <2>1 DEF RobotsInv
  <2>2. CASE FetchRobots(w)
    <3> HIDE DEF o
    <3>1. IsBusy(w)
      BY <2>2 DEF FetchRobots, IsBusy, Busy
    <3>2. PICK answer \in IF cancelled THEN {"error"} ELSE RobotsAnswers[o] :
            robots' = [robots EXCEPT ![o] = IF answer = "rules" THEN "rules" ELSE "none"]
      BY <2>2 DEF FetchRobots, o, HeldUrl
    <3> DEFINE rules == IF answer = "rules" THEN "rules" ELSE "none"
    <3>3. rules \in {"rules", "none"} /\ (RobotsAnswers[o] = {"rules"} /\ rules = "none" => cancelled)
      BY <3>2
    <3>4. robots' = [robots EXCEPT ![o] = rules]
      BY <3>2
    <3> HIDE DEF rules
    <3>5. QED
      BY <1>2, <3>1, <3>3, <3>4 DEF RobotsInv
  <2>3. QED
    BY <2>1, <2>2 DEF Work, Receive, CheckContext, CheckRobots, Get, Save, ExtractLink
<1>4. ASSUME NEW v \in Workers, v # w
      PROVE  (/\ worker[v].at = "get" /\ Excluded(HeldUrl(v)) => cancelled
              /\ worker[v].at = "save" => ~Excluded(HeldUrl(v)))'
  <2>1. worker'[v] = worker[v] /\ (IsBusy(v) => HeldUrl(v)' = HeldUrl(v))
    BY <1>1, <1>4 DEF HeldUrl, Held
  <2>2. worker[v].at \in {"get", "save"} => IsBusy(v)
    BY DEF IsBusy, Busy
  <2>3. QED
    BY <1>1, <2>1, <2>2 DEF RobotsInv
<1>5. worker'[w].at = "get" /\ Excluded(HeldUrl(w)') => cancelled
  <2>1. SUFFICES ASSUME worker'[w].at = "get", Excluded(HeldUrl(w)') PROVE cancelled
    OBVIOUS
  <2>2. /\ items' = items /\ Held(w)' = Held(w) /\ IsBusy(w)
        /\ \/ CheckRobots(w) /\ Become(w, "get")
           \/ FetchRobots(w) /\ Become(w, "get")
    BY <2>1, WhereWorkersGo
  <2>3. HeldUrl(w)' = u
    BY <2>2 DEF HeldUrl
  <2>4. RespectRobots /\ RobotsAnswers[o] = {"rules"} /\ normalizeURL(u) \in Disallowed
    BY <2>1, <2>3 DEF Excluded
  <2>5. \A rules : ~(Judge(w, rules) /\ rules = "rules")
    BY <2>1, <2>4, ReleaseFacts DEF Judge, HeldUrl, CrawlInv
  <2>6. CASE CheckRobots(w) /\ Become(w, "get")
    <3>1. robots[o] # "absent"
      BY <2>1, <2>4, <2>6, BecomeFacts DEF CheckRobots, HeldUrl, CrawlInv, WorkerStates
    <3>2. Judge(w, robots[o])
      BY <2>4, <2>6, <3>1 DEF CheckRobots, HeldUrl
    <3>3. robots[o] = "none"
      BY <1>2, <2>2, <2>5, <3>1, <3>2 DEF RobotsInv
    <3>4. QED
      BY <1>2, <2>2, <2>4, <3>3 DEF RobotsInv
  <2>7. CASE FetchRobots(w)
    <3>1. PICK answer \in IF cancelled THEN {"error"} ELSE RobotsAnswers[o] :
            Judge(w, IF answer = "rules" THEN "rules" ELSE "none")
      BY <2>7 DEF FetchRobots, HeldUrl
    <3>2. answer # "rules"
      BY <2>5, <3>1
    <3>3. QED
      BY <2>4, <3>1, <3>2
  <2>8. QED
    BY <2>2, <2>6, <2>7
<1>6. worker'[w].at = "save" => ~Excluded(HeldUrl(w)')
  <2>1. SUFFICES ASSUME worker'[w].at = "save" PROVE ~Excluded(HeldUrl(w)')
    OBVIOUS
  <2>2. items' = items /\ Held(w)' = Held(w) /\ worker[w].at = "get" /\ ~cancelled
    BY <2>1, WhereWorkersGo
  <2>3. HeldUrl(w)' = HeldUrl(w)
    BY <2>2 DEF HeldUrl
  <2>4. QED
    BY <2>2, <2>3 DEF RobotsInv
<1>7. ASSUME NEW j \in DOMAIN items', Excluded(items'[j].url)
      PROVE  items'[j].status # "completed"
  <2>1. SUFFICES ASSUME items'[j].status = "completed" PROVE FALSE
    OBVIOUS
  <2>2. /\ j \in DOMAIN items
        /\ items[j].status = "completed" \/ (j = Held(w) /\ worker[w].at = "save")
    BY <2>1, WhoCompletes
  <2>3. Excluded(items[j].url)
    BY <1>1, <1>7, <2>2
  <2>4. QED
    BY <2>2, <2>3 DEF RobotsInv, HeldUrl
<1>8. QED
  BY <1>1, <1>3, <1>4, <1>5, <1>6, <1>7 DEF RobotsInv

LEMMA RobotsStart == Init => RobotsInv
<1>1. /\ Init => items = <<>> /\ DOMAIN items = {}
      /\ Init => robots = [q \in Origins |-> "absent"]
  BY DEF Init
<1>2. Init => \A w \in Workers : worker[w].at = "idle"
  BY DEF Init
<1>3. QED
  BY <1>1, <1>2 DEF RobotsInv

LEMMA RobotsStep == CrawlInv /\ RobotsInv /\ [Next]_vars => RobotsInv'
<1> SUFFICES ASSUME CrawlInv, RobotsInv, [Next]_vars PROVE RobotsInv'
  OBVIOUS
<1>1. CASE \E w \in Workers : Work(w)
  BY <1>1, RobotsWork
<1>2. CASE Crawl
  <2>1. /\ robots' = robots /\ cancelled' = cancelled
        /\ \A w \in Workers : worker[w] \in WorkerRecord /\ worker[w].at = "idle"
    BY <1>2 DEF Crawl, CrawlInv, CrawlTypes, NotYet
  <2>2. \A w \in Workers : worker'[w].at \in {"idle", "recv"}
    BY <1>2, <2>1 DEF Crawl, WorkerRecord
  <2>3. Start \in Addresses
    BY DEF Addresses
  <2>4. /\ \A j \in DOMAIN items : items'[j] = items[j]
        /\ \A j \in DOMAIN items' \ DOMAIN items : items'[j].status = "pending"
    BY <1>2, <2>3, AddFacts DEF Crawl, CrawlInv
  <2>5. QED
    BY <2>1, <2>2, <2>4 DEF RobotsInv
<1>3. CASE Feed
  <2>1. UNCHANGED <<worker, robots, cancelled>>
    BY <1>3 DEF Feed
  <2>2. \/ items' = items
        \/ \E i \in DOMAIN items : SetStatus(i, "in_progress")
    BY <1>3 DEF Feed, FeedNext, FeedIdle, FeedSend, Close, Pending
  <2>3. /\ DOMAIN items' = DOMAIN items
        /\ \A j \in DOMAIN items : /\ items'[j].url = items[j].url
                                   /\ items'[j].status \in {items[j].status, "in_progress"}
    BY <2>2, SetStatusFacts DEF CrawlInv, Statuses
  <2>4. \A w \in Workers : worker[w].at \in {"get", "save"} => Held(w) \in DOMAIN items
    BY DEF CrawlInv, Custody, WorkersHold, IsBusy, Busy
  <2>5. \A w \in Workers : worker[w].at \in {"get", "save"} => HeldUrl(w)' = HeldUrl(w)
    BY <2>1, <2>3, <2>4 DEF HeldUrl, Held
  <2>6. QED
    BY <2>1, <2>3, <2>5 DEF RobotsInv
<1>4. CASE UNCHANGED <<items, worker, robots>> /\ (cancelled => cancelled')
  BY <1>4 DEF RobotsInv, HeldUrl, Held
<1>5. QED
  BY <1>1, <1>2, <1>3, <1>4 DEF Next, Interrupt, Return, Exited, vars

(* A page that its host excludes by a file that can always be read is never
   downloaded, whichever worker asks first and whenever the user interrupts. *)
THEOREM ExcludedStayOut == Spec => []RobotsObeyed
<1>1. RobotsInv => RobotsObeyed
  BY DEF RobotsInv, RobotsObeyed, Excluded
<1>2. QED
  BY <1>1, RobotsStart, RobotsStep, CrawlInvariant, PTL DEF Spec

-----------------------------------------------------------------------------
(* What a step makes of the statistics: a worker that settles its item counts
   it, except one that gives it up after an interrupt.                     *)
Counted(w) ==
  \/ SetStatus(Held(w), "completed") /\ stats' = [stats EXCEPT !.downloaded = @ + 1]
  \/ SetStatus(Held(w), "failed") /\ stats' = [stats EXCEPT !.failed = @ + 1]
  \/ SetStatus(Held(w), "skipped") /\ stats' = [stats EXCEPT !.skipped = @ + 1]
  \/ SetStatus(Held(w), "skipped") /\ stats' = stats /\ cancelled

LEMMA WorkCounts ==
  ASSUME NEW w \in Workers, Work(w)
  PROVE  \/ IsBusy(w) /\ Counted(w)
         \/ stats' = stats /\ (items' = items \/ ExtractLink(w))
<1>1. CASE CheckContext(w)
  BY <1>1 DEF CheckContext, Counted, IsBusy, Busy
<1>2. CASE CheckRobots(w)
  BY <1>2 DEF CheckRobots, Judge, Counted, IsBusy, Busy
<1>3. CASE FetchRobots(w)
  BY <1>3 DEF FetchRobots, Judge, Counted, IsBusy, Busy
<1>4. CASE Get(w)
  BY <1>4 DEF Get, Failed, Counted, IsBusy, Busy
<1>5. CASE Save(w)
  BY <1>5 DEF Save, Failed, Counted, IsBusy, Busy
<1>6. QED
  BY <1>1, <1>2, <1>3, <1>4, <1>5 DEF Work, Receive, ExtractLink

Final == {"completed", "failed", "skipped"}

(* A link that is queued has no final status. *)
LEMMA QueuedIsNotFinal ==
  ASSUME CrawlInv, NEW w \in Workers, ExtractLink(w)
  PROVE  \A s \in Final : HasStatus(s)' = HasStatus(s)
<1>1. CASE items' = items
  BY <1>1 DEF HasStatus
<1>2. CASE items' # items
  <2> DEFINE link == Head(worker[w].links)
  <2>1. /\ worker[w].at = "extract" /\ worker[w].links \in Seq(Links)
        /\ worker[w].links # <<>> /\ Held(w) \in DOMAIN items
    BY DEF ExtractLink, CrawlInv, CrawlTypes, WorkerRecord, Custody, NobodyElseHolds
  <2>2. link \in Links /\ items[Held(w)].depth + 1 \in Nat
    BY <2>1, ItemsFrom1 DEF CrawlInv, Item
  <2> HIDE DEF link
  <2>3. Queued(Filter, link.to, link.type) /\ Add(link.to, items[Held(w)].depth + 1)
    BY <1>2 DEF ExtractLink, link
  <2>4. link.to \in Addresses
    BY <2>2, <2>3 DEF Addresses
  <2>5. /\ DOMAIN items \subseteq DOMAIN items'
        /\ \A k \in DOMAIN items : items'[k] = items[k]
        /\ \A k \in DOMAIN items' \ DOMAIN items : items'[k].status = "pending"
    BY <2>2, <2>3, <2>4, AddFacts DEF CrawlInv
  <2>6. QED
    BY <2>5 DEF HasStatus, Final
<1>3. QED  BY <1>1, <1>2

(* An item that gets a final status joins the items that have it. *)
LEMMA SettledJoins ==
  ASSUME CrawlInv, NEW w \in Workers, IsBusy(w), NEW s \in Final, SetStatus(Held(w), s)
  PROVE  /\ Cardinality(HasStatus(s)') = Cardinality(HasStatus(s)) + 1
         /\ \A t \in Final \ {s} : HasStatus(t)' = HasStatus(t)
<1> DEFINE i == Held(w)
<1>1. i \in DOMAIN items /\ items[i].status = "in_progress"
  BY DEF CrawlInv, Custody, WorkersHold
<1>2. /\ DOMAIN items' = DOMAIN items
      /\ \A j \in DOMAIN items \ {i} : items'[j] = items[j]
      /\ items'[i].status = s
  BY <1>1, SetStatusFacts DEF CrawlInv, Final, Statuses
<1> HIDE DEF i
<1>3. HasStatus(s)' = HasStatus(s) \cup {i} /\ i \notin HasStatus(s)
  BY <1>1, <1>2 DEF HasStatus, Final
<1>4. \A t \in Final \ {s} : HasStatus(t)' = HasStatus(t)
  BY <1>1, <1>2 DEF HasStatus, Final
<1>5. IsFiniteSet(HasStatus(s))
  <2>1. DOMAIN items = 1 .. Len(items) /\ Len(items) \in Nat
    BY ItemsFrom1 DEF CrawlInv
  <2>2. IsFiniteSet(DOMAIN items)
    BY <2>1, FS_Interval
  <2>3. QED
    BY <2>2, FS_Subset DEF HasStatus
<1>6. QED
  BY <1>3, <1>4, <1>5, FS_AddElement

StatsInv ==
  /\ stats \in [downloaded : Nat, skipped : Nat, failed : Nat]
  /\ StatsAgree

LEMMA FinalFinite ==
  ASSUME CrawlInv, NEW s \in Final
  PROVE  Cardinality(HasStatus(s)) \in Nat
<1>1. DOMAIN items = 1 .. Len(items) /\ Len(items) \in Nat
  BY ItemsFrom1 DEF CrawlInv
<1>2. IsFiniteSet(DOMAIN items)
  BY <1>1, FS_Interval
<1>3. IsFiniteSet(HasStatus(s))
  BY <1>2, FS_Subset DEF HasStatus
<1>4. QED
  BY <1>3, FS_CardinalityType

LEMMA StatsStep == CrawlInv /\ StatsInv /\ [Next]_vars => StatsInv'
<1> SUFFICES ASSUME CrawlInv, StatsInv, [Next]_vars PROVE StatsInv'
  OBVIOUS
<1>1. ASSUME stats' = stats, cancelled => cancelled',
             \A s \in Final : HasStatus(s)' = HasStatus(s)
      PROVE  StatsInv'
  BY <1>1 DEF StatsInv, StatsAgree, Final
<1>2. CASE \E w \in Workers : Work(w)
  <2>1. PICK w \in Workers : Work(w)
    BY <1>2
  <2>2. cancelled' = cancelled
    BY <2>1 DEF Work
  <2>3. CASE stats' = stats /\ (items' = items \/ ExtractLink(w))
    <3>1. items' = items => \A s \in Final : HasStatus(s)' = HasStatus(s)
      BY DEF HasStatus
    <3>2. QED
      BY <1>1, <2>2, <2>3, <3>1, QueuedIsNotFinal
  <2>4. CASE IsBusy(w) /\ Counted(w)
    <3> DEFINE c(s) == Cardinality(HasStatus(s))
    <3>1. c("completed") \in Nat /\ c("failed") \in Nat /\ c("skipped") \in Nat
      BY FinalFinite DEF Final
    <3>2. \A s \in Final : SetStatus(Held(w), s) =>
            c(s)' = c(s) + 1 /\ \A t \in Final \ {s} : c(t)' = c(t)
      BY <2>4, SettledJoins
    <3>3. /\ stats \in [downloaded : Nat, skipped : Nat, failed : Nat]
          /\ stats.downloaded = c("completed") /\ stats.failed = c("failed")
          /\ stats.skipped <= c("skipped")
          /\ ~cancelled => stats.skipped = c("skipped")
      BY DEF StatsInv, StatsAgree
    <3>4. SUFFICES /\ stats' \in [downloaded : Nat, skipped : Nat, failed : Nat]
                   /\ stats'.downloaded = c("completed")' /\ stats'.failed = c("failed")'
                   /\ stats'.skipped <= c("skipped")'
                   /\ ~cancelled => stats'.skipped = c("skipped")'
      BY <2>2 DEF StatsInv, StatsAgree
    <3> HIDE DEF c
    <3>5. CASE SetStatus(Held(w), "completed") /\ stats' = [stats EXCEPT !.downloaded = @ + 1]
      BY <3>1, <3>2, <3>3, <3>5 DEF Final
    <3>6. CASE SetStatus(Held(w), "failed") /\ stats' = [stats EXCEPT !.failed = @ + 1]
      BY <3>1, <3>2, <3>3, <3>6 DEF Final
    <3>7. CASE SetStatus(Held(w), "skipped") /\ stats' = [stats EXCEPT !.skipped = @ + 1]
      BY <3>1, <3>2, <3>3, <3>7 DEF Final
    <3>8. CASE SetStatus(Held(w), "skipped") /\ stats' = stats /\ cancelled
      BY <3>1, <3>2, <3>3, <3>8 DEF Final
    <3>9. QED
      BY <2>4, <3>5, <3>6, <3>7, <3>8 DEF Counted
  <2>5. QED
    BY <2>1, <2>3, <2>4, WorkCounts
<1>3. CASE Crawl
  <2>1. Start \in Addresses
    BY DEF Addresses
  <2>2. \/ items' = items
        \/ /\ DOMAIN items \subseteq DOMAIN items'
           /\ \A j \in DOMAIN items : items'[j] = items[j]
           /\ \A j \in DOMAIN items' \ DOMAIN items : items'[j].status = "pending"
    BY <1>3, <2>1, AddFacts DEF Crawl, CrawlInv
  <2>3. \A s \in Final : HasStatus(s)' = HasStatus(s)
    BY <2>2 DEF HasStatus, Final
  <2>4. QED
    BY <1>1, <1>3, <2>3 DEF Crawl
<1>4. CASE Feed
  <2>1. items' = items \/ \E i \in Pending : SetStatus(i, "in_progress")
    BY <1>4 DEF Feed, FeedNext, FeedIdle, FeedSend, Close
  <2>2. \A s \in Final : HasStatus(s)' = HasStatus(s)
    <3>1. CASE items' = items
      BY <3>1 DEF HasStatus
    <3>2. ASSUME NEW i \in Pending, SetStatus(i, "in_progress")
          PROVE  \A s \in Final : HasStatus(s)' = HasStatus(s)
      <4>1. i \in DOMAIN items /\ items[i].status = "pending"
        BY DEF Pending
      <4>2. /\ DOMAIN items' = DOMAIN items
            /\ \A j \in DOMAIN items \ {i} : items'[j] = items[j]
            /\ items'[i].status = "in_progress"
        BY <3>2, <4>1, SetStatusFacts DEF CrawlInv, Statuses
      <4>3. QED
        BY <4>1, <4>2 DEF HasStatus, Final
    <3>3. QED
      BY <2>1, <3>1, <3>2
  <2>3. QED
    BY <1>1, <1>4, <2>2 DEF Feed
<1>5. CASE UNCHANGED <<items, stats>> /\ (cancelled => cancelled')
  BY <1>1, <1>5 DEF HasStatus
<1>6. QED
  BY <1>2, <1>3, <1>4, <1>5 DEF Next, Interrupt, Return, Exited, vars

LEMMA StatsInit == Init => StatsInv
<1> SUFFICES ASSUME Init PROVE StatsInv
  OBVIOUS
<1>1. DOMAIN items = {} /\ stats = [downloaded |-> 0, skipped |-> 0, failed |-> 0]
  BY DEF Init
<1>2. \A s \in Final : Cardinality(HasStatus(s)) = 0
  BY <1>1, FS_EmptySet DEF HasStatus
<1>3. QED
  BY <1>1, <1>2 DEF StatsInv, StatsAgree, Final

(* The statistics that are printed, and that the exit code is made of, count
   the items by their final status, at any time.                           *)
THEOREM StatisticsAgree == Spec => []StatsAgree
<1>1. StatsInv => StatsAgree
  BY DEF StatsInv
<1>2. QED
  BY <1>1, StatsInit, StatsStep, CrawlInvariant, PTL DEF Spec

-----------------------------------------------------------------------------
(* What TypeOK says of the context, the channel's state and room, and the
   cache.                                                                  *)
RestTypes ==
  /\ closed \in BOOLEAN /\ cancelled \in BOOLEAN
  /\ Len(workCh) <= 2 * Cardinality(Workers)

LEMMA RestStep == CrawlInv /\ RestTypes /\ [Next]_vars => RestTypes'
<1> SUFFICES ASSUME CrawlInv, RestTypes, [Next]_vars PROVE RestTypes'
  OBVIOUS
<1>1. closed' \in BOOLEAN /\ cancelled' \in BOOLEAN
  BY DEF RestTypes, Next, vars, Crawl, Interrupt, Feed, FeedNext, FeedIdle, FeedSend, Close,
         Work, Receive, CheckContext, CheckRobots, FetchRobots, Get, Save, ExtractLink,
         Return, Exited
<1>2. Len(workCh') <= 2 * Cardinality(Workers)
  <2>1. workCh \in Seq(Nat) /\ feeder.item \in Nat
    BY DEF CrawlInv, CrawlTypes, FeederRecord
  <2>2. Cardinality(Workers) \in Nat
    BY CrawlerAssumption, FS_CardinalityType
  <2>3. CASE workCh' = workCh
    BY <2>3 DEF RestTypes
  <2>4. CASE FeedSend
    <3>1. workCh' = Append(workCh, feeder.item) /\ Len(workCh) < 2 * Cardinality(Workers)
      BY <2>4 DEF FeedSend
    <3>2. QED
      BY ONLY <2>1, <2>2, <3>1
  <2>5. CASE workCh # <<>> /\ workCh' = Tail(workCh)
    <3>1. Len(workCh') = Len(workCh) - 1 /\ Len(workCh) \in Nat
      BY <2>1, <2>5, HeadTailProperties, LenProperties
    <3>2. QED
      BY <2>2, <3>1 DEF RestTypes
  <2>6. QED
    BY <2>3, <2>4, <2>5
       DEF Next, vars, Crawl, Interrupt, Feed, FeedNext, FeedIdle, Close, Work, Receive,
           CheckContext, CheckRobots, FetchRobots, Get, Save, ExtractLink, Return, Exited
<1>3. QED
  BY <1>1, <1>2 DEF RestTypes

LEMMA RestInit == Init => RestTypes
<1> SUFFICES ASSUME Init PROVE RestTypes
  OBVIOUS
<1>1. Cardinality(Workers) \in Nat
  BY CrawlerAssumption, FS_CardinalityType
<1>2. Len(workCh) = 0 /\ closed = FALSE /\ cancelled = FALSE
  BY EmptySeq DEF Init
<1>3. Len(workCh) <= 2 * Cardinality(Workers)
  BY ONLY <1>1, <1>2
<1>4. QED
  BY <1>2, <1>3 DEF RestTypes

(* The crawler's state keeps its types: a worker never looks at an item that
   is not in the queue, and the channel never holds more than it has room for. *)
THEOREM CrawlTypeCorrect == Spec => []TypeOK
<1>1. CrawlInv /\ RobotsInv /\ StatsInv /\ RestTypes => TypeOK
  <2> SUFFICES ASSUME CrawlInv, RobotsInv, StatsInv, RestTypes PROVE TypeOK
    OBVIOUS
  <2>1. items \in Seq([url : Addresses, depth : Nat, status : Statuses])
    BY DEF CrawlInv, CrawlTypes, Item
  <2>2. workCh \in Seq(DOMAIN items)
    <3> DEFINE D == DOMAIN items
    <3>1. workCh \in Seq(Nat) /\ \A k \in 1 .. Len(workCh) : workCh[k] \in D
      BY ItemsFrom1 DEF CrawlInv, CrawlTypes, Custody, ChannelHolds
    <3> HIDE DEF D
    <3>2. workCh \in Seq(D)
      BY ONLY <3>1
    <3>3. QED  BY <3>2 DEF D
  <2>3. feeder.at \in {"idle", "next", "sleep", "send", "closed"}
        /\ feeder.item \in DOMAIN items \cup {0}
    BY DEF CrawlInv, CrawlTypes, FeederRecord, Custody, FeederHolds
  <2>4. \A w \in Workers : worker[w].at \in WorkerStates /\ worker[w].item \in DOMAIN items \cup {0}
    BY DEF CrawlInv, CrawlTypes, WorkerRecord, Custody, WorkersHold, NobodyElseHolds, Held
  <2>5. \A o \in Origins : robots[o] \in {"absent", "rules", "none"}
    BY DEF RobotsInv
  <2>6. main \in [at : {"start", "wait", "done"}, mode : Modes, exit : {-1, 0, 1, 3}]
    BY DEF CrawlInv, NotYet
  <2>7. QED
    BY <2>1, <2>2, <2>3, <2>4, <2>5, <2>6 DEF TypeOK, StatsInv, RestTypes
<1>2. QED
  BY <1>1, RobotsStart, RobotsStep, StatsInit, StatsStep, RestInit, RestStep, CrawlInvariant,
     PTL DEF Spec

-----------------------------------------------------------------------------
(* Unless the crawl was interrupted, a worker only ends when the channel is
   closed and empty, and then the feeder has nothing in its hands; an item is
   only skipped where robots.txt excludes it.                              *)
DoneInv ==
  /\ closed => feeder.at = "closed"
  /\ \A w \in Workers : worker[w].at = "done" => cancelled \/ (closed /\ workCh = <<>>)
  /\ \A i \in DOMAIN items : items[i].status = "skipped" =>
       cancelled \/ normalizeURL(items[i].url) \in Disallowed
  /\ main.exit = 0 => /\ main.at = "done" /\ stats.failed = 0
                      /\ \A w \in Workers : worker[w].at = "done"

LEMMA WhoIsDone ==
  ASSUME CrawlInv, NEW w \in Workers, Work(w), worker'[w].at = "done"
  PROVE  cancelled \/ (closed /\ workCh = <<>> /\ workCh' = <<>>)
<1>1. worker \in [Workers -> WorkerRecord] /\ worker[w] \in WorkerRecord
  BY DEF CrawlInv, CrawlTypes
<1>2. \A at \in WorkerStates : Become(w, at) => worker'[w].at = at
  BY BecomeFacts DEF CrawlInv
<1>3. ~Release(w)
  BY ReleaseFacts DEF CrawlInv
<1>4. \A at \in WorkerStates \ {"done"} : ~Become(w, at)
  BY <1>2
<1>5. CASE Receive(w)
  BY <1>1, <1>5 DEF Receive, WorkerRecord
<1>6. CASE CheckContext(w)
  BY <1>4, <1>6 DEF CheckContext, WorkerStates
<1>7. CASE CheckRobots(w) \/ FetchRobots(w) \/ Get(w)
  BY <1>3, <1>4, <1>7 DEF CheckRobots, FetchRobots, Judge, Get, Failed, WorkerStates
<1>8. CASE Save(w)
  <2> DEFINE l == LinksOf(Held(w))
  <2>1. worker' = [worker EXCEPT ![w].at = "extract", ![w].links = l]
    BY <1>3, <1>8 DEF Save, Failed
  <2> HIDE DEF l
  <2>2. QED
    BY <1>1, <2>1 DEF WorkerRecord
<1>9. CASE ExtractLink(w)
  <2> DEFINE l == Tail(worker[w].links)
  <2>1. worker' = [worker EXCEPT ![w].links = l] /\ worker[w].at = "extract"
    BY <1>3, <1>9 DEF ExtractLink
  <2> HIDE DEF l
  <2>2. QED
    BY <1>1, <2>1 DEF WorkerRecord
<1>10. QED
  BY <1>5, <1>6, <1>7, <1>8, <1>9 DEF Work

LEMMA WhoSkips ==
  ASSUME CrawlInv, NEW w \in Workers, Work(w), NEW j \in DOMAIN items',
         items'[j].status = "skipped"
  PROVE  /\ j \in DOMAIN items /\ items'[j].url = items[j].url
         /\ \/ items[j].status = "skipped"
            \/ cancelled \/ normalizeURL(items[j].url) \in Disallowed
<1>1. ASSUME NEW s \in Statuses, SetStatus(Held(w), s), IsBusy(w),
             s = "skipped" => cancelled \/ normalizeURL(items[Held(w)].url) \in Disallowed
      PROVE  /\ j \in DOMAIN items
             /\ \/ items[j].status = "skipped"
                \/ cancelled \/ normalizeURL(items[j].url) \in Disallowed
  <2>1. Held(w) \in DOMAIN items
    BY <1>1 DEF CrawlInv, Custody, WorkersHold
  <2>2. /\ DOMAIN items' = DOMAIN items
        /\ \A k \in DOMAIN items \ {Held(w)} : items'[k] = items[k]
        /\ items'[Held(w)].status = s
    BY <1>1, <2>1, SetStatusFacts DEF CrawlInv
  <2>3. QED
    BY <1>1, <2>2
<1>2. ASSUME ExtractLink(w)
      PROVE  j \in DOMAIN items /\ items[j].status = "skipped"
  <2>1. j \in HasStatus("skipped")'
    BY DEF HasStatus
  <2>2. QED
    BY <1>2, <2>1, QueuedIsNotFinal DEF HasStatus, Final
<1>3. /\ j \in DOMAIN items
      /\ \/ items[j].status = "skipped"
         \/ cancelled \/ normalizeURL(items[j].url) \in Disallowed
  <2>1. CASE items' = items
    BY <2>1
  <2>2. CASE CheckContext(w) \/ CheckRobots(w) \/ FetchRobots(w)
    BY <1>1, <2>1, <2>2 DEF CheckContext, CheckRobots, FetchRobots, Judge, IsBusy, Busy, Statuses
  <2>3. CASE Get(w) \/ Save(w)
    BY <1>1, <2>1, <2>3 DEF Get, Save, Failed, IsBusy, Busy, Statuses
  <2>4. QED
    BY <1>2, <2>1, <2>2, <2>3 DEF Work, Receive
<1>4. QED
  BY <1>3, OthersKeepTheirs DEF Keeps

LEMMA DoneStep == CrawlInv /\ StatsInv /\ DoneInv /\ [Next]_vars => DoneInv'
<1> SUFFICES ASSUME CrawlInv, StatsInv, DoneInv, [Next]_vars PROVE DoneInv'
  OBVIOUS
<1>1. CASE main.at = "wait" /\ \E w \in Workers : Work(w)
  <2>1. PICK w \in Workers : Work(w)
    BY <1>1
  <2>2. UNCHANGED <<closed, feeder, cancelled, main>>
    BY <2>1 DEF Work, Receive, CheckContext, CheckRobots, FetchRobots, Get, Save, ExtractLink
  <2>3. workCh = <<>> => workCh' = <<>>
    BY <2>1 DEF Work, Receive, CheckContext, CheckRobots, FetchRobots, Get, Save, ExtractLink
  <2>4. \A v \in Workers : worker'[v].at = "done" => cancelled \/ (closed /\ workCh' = <<>>)
    BY <2>1, <2>3, WhoIsDone, OthersKeepTheirs DEF DoneInv
  <2>5. \A j \in DOMAIN items' : items'[j].status = "skipped" =>
          cancelled \/ normalizeURL(items'[j].url) \in Disallowed
    BY <2>1, WhoSkips DEF DoneInv
  <2>6. main.exit # 0
    BY <1>1 DEF DoneInv
  <2>7. QED
    BY <2>2, <2>4, <2>5, <2>6 DEF DoneInv
<1>2. CASE Crawl
  <2>0. /\ main.at = "start" /\ UNCHANGED <<workCh, closed, cancelled>>
        /\ feeder.at = "idle" /\ \A w \in Workers : worker[w] \in WorkerRecord /\ worker[w].at = "idle"
    BY <1>2 DEF Crawl, CrawlInv, CrawlTypes, NotYet
  <2>1. main'.exit # 0
    <3>1. main.exit # 0
      BY <2>0 DEF DoneInv
    <3>2. main \in [at : {"start", "wait", "done"}, mode : Modes, exit : {-1, 0, 1, 3}]
      BY DEF CrawlInv, NotYet
    <3>3. main'.exit \in {3, main.exit}
      BY <1>2, <3>2 DEF Crawl
    <3>4. QED
      BY <3>1, <3>3
  <2>2. ~closed
    BY <2>0 DEF DoneInv
  <2>3. \A w \in Workers : worker'[w].at # "done"
    BY <1>2, <2>0 DEF Crawl, WorkerRecord
  <2>4. Start \in Addresses
    BY DEF Addresses
  <2>5. \/ items' = items
        \/ /\ \A j \in DOMAIN items : items'[j] = items[j]
           /\ \A j \in DOMAIN items' \ DOMAIN items : items'[j].status = "pending"
    BY <1>2, <2>4, AddFacts DEF Crawl, CrawlInv
  <2>6. QED
    BY <2>0, <2>1, <2>2, <2>3, <2>5 DEF DoneInv
<1>3. CASE main.at = "wait" /\ Feed
  <2>1. UNCHANGED <<worker, cancelled, stats, main>> /\ main.exit # 0
    BY <1>3 DEF Feed, DoneInv
  <2>2. \/ UNCHANGED <<items, workCh>>
        \/ workCh' = workCh /\ \E i \in Pending : SetStatus(i, "in_progress")
        \/ items' = items /\ feeder.at = "send"
    BY <1>3 DEF Feed, FeedNext, FeedIdle, FeedSend, Close
  <2>3. \A j \in DOMAIN items' : items'[j].status = "skipped" =>
          cancelled \/ normalizeURL(items'[j].url) \in Disallowed
    <3>1. CASE items' = items
      BY <3>1 DEF DoneInv
    <3>2. ASSUME NEW i \in Pending, SetStatus(i, "in_progress")
          PROVE  \A j \in DOMAIN items' : items'[j].status = "skipped" =>
                   cancelled \/ normalizeURL(items'[j].url) \in Disallowed
      <4>1. /\ DOMAIN items' = DOMAIN items
            /\ \A j \in DOMAIN items \ {i} : items'[j] = items[j]
            /\ items'[i].status = "in_progress"
        BY <3>2, SetStatusFacts DEF Pending, CrawlInv, Statuses
      <4>2. QED
        BY <4>1 DEF DoneInv
    <3>3. QED
      BY <2>2, <3>1, <3>2
  <2>4. closed' => feeder'.at = "closed"
    BY <1>3 DEF Feed, FeedNext, FeedIdle, FeedSend, Close, DoneInv, CrawlInv, CrawlTypes, FeederRecord
  <2>5. (closed => closed') /\ (closed => workCh' = workCh)
    BY <1>3 DEF Feed, FeedNext, FeedIdle, FeedSend, Close, DoneInv
  <2>6. QED
    BY <2>1, <2>3, <2>4, <2>5 DEF DoneInv
<1>4. CASE Return
  <2>1. UNCHANGED <<items, workCh, closed, feeder, worker, cancelled, stats>>
    BY <1>4 DEF Return
  <2>2. main'.exit = 0 => /\ main'.at = "done" /\ stats.failed = 0
                          /\ \A w \in Workers : worker[w].at = "done"
    <3>1. /\ main \in [at : {"start", "wait", "done"}, mode : Modes, exit : {-1, 0, 1, 3}]
          /\ stats.failed \in Nat
      BY DEF CrawlInv, NotYet, StatsInv
    <3>2. main'.at = "done" /\ main'.exit = IF stats.failed > 0 THEN 1 ELSE 0
      BY <1>4, <3>1 DEF Return
    <3>3. QED
      BY <1>4, <3>1, <3>2 DEF Return
  <2>3. QED
    BY <2>1, <2>2 DEF DoneInv
<1>5. CASE Interrupt
  BY <1>5 DEF Interrupt, DoneInv
<1>6. CASE UNCHANGED vars
  BY <1>6 DEF vars, DoneInv
<1>7. QED
  BY <1>1, <1>2, <1>3, <1>4, <1>5, <1>6 DEF Next, Exited

LEMMA DoneInit == Init => DoneInv
<1> SUFFICES ASSUME Init PROVE DoneInv
  OBVIOUS
<1>1. DOMAIN items = {} /\ ~closed /\ main.exit = -1
  BY DEF Init
<1>2. \A w \in Workers : worker[w].at = "idle"
  BY DEF Init
<1>3. QED
  BY <1>1, <1>2 DEF DoneInv

(* Exit code 0 of a crawl that nobody interrupted: what was taken from the
   queue was downloaded or is excluded by a robots.txt.                    *)
THEOREM SuccessIsFinished == Spec => []SuccessMeansFinished
<1>1. CrawlInv /\ StatsInv /\ DoneInv => SuccessMeansFinished
  <2> SUFFICES ASSUME CrawlInv, StatsInv, DoneInv, main.exit = 0, ~cancelled,
                      NEW i \in DOMAIN items
               PROVE  \/ items[i].status \in {"completed", "pending"}
                      \/ /\ items[i].status = "skipped"
                         /\ normalizeURL(items[i].url) \in Disallowed
    BY DEF SuccessMeansFinished
  <2>1. PICK w \in Workers : TRUE
    BY CrawlerAssumption
  <2>2. closed /\ workCh = <<>> /\ \A v \in Workers : worker[v].at = "done"
    BY <2>1 DEF DoneInv
  <2>3. feeder.item = 0
    BY <2>2 DEF DoneInv, CrawlInv, Custody, FeederHolds
  <2>4. items[i].status # "in_progress"
    <3>1. i # 0 /\ DOMAIN workCh = {}
      BY <2>2, ItemsFrom1 DEF CrawlInv
    <3>2. QED
      BY <2>2, <2>3, <3>1 DEF CrawlInv, Custody, MarkedIsHeld, IsBusy, Busy
  <2>5. items[i].status # "failed"
    <3>1. Cardinality(HasStatus("failed")) = 0
      BY DEF DoneInv, StatsInv, StatsAgree
    <3>2. IsFiniteSet(HasStatus("failed"))
      <4>1. DOMAIN items = 1 .. Len(items) /\ Len(items) \in Nat
        BY ItemsFrom1 DEF CrawlInv
      <4>2. IsFiniteSet(DOMAIN items)
        BY <4>1, FS_Interval
      <4>3. QED
        BY <4>2, FS_Subset DEF HasStatus
    <3>3. HasStatus("failed") = {}
      BY <3>1, <3>2, FS_EmptySet
    <3>4. QED
      BY <3>3 DEF HasStatus
  <2>6. items[i].status \in Statuses
    BY ItemsFrom1 DEF CrawlInv, Item
  <2>7. QED
    BY <2>4, <2>5, <2>6 DEF Statuses, DoneInv
<1>2. QED
  BY <1>1, StatsInit, StatsStep, DoneInit, DoneStep, CrawlInvariant, PTL DEF Spec

(* The statistics and the exit code of a crawl say what became of its pages,
   for every site and any number of workers.                               *)
THEOREM ResultAlwaysTrue == Spec => []ResultIsTrue
<1>1. StatsAgree /\ SuccessMeansFinished => ResultIsTrue
  BY DEF ResultIsTrue
<1>2. QED  BY <1>1, StatisticsAgree, SuccessIsFinished, PTL

-----------------------------------------------------------------------------
(* An address that lies as many links away from the start as the number says. *)
Reached(u, d) == d \in 0 .. MaxDepth /\ normalizeURL(u) \in Distance[d]

(* The address and the depth of a worker's item. *)
HeldPage(w)  == normalizeURL(items[Held(w)].url)
HeldDepth(w) == items[Held(w)].depth

(* A worker goes through the links of a page that is not at the limit. *)
DepthInv ==
  /\ \A i \in DOMAIN items : Reached(items[i].url, items[i].depth)
  /\ \A w \in Workers : worker[w].at = "extract" =>
       HeldDepth(w) < MaxDepth /\ worker[w].links \in Seq(Range(Page[HeldPage(w)]))

LEMMA StartReached == Reached(Start, 0)
<1> DEFINE way == [k \in 0 .. 0 |-> normalizeURL(Start)]
<1>1. Start \in Addresses /\ MaxDepth \in Nat
  BY CrawlerAssumption DEF Addresses
<1>2. normalizeURL(Start) \in Urls
  BY <1>1, SiteAssumption
<1>3. way \in [0 .. 0 -> Urls] /\ Leads(way, 0, normalizeURL(Start))
  BY <1>2 DEF Leads
<1>4. QED
  BY <1>1, <1>2, <1>3 DEF Reached, Distance

(* One more link leads one step further. *)
LEMMA LinkReached ==
  ASSUME NEW u \in Addresses, NEW d \in Nat, Reached(u, d), d < MaxDepth,
         NEW l \in Range(Page[normalizeURL(u)]), l.to \in Addresses,
         Queued(Filter, l.to, l.type)
  PROVE  Reached(l.to, d + 1)
<1>1. MaxDepth \in Nat /\ d \in 0 .. MaxDepth /\ d + 1 \in 0 .. MaxDepth
  BY CrawlerAssumption
<1>2. PICK way \in [0 .. d -> Urls] : Leads(way, d, normalizeURL(u))
  BY <1>1 DEF Reached, Distance
<1>3. normalizeURL(l.to) \in Urls /\ normalizeURL(l.to) \in LinkedFrom(normalizeURL(u))
  BY SiteAssumption DEF LinkedFrom
<1> DEFINE v == normalizeURL(l.to)
           longer == [k \in 0 .. d + 1 |-> IF k = d + 1 THEN v ELSE way[k]]
<1>4. way[d] = normalizeURL(u) /\ v \in LinkedFrom(way[d]) /\ v \in Urls
  BY <1>2, <1>3 DEF Leads
<1> HIDE DEF v
<1>5. longer \in [0 .. d + 1 -> Urls]
  BY <1>2, <1>4
<1>6. /\ longer[0] = normalizeURL(Start) /\ longer[d + 1] = v
      /\ \A k \in 1 .. d + 1 : longer[k] \in LinkedFrom(longer[k - 1])
  <2>1. \A k \in 0 .. d : longer[k] = way[k]
    OBVIOUS
  <2>2. longer[d + 1] = v
    OBVIOUS
  <2> HIDE DEF longer
  <2>3. ASSUME NEW k \in 1 .. d + 1
        PROVE  longer[k] \in LinkedFrom(longer[k - 1])
    <3>1. CASE k = d + 1
      <4>1. k - 1 = d /\ d \in 0 .. d
        BY <3>1
      <4>2. QED
        BY <1>4, <2>1, <2>2, <3>1, <4>1
    <3>2. CASE k # d + 1
      <4>1. k \in 0 .. d /\ k - 1 \in 0 .. d /\ k \in 1 .. d
        BY <3>2
      <4>2. QED
        BY <1>2, <2>1, <4>1 DEF Leads
    <3>3. QED  BY <3>1, <3>2
  <2>4. 0 \in 0 .. d
    OBVIOUS
  <2>5. QED
    BY <1>2, <2>1, <2>2, <2>3, <2>4 DEF Leads
<1>7. Leads(longer, d + 1, v)
  BY <1>6 DEF Leads
<1> HIDE DEF longer
<1>8. v \in Distance[d + 1]
  BY <1>1, <1>4, <1>5, <1>7 DEF Distance
<1>9. QED
  BY <1>1, <1>8 DEF Reached, v

(* Adding an address that is reached keeps all of them reached. *)
LEMMA AddReached ==
  ASSUME CrawlTypes, NEW u, NEW d, Reached(u, d), Add(u, d),
         \A i \in DOMAIN items : Reached(items[i].url, items[i].depth)
  PROVE  /\ \A i \in DOMAIN items' : Reached(items'[i].url, items'[i].depth)
         /\ \A i \in DOMAIN items : i \in DOMAIN items' /\ items'[i] = items[i]
<1>1. CASE normalizeURL(u) \in visited
  BY <1>1 DEF Add
<1>2. CASE normalizeURL(u) \notin visited
  <2> DEFINE n == NewItem(u, d)
  <2>1. items' = Append(items, n) /\ n.url = u /\ n.depth = d
    BY <1>2 DEF Add, NewItem
  <2> HIDE DEF n
  <2>2. /\ DOMAIN items' = 1 .. Len(items) + 1
        /\ \A j \in DOMAIN items : items'[j] = items[j]
        /\ items'[Len(items) + 1] = n
        /\ DOMAIN items = 1 .. Len(items) /\ Len(items) \in Nat
    BY <2>1 DEF CrawlTypes
  <2>3. \A j \in DOMAIN items' : j \in DOMAIN items \/ j = Len(items) + 1
    BY <2>2
  <2>4. QED
    BY <2>1, <2>2, <2>3
<1>3. QED  BY <1>1, <1>2

(* What a worker that is at the links of a page does with the next one. *)
LEMMA ExtractReaches ==
  ASSUME CrawlInv, DepthInv, NEW w \in Workers, ExtractLink(w)
  PROVE  /\ \A i \in DOMAIN items' : Reached(items'[i].url, items'[i].depth)
         /\ \/ Release(w)
            \/ worker' = [worker EXCEPT ![w].links = Tail(@)] /\ worker[w].links # <<>>
<1> DEFINE q == worker[w].links
           link == Head(q)
           u == items[Held(w)].url
           d == items[Held(w)].depth
<1>1. /\ worker[w].at = "extract" /\ q \in Seq(Links) /\ q # <<>> /\ Held(w) \in DOMAIN items
  BY DEF ExtractLink, CrawlInv, CrawlTypes, WorkerRecord, Custody, NobodyElseHolds
<1>2. u \in Addresses /\ d \in Nat /\ Reached(u, d)
  BY <1>1, ItemsFrom1 DEF CrawlInv, Item, DepthInv
<1>3. d < MaxDepth /\ q \in Seq(Range(Page[normalizeURL(u)]))
  BY <1>1 DEF DepthInv, HeldDepth, HeldPage
<1>4. link \in Links /\ link \in Range(Page[normalizeURL(u)])
  BY <1>1, <1>3, HeadTailProperties
<1>5. \A i \in DOMAIN items : Reached(items[i].url, items[i].depth)
  BY DEF DepthInv
<1>6. \/ Release(w)
      \/ worker' = [worker EXCEPT ![w].links = Tail(@)] /\ worker[w].links # <<>>
  BY <1>1 DEF ExtractLink
<1>7. \/ items' = items
      \/ Queued(Filter, link.to, link.type) /\ Add(link.to, d + 1)
  BY DEF ExtractLink
<1> HIDE DEF q, link, u, d
<1>8. CASE Queued(Filter, link.to, link.type) /\ Add(link.to, d + 1)
  <2>1. link.to \in Addresses
    BY <1>4, <1>8 DEF Addresses
  <2>2. Reached(link.to, d + 1)
    BY <1>2, <1>3, <1>4, <1>8, <2>1, LinkReached
  <2>3. QED
    BY <1>5, <1>6, <1>8, <2>2, AddReached DEF CrawlInv
<1>9. QED
  BY <1>5, <1>6, <1>7, <1>8

(* A worker gets to the links of a page by saving it, below the limit. *)
LEMMA WhoExtracts ==
  ASSUME CrawlInv, DepthInv, NEW w \in Workers, Work(w), worker'[w].at = "extract"
  PROVE  /\ Held(w)' = Held(w) /\ Held(w) \in DOMAIN items
         /\ HeldDepth(w) < MaxDepth
         /\ worker'[w].links \in Seq(Range(Page[HeldPage(w)]))
<1>1. worker \in [Workers -> WorkerRecord] /\ worker[w] \in WorkerRecord
  BY DEF CrawlInv, CrawlTypes
<1>2. \A at \in WorkerStates : Become(w, at) => worker'[w].at = at
  BY BecomeFacts DEF CrawlInv
<1>3. ~Release(w)
  BY ReleaseFacts DEF CrawlInv
<1>4. \A at \in WorkerStates \ {"extract"} : ~Become(w, at)
  BY <1>2
<1>5. CASE Receive(w)
  BY <1>1, <1>4, <1>5 DEF Receive, WorkerRecord, WorkerStates
<1>6. CASE CheckContext(w)
  BY <1>1, <1>4, <1>6 DEF CheckContext, WorkerStates
<1>7. CASE CheckRobots(w) \/ FetchRobots(w) \/ Get(w)
  BY <1>3, <1>4, <1>7 DEF CheckRobots, FetchRobots, Judge, Get, Failed, WorkerStates
<1>8. CASE Save(w)
  <2> DEFINE l == LinksOf(Held(w))
             page == Page[HeldPage(w)]
  <2>1. worker' = [worker EXCEPT ![w].at = "extract", ![w].links = l] /\ l # <<>>
    BY <1>3, <1>8 DEF Save, Failed
  <2>2. Held(w) \in DOMAIN items
    BY <1>8 DEF Save, CrawlInv, Custody, WorkersHold, IsBusy, Busy
  <2>3. HeldDepth(w) < MaxDepth /\ l = page
    BY <2>1 DEF LinksOf, HeldDepth, HeldPage
  <2>4. page \in Seq(Links)
    BY <2>2, ItemsFrom1, SiteAssumption DEF CrawlInv, Item, HeldPage
  <2> HIDE DEF l, page
  <2>5. page \in Seq(Range(page))
    BY <2>4 DEF Range
  <2>6. worker'[w].item = worker[w].item /\ worker'[w].links = l
    BY <1>1, <2>1 DEF WorkerRecord
  <2>7. QED
    BY <2>2, <2>3, <2>5, <2>6 DEF Held, page
<1>9. CASE ExtractLink(w)
  <2> DEFINE q == worker[w].links
             l == Tail(q)
  <2>1. worker' = [worker EXCEPT ![w].links = l] /\ q # <<>>
    BY <1>3, <1>9, ExtractReaches
  <2>2. /\ worker[w].at = "extract" /\ Held(w) \in DOMAIN items
        /\ HeldDepth(w) < MaxDepth /\ q \in Seq(Range(Page[HeldPage(w)]))
    BY <1>9 DEF ExtractLink, CrawlInv, Custody, NobodyElseHolds, DepthInv
  <2>3. l \in Seq(Range(Page[HeldPage(w)]))
    BY <2>1, <2>2, HeadTailProperties
  <2> HIDE DEF l
  <2>4. worker'[w].item = worker[w].item /\ worker'[w].links = l
    BY <1>1, <2>1 DEF WorkerRecord
  <2>5. QED
    BY <2>2, <2>3, <2>4 DEF Held
<1>10. QED
  BY <1>5, <1>6, <1>7, <1>8, <1>9 DEF Work

LEMMA WorkReaches ==
  ASSUME CrawlInv, DepthInv, NEW w \in Workers, Work(w)
  PROVE  DepthInv'
<1>1. /\ \A v \in Workers \ {w} : worker'[v] = worker[v]
      /\ \A j \in DOMAIN items : Keeps(j)
  BY OthersKeepTheirs
<1>2. \A i \in DOMAIN items' : Reached(items'[i].url, items'[i].depth)
  <2>1. CASE ExtractLink(w)
    BY <2>1, ExtractReaches
  <2>2. CASE DOMAIN items' = DOMAIN items
    BY <1>1, <2>2 DEF DepthInv, Keeps
  <2>3. ASSUME NEW s, SetStatus(Held(w), s)
        PROVE  DOMAIN items' = DOMAIN items
    BY <2>3 DEF SetStatus, CrawlInv, CrawlTypes
  <2>4. QED
    BY <2>1, <2>2, <2>3 DEF Work, Receive, CheckContext, CheckRobots, FetchRobots, Get, Save,
                            Judge, Failed
<1>3. ASSUME NEW v \in Workers, worker'[v].at = "extract"
      PROVE  /\ Held(v)' = Held(v) /\ Held(v) \in DOMAIN items
             /\ HeldDepth(v) < MaxDepth
             /\ worker'[v].links \in Seq(Range(Page[HeldPage(v)]))
  <2>1. CASE v = w
    BY <1>3, <2>1, WhoExtracts
  <2>2. CASE v # w
    BY <1>1, <1>3, <2>2 DEF DepthInv, Held, CrawlInv, Custody, NobodyElseHolds
  <2>3. QED  BY <2>1, <2>2
<1>4. ASSUME NEW v \in Workers, worker'[v].at = "extract"
      PROVE  (HeldDepth(v) < MaxDepth /\ worker[v].links \in Seq(Range(Page[HeldPage(v)])))'
  <2>1. HeldDepth(v)' = HeldDepth(v) /\ HeldPage(v)' = HeldPage(v)
    BY <1>1, <1>3, <1>4 DEF HeldDepth, HeldPage, Keeps
  <2>2. QED
    BY <1>3, <1>4, <2>1
<1>5. QED
  BY <1>2, <1>4 DEF DepthInv

LEMMA DepthStep == CrawlInv /\ DepthInv /\ [Next]_vars => DepthInv'
<1> SUFFICES ASSUME CrawlInv, DepthInv, [Next]_vars PROVE DepthInv'
  OBVIOUS
<1>1. CASE main.at = "wait" /\ \E w \in Workers : Work(w)
  BY <1>1, WorkReaches
<1>2. CASE Crawl
  <2>1. \A i \in DOMAIN items' : Reached(items'[i].url, items'[i].depth)
    BY <1>2, StartReached, AddReached DEF Crawl, CrawlInv, DepthInv
  <2>2. \A w \in Workers : worker'[w].at # "extract"
    <3>1. main.at = "start" /\ \A w \in Workers : worker[w] \in WorkerRecord /\ worker[w].at = "idle"
      BY <1>2 DEF Crawl, CrawlInv, CrawlTypes, NotYet
    <3>2. QED
      BY <1>2, <3>1 DEF Crawl, WorkerRecord
  <2>3. QED
    BY <2>1, <2>2 DEF DepthInv
<1>3. CASE main.at = "wait" /\ Feed
  <2>1. worker' = worker
    BY <1>3 DEF Feed
  <2>2. items' = items \/ \E i \in Pending : SetStatus(i, "in_progress")
    BY <1>3 DEF Feed, FeedNext, FeedIdle, FeedSend, Close
  <2>3. /\ DOMAIN items' = DOMAIN items
        /\ \A j \in DOMAIN items : items'[j].url = items[j].url /\ items'[j].depth = items[j].depth
    <3>1. ASSUME NEW i \in Pending, SetStatus(i, "in_progress")
          PROVE  /\ DOMAIN items' = DOMAIN items
                 /\ \A j \in DOMAIN items :
                      items'[j].url = items[j].url /\ items'[j].depth = items[j].depth
      BY <3>1, SetStatusFacts DEF Pending, CrawlInv, Statuses
    <3>2. QED
      BY <2>2, <3>1
  <2>4. \A w \in Workers : worker[w].at = "extract" => Held(w) \in DOMAIN items
    BY DEF CrawlInv, Custody, NobodyElseHolds
  <2>5. \A w \in Workers : worker[w].at = "extract" =>
          HeldDepth(w)' = HeldDepth(w) /\ HeldPage(w)' = HeldPage(w)
    BY <2>1, <2>3, <2>4 DEF HeldDepth, HeldPage, Held
  <2>6. QED
    BY <2>1, <2>3, <2>5 DEF DepthInv
<1>4. CASE UNCHANGED <<items, worker>>
  BY <1>4 DEF DepthInv, HeldDepth, HeldPage, Held
<1>5. QED
  BY <1>1, <1>2, <1>3, <1>4 DEF Next, Interrupt, Return, Exited, vars

LEMMA DepthInit == Init => DepthInv
<1> SUFFICES ASSUME Init PROVE DepthInv
  OBVIOUS
<1>1. DOMAIN items = {} /\ \A w \in Workers : worker[w].at = "idle"
  BY DEF Init
<1>2. QED
  BY <1>1 DEF DepthInv

(* What is in the queue was reached over at most MaxDepth links that the
   filter lets through, and over as many as its depth says, whichever worker
   found it and when.                                                      *)
THEOREM NeverBeyondDepth == Spec => []WithinDepth
<1>1. DepthInv => WithinDepth
  BY DEF DepthInv, WithinDepth, Reached
<1>2. QED
  BY <1>1, DepthInit, DepthStep, CrawlInvariant, PTL DEF Spec
=============================================================================
