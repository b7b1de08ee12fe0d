--------------------------- MODULE DownloaderProofs ---------------------------
(***************************************************************************)
(* The types of the downloader's variables, for every server, user and      *)
(* environment; that ResumeInv is inductive, and what follows from it.      *)
(***************************************************************************)
EXTENDS DownloaderInvariant, TLAPS

(***************************************************************************)
(* InitializeChunks cuts every file, not only the small ones TLC tries,     *)
(* into chunks that cover it and do not overlap.                           *)
(***************************************************************************)

LEMMA Quotient ==
  ASSUME NEW a \in Nat, NEW b \in Nat \ {0}
  PROVE  /\ a \div b \in Nat
         /\ (a \div b) * b <= a /\ a < (a \div b) * b + b
OBVIOUS

LEMMA TimesMonotone ==
  ASSUME NEW a \in Int, NEW b \in Int, NEW q \in Nat, a <= b
  PROVE  a * q <= b * q
OBVIOUS

LEMMA Successor ==
  ASSUME NEW a \in Int, NEW q \in Int
  PROVE  (a + 1) * q = a * q + q
OBVIOUS

(* The table of a file that is not smaller than the number of connections.  *)
LEMMA ChunkBounds ==
  ASSUME NEW total \in Nat, NEW n \in Nat, 1 <= n, n <= total
  PROVE  \E q \in Nat \ {0} :
           /\ q * n <= total /\ n * q <= total
           /\ InitializeChunks(total, n)
                = [i \in 0 .. n - 1 |->
                     NewChunk(i * q, IF i = n - 1 THEN total - 1
                                                  ELSE i * q + q - 1)]
<1> DEFINE q == total \div n
<1>1. q \in Nat /\ q * n <= total /\ total < q * n + n
  BY Quotient
<1>2. q # 0
  BY <1>1
<1>3. n * q = q * n
  BY <1>1
<1>4. ~(total <= 0 \/ n <= 0)
  OBVIOUS
<1>5. InitializeChunks(total, n)
        = [i \in 0 .. n - 1 |->
             NewChunk(i * q, IF i = n - 1 THEN total - 1 ELSE i * q + q - 1)]
  BY <1>4 DEF InitializeChunks
<1> HIDE DEF q
<1>6. QED  BY <1>1, <1>2, <1>3, <1>5

(* A file that is not smaller than the number of connections is cut into    *)
(* chunks that are not empty, do not overlap and cover it: each byte is     *)
(* fetched by exactly one goroutine (InitializeChunks).                    *)
THEOREM ChunksPartition ==
  ASSUME NEW total \in Nat, NEW n \in Nat, 1 <= n, n <= total
  PROVE  IsPartition(InitializeChunks(total, n), total)
<1> DEFINE chunks == InitializeChunks(total, n)
<1>1. PICK q \in Nat \ {0} :
        /\ n * q <= total
        /\ chunks = [i \in 0 .. n - 1 |->
                       NewChunk(i * q, IF i = n - 1 THEN total - 1
                                                    ELSE i * q + q - 1)]
  BY ChunkBounds
<1>2. /\ DOMAIN chunks = 0 .. n - 1
      /\ \A i \in 0 .. n - 1 :
           /\ chunks[i].start = i * q
           /\ chunks[i].end = IF i = n - 1 THEN total - 1 ELSE i * q + q - 1
  BY <1>1 DEF NewChunk
<1> HIDE DEF chunks
<1>3. \A i \in 0 .. n - 1 : i * q \in Int /\ 0 <= i * q
  BY TimesMonotone
<1>4. \A i, j \in 0 .. n : i < j => i * q + q <= j * q
  <2> SUFFICES ASSUME NEW i \in 0 .. n, NEW j \in 0 .. n, i < j
               PROVE  i * q + q <= j * q
    OBVIOUS
  <2>1. (i + 1) * q <= j * q
    BY TimesMonotone
  <2>2. (i + 1) * q = i * q + q
    BY Successor
  <2>3. QED  BY <2>1, <2>2
<1>5. \A i \in 0 .. n - 1 : i * q + q <= n * q
  BY <1>4
<1>6. \A i \in DOMAIN chunks :
        /\ 0 <= chunks[i].start /\ chunks[i].start <= chunks[i].end
        /\ chunks[i].end < total
  <2> SUFFICES ASSUME NEW i \in 0 .. n - 1
               PROVE  /\ 0 <= chunks[i].start /\ chunks[i].start <= chunks[i].end
                      /\ chunks[i].end < total
    BY <1>2
  <2> DEFINE s == i * q
             t == n * q
  <2>1. s \in Int /\ 0 <= s /\ s + q <= t /\ t <= total /\ t \in Int
    BY <1>1, <1>3, <1>5
  <2>2. /\ chunks[i].start = s
        /\ chunks[i].end = IF i = n - 1 THEN total - 1 ELSE s + q - 1
    BY <1>2
  <2> HIDE DEF s, t
  <2>3. QED  BY <2>1, <2>2
<1>7. \A i, j \in DOMAIN chunks :
        i # j => \/ chunks[i].end < chunks[j].start
                 \/ chunks[j].end < chunks[i].start
  <2>1. ASSUME NEW i \in 0 .. n - 1, NEW j \in 0 .. n - 1, i < j
        PROVE  chunks[i].end < chunks[j].start
    <3> DEFINE s == i * q
               t == j * q
    <3>1. s \in Int /\ t \in Int /\ s + q <= t
      BY <1>3, <1>4, <2>1
    <3>2. chunks[i].end = s + q - 1 /\ chunks[j].start = t
      BY <1>2, <2>1
    <3> HIDE DEF s, t
    <3>3. QED  BY <3>1, <3>2
  <2>2. \A i, j \in 0 .. n - 1 : i # j => i < j \/ j < i
    OBVIOUS
  <2>3. QED  BY <1>2, <2>1, <2>2
<1>8. \A p \in 0 .. total - 1 :
        \E i \in DOMAIN chunks : chunks[i].start <= p /\ p <= chunks[i].end
  <2> SUFFICES ASSUME NEW p \in 0 .. total - 1
               PROVE  \E i \in 0 .. n - 1 :
                        chunks[i].start <= p /\ p <= chunks[i].end
    BY <1>2
  <2> DEFINE k == p \div q
  <2>1. k \in Nat /\ k * q <= p /\ p < k * q + q
    BY Quotient
  <2> HIDE DEF k
  <2>2. CASE k < n - 1
    <3> DEFINE s == k * q
    <3>1. s \in Int /\ s <= p /\ p < s + q
      BY <2>1
    <3>2. chunks[k].start = s /\ chunks[k].end = s + q - 1 /\ k \in 0 .. n - 1
      BY <1>2, <2>1, <2>2
    <3> HIDE DEF s
    <3>3. QED  BY <3>1, <3>2
  <2>3. CASE ~(k < n - 1)
    <3> DEFINE m == n - 1
    <3>1. m \in 0 .. n - 1 /\ m <= k
      BY <2>1, <2>3
    <3>2. m * q <= k * q
      BY <2>1, <3>1, TimesMonotone
    <3>3. m * q <= p
      BY <2>1, <3>1, <3>2
    <3>4. chunks[m].start = m * q /\ chunks[m].end = total - 1
      BY <1>2, <3>1
    <3>5. QED  BY <3>1, <3>3, <3>4
  <2>4. QED  BY <2>2, <2>3
<1>9. QED  BY <1>6, <1>7, <1>8 DEF IsPartition, chunks

(***************************************************************************)
(* The types.                                                              *)
(***************************************************************************)

LEMMA InitializeChunksType ==
  ASSUME NEW total \in Nat, NEW n \in Connections \cup {1}
  PROVE  \E m \in Connections \cup {1} :
           InitializeChunks(total, n) \in [0 .. m - 1 -> Chunk]
<1>1. CASE total <= 0 \/ n <= 0
  <2>1. [i \in {0} |-> NewChunk(0, -1)] \in [0 .. 1 - 1 -> Chunk]
    BY DEF NewChunk, Chunk, ChunkStatus
  <2>2. QED  BY <1>1, <2>1 DEF InitializeChunks
<1>2. CASE ~(total <= 0 \/ n <= 0)
  <2> DEFINE q == total \div n
  <2>1. n \in Nat \ {0} /\ q \in Int
    BY <1>2, BoundsAssumption
  <2>2. \A i \in 0 .. n - 1 : i * q \in Int /\ i * q + q - 1 \in Int
    BY <2>1
  <2>3. QED
    BY <1>2, <2>1, <2>2 DEF InitializeChunks, NewChunk, Chunk, ChunkStatus
<1>3. QED  BY <1>1, <1>2

LEMMA NewStateType ==
  ASSUME NEW u \in Urls, NEW n \in Connections
  PROVE  IsRecord(NewState(u, n))
<1>1. ContentLength(u) \in Nat
  BY ServerAssumption DEF ContentLength, Remote
<1> DEFINE m == IF Server[u].ranges /\ ContentLength(u) > 0 THEN n ELSE 1
<1>2. m \in Connections \cup {1}
  OBVIOUS
<1>3. PICK k \in Connections \cup {1} :
        InitializeChunks(ContentLength(u), m) \in [0 .. k - 1 -> Chunk]
  BY <1>1, <1>2, InitializeChunksType
<1>4. QED
  BY <1>1, <1>3 DEF NewState, State, IsRecord

LEMMA SetChunkType ==
  ASSUME IsRecord(state), NEW i, NEW d \in Int, NEW t \in ChunkStatus,
         SetChunk(i, d, t)
  PROVE  /\ IsRecord(state')
         /\ DOMAIN state'.chunks = DOMAIN state.chunks
         /\ state'.url = state.url /\ state'.total = state.total
<1>1. PICK n \in Connections \cup {1} : state.chunks \in [0 .. n - 1 -> Chunk]
  BY DEF IsRecord
<1>2. UpdateChunk(state.chunks, i, d, t) \in [0 .. n - 1 -> Chunk]
  BY <1>1 DEF UpdateChunk, Chunk
<1>3. state' = [url |-> state.url, total |-> state.total,
                chunks |-> UpdateChunk(state.chunks, i, d, t)]
  BY DEF SetChunk, IsRecord
<1>4. QED
  BY <1>1, <1>2, <1>3 DEF IsRecord

LEMMA TypeInit == Init => TypeInv
<1> SUFFICES ASSUME Init PROVE TypeInv
  OBVIOUS
<1>1. TypeOK
  <2> USE DEF Init
  <2>1. data \in [Offsets -> Cells]
    BY DEF Cells
  <2>2. remote \in [Urls -> Contents]
    BY ServerAssumption DEF Remote
  <2>3. DOMAIN worker = {} /\ worker \in [DOMAIN worker -> Worker]
    BY DEF NoWorkers
  <2>4. save = [s \in Savers |-> save[s]] /\ \A s \in Savers : IsCall(save[s])
    BY DEF Idle, IsCall
  <2>5. exists \in BOOLEAN /\ cancelled \in BOOLEAN
    <3>1. (OldLength > 0) = TRUE \/ (OldLength > 0) = FALSE
      BY BoundsAssumption
    <3>2. QED  BY <3>1, Zenon
  <2>6. pc \in Steps /\ ticker \in {"off", "select", "parked"}
    BY DEF Steps
  <2>7. DOMAIN worker \subseteq ChunkIds
    BY <2>3
  <2>8. QED
    BY <2>1, <2>2, <2>3, <2>4, <2>5, <2>6, <2>7, Zenon DEF TypeOK
<1>2. Shape
  BY DEF Init, Shape, Idle, NoWorkers
<1>3. QED  BY <1>1, <1>2 DEF TypeInv

LEMMA ChunkIdsType ==
  ASSUME NEW s, IsRecord(s)
  PROVE  /\ DOMAIN s.chunks \subseteq ChunkIds
         /\ \A i \in DOMAIN s.chunks : i \in Nat /\ s.chunks[i] \in Chunk
<1>1. PICK n \in Connections \cup {1} : s.chunks \in [0 .. n - 1 -> Chunk]
  BY DEF IsRecord
<1>2. 0 .. n - 1 \subseteq ChunkIds
  BY DEF ChunkIds
<1>3. n \in Nat
  BY BoundsAssumption
<1>4. QED  BY <1>1, <1>2, <1>3

LEMMA AdvanceType ==
  ASSUME NEW w \in Worker, NEW step \in WorkerSteps, NEW got \in Int,
         NEW src \in Int, NEW n \in Int
  PROVE  [w EXCEPT !.at = step, !.got = got, !.src = src, !.n = n] \in Worker
BY DEF Worker

LEMMA WorkerType ==
  ASSUME TypeInv, NEW i \in DOMAIN worker, WorkerStep(i)
  PROVE  TypeInv'
<1> USE DEF TypeInv, At, Goto, Worker, WorkerSteps, ChunkStatus
<1>1. /\ IsRecord(state) /\ i \in DOMAIN state.chunks
      /\ state.chunks[i] \in Chunk /\ i \in Nat
      /\ DOMAIN worker # {}
      /\ worker \in [DOMAIN worker -> Worker]
  <2>1. pc \notin {"off", "load"}
    BY DEF Shape
  <2>2. QED  BY <2>1, ChunkIdsType DEF Shape, TypeOK
<1>2. UNCHANGED <<exists, stateFile, tmpFile, remote, pc, url, conns, cancelled,
                  ticker, save>>
  BY DEF WorkerStep, main
<1>3. SUFFICES /\ data' \in [Offsets -> Cells]
               /\ IsRecord(state') /\ DOMAIN state'.chunks = DOMAIN state.chunks
               /\ worker' \in [DOMAIN worker -> Worker]
  <2>1. DOMAIN worker' = DOMAIN worker
    BY <1>3
  <2>2. TypeOK'
    BY <1>2, <1>3, <2>1 DEF TypeOK, IsCall
  <2>3. Shape'
    BY <1>2, <1>3, <2>1 DEF Shape
  <2>4. QED  BY <2>2, <2>3
<1>4. ASSUME NEW status \in ChunkStatus, Stop(i, status), UNCHANGED data
      PROVE  /\ data' \in [Offsets -> Cells]
             /\ IsRecord(state') /\ DOMAIN state'.chunks = DOMAIN state.chunks
             /\ worker' \in [DOMAIN worker -> Worker]
  BY <1>1, <1>4, SetChunkType DEF Stop, TypeOK
<1>5. CASE BeginChunk(i)
  BY <1>1, <1>5, SetChunkType DEF BeginChunk, TypeOK
<1>6. CASE AlreadyComplete(i)
  <2>1. Size(state.chunks[i]) \in Int
    BY <1>1 DEF Size, Chunk
  <2>2. QED
    BY <1>1, <1>6, <2>1, SetChunkType DEF AlreadyComplete, TypeOK
<1>7. CASE Respond(i)
  <2>1. Server[url].length \in Nat /\ remote[url] \in Contents
    BY ServerAssumption DEF TypeOK, Remote
  <2>2. PICK c \in Contents, src \in Int, e \in Int :
          worker' = [worker EXCEPT ![i] =
                       [@ EXCEPT !.at = "loop", !.content = c,
                                 !.src = src, !.last = e]]
    <3> DEFINE c == state.chunks[i]
               src  == IF c.end < 0 THEN 0 ELSE CurrentPosition(c)
               last == IF c.end < 0 THEN Server[url].length ELSE c.end + 1
    <3>1. src \in Int /\ last \in Int
      BY <1>1, <2>1 DEF CurrentPosition, Chunk
    <3>2. \A e \in (IF "short" \in Faults THEN src .. last ELSE {last}) :
            e \in Int
      BY <3>1
    <3>3. QED  BY <1>7, <2>1, <3>1, <3>2 DEF Respond
  <2>3. worker' \in [DOMAIN worker -> Worker]
    BY <1>1, <2>2
  <2>4. QED
    BY <1>1, <1>7, <2>3 DEF Respond, TypeOK
<1>8. CASE RequestFails(i)
  BY <1>4, <1>8 DEF RequestFails
<1>9. CASE Continue(i)
  BY <1>1, <1>4, <1>9 DEF Continue, TypeOK
<1>10. CASE ReadBytes(i)
  <2>1. PICK n \in 1 .. MaxRead :
          worker' = [worker EXCEPT ![i] = [@ EXCEPT !.at = "write", !.n = n]]
    BY <1>10 DEF ReadBytes
  <2>2. n \in Int /\ worker[i] \in Worker
    BY <1>1, BoundsAssumption
  <2> HIDE DEF At, Goto
  <2>3. worker' \in [DOMAIN worker -> Worker]
    BY <1>1, <2>1, <2>2
  <2>4. QED
    BY <1>1, <1>10, <2>3 DEF ReadBytes, TypeOK
<1>11. CASE ReadEOF(i)
  BY <1>1, <1>11 DEF ReadEOF, TypeOK
<1>12. CASE ReadFails(i)
  BY <1>4, <1>12 DEF ReadFails
<1>13. CASE LimiterFails(i)
  BY <1>4, <1>13 DEF LimiterFails
<1>14. ASSUME NEW n \in Int
       PROVE  WriteAt(worker[i].content, worker[i].src, n, Offset(i), data)
                \in [Offsets -> Cells]
  BY <1>1, BoundsAssumption
  DEF WriteAt, ExtendTo, Cells, TypeOK, Offset, Chunk
<1>15. CASE Write(i)
  BY <1>1, <1>14, <1>15 DEF Write, TypeOK
<1>16. CASE WriteFails(i)
  <2>1. data' \in [Offsets -> Cells]
    BY <1>14, <1>16 DEF WriteFails, TypeOK
  <2>2. Stop(i, "failed")
    BY <1>16 DEF WriteFails
  <2>3. QED
    BY <1>1, <2>1, <2>2, SetChunkType DEF Stop, TypeOK
<1>17. CASE Record(i)
  <2> DEFINE w == worker[i]
  <2>1. PICK step \in {"finish", "loop"} :
          worker' = [worker EXCEPT ![i] =
                       [@ EXCEPT !.at = step, !.got = w.got + w.n,
                                 !.src = w.src + w.n, !.n = 0]]
    BY <1>17 DEF Record
  <2>2. w \in Worker
    BY <1>1
  <2>3. worker' \in [DOMAIN worker -> Worker]
    <3>1. [w EXCEPT !.at = step, !.got = w.got + w.n,
                    !.src = w.src + w.n, !.n = 0] \in Worker
      <4>1. /\ w.got + w.n \in Int /\ w.src + w.n \in Int
            /\ step \in WorkerSteps /\ 0 \in Int
        BY <2>2
      <4> HIDE DEF Worker, WorkerSteps
      <4>2. QED  BY <2>2, <4>1, AdvanceType, Zenon
    <3>2. QED  BY <1>1, <2>1, <3>1, Zenon
  <2>4. w.got + w.n \in Int
    BY <2>2
  <2>5. data' \in [Offsets -> Cells]
    BY <1>17 DEF Record, TypeOK
  <2>6. SetChunk(i, w.got + w.n, "in_progress")
    BY <1>17 DEF Record
  <2>7. QED
    BY <1>1, <2>3, <2>4, <2>5, <2>6, SetChunkType
<1>18. CASE FinishChunk(i)
  BY <1>1, <1>18, SetChunkType DEF FinishChunk, TypeOK
<1>19. QED
  BY <1>5, <1>6, <1>7, <1>8, <1>9, <1>10, <1>11, <1>12, <1>13, <1>15, <1>16,
     <1>17, <1>18 DEF WorkerStep

Calls(calls) ==
  /\ calls = [t \in Savers |-> calls[t]]
  /\ \A t \in Savers : IsCall(calls[t])

LEMMA CallType ==
  ASSUME NEW at \in {"idle", "write", "rename", "remove"},
         NEW fd \in {"none", "tmp", "state", "gone"},
         NEW snap, snap = NoState \/ IsRecord(snap)
  PROVE  IsCall([at |-> at, fd |-> fd, snap |-> snap])
BY Zenon DEF IsCall

LEMMA CallFields ==
  ASSUME NEW call, IsCall(call)
  PROVE  /\ call = [at |-> call.at, fd |-> call.fd, snap |-> call.snap]
         /\ call.at \in {"idle", "write", "rename", "remove"}
         /\ call.fd \in {"none", "tmp", "state", "gone"}
         /\ call.snap = NoState \/ IsRecord(call.snap)
BY Zenon DEF IsCall

LEMMA CallUpdate ==
  ASSUME NEW call, IsCall(call),
         NEW at \in {"idle", "write", "rename", "remove"},
         NEW fd \in {"none", "tmp", "state", "gone"}
  PROVE  /\ [call EXCEPT !.fd = fd]
              = [at |-> call.at, fd |-> fd, snap |-> call.snap]
         /\ [call EXCEPT !.at = at]
              = [at |-> at, fd |-> call.fd, snap |-> call.snap]
         /\ [call EXCEPT !.at = at, !.fd = fd]
              = [at |-> at, fd |-> fd, snap |-> call.snap]
<1> DEFINE fields == {"at", "fd", "snap"}
           snap == call.snap
           q == [call EXCEPT !.fd = fd]
           r == [call EXCEPT !.at = at]
           b == [call EXCEPT !.at = at, !.fd = fd]
<1>1. call = [at |-> call.at, fd |-> call.fd, snap |-> call.snap]
  BY CallFields
<1>2. DOMAIN call = fields
  BY <1>1
<1>3. /\ q.at = call.at /\ q.fd = fd /\ q.snap = snap
      /\ r.at = at /\ r.fd = call.fd /\ r.snap = snap
      /\ b.at = at /\ b.fd = fd /\ b.snap = snap
  BY <1>2
<1>4. /\ q = [k \in fields |-> q[k]]
      /\ r = [k \in fields |-> r[k]]
      /\ b = [k \in fields |-> b[k]]
  BY <1>2
<1> HIDE DEF q, r, b, snap
<1>5. q = [at |-> call.at, fd |-> fd, snap |-> snap]
  BY <1>3, <1>4
<1>6. r = [at |-> at, fd |-> call.fd, snap |-> snap]
  BY <1>3, <1>4
<1>7. b = [at |-> at, fd |-> fd, snap |-> snap]
  BY <1>3, <1>4
<1>8. QED  BY <1>5, <1>6, <1>7 DEF q, r, b, snap

LEMMA MovedType ==
  ASSUME NEW calls, Calls(calls), NEW from,
         NEW to \in {"none", "tmp", "state", "gone"}
  PROVE  /\ Calls(Moved(calls, from, to))
         /\ \A t \in Savers :
              /\ Moved(calls, from, to)[t].at = calls[t].at
              /\ Moved(calls, from, to)[t].snap = calls[t].snap
<1> DEFINE m == Moved(calls, from, to)
<1>1. \A t \in Savers :
        m[t] = IF calls[t].fd = from THEN [calls[t] EXCEPT !.fd = to]
                                     ELSE calls[t]
  BY DEF Moved
<1>2. m = [t \in Savers |-> m[t]]
  BY DEF Moved
<1>3. \A t \in Savers : IsCall(calls[t])
  BY DEF Calls
<1> HIDE DEF m
<1>4. ASSUME NEW t \in Savers
      PROVE  IsCall(m[t]) /\ m[t].at = calls[t].at /\ m[t].snap = calls[t].snap
  <2>1. CASE calls[t].fd = from
    <3>1. m[t] = [at |-> calls[t].at, fd |-> to, snap |-> calls[t].snap]
      <4>1. m[t] = [calls[t] EXCEPT !.fd = to]
        BY <1>1, <2>1
      <4>2. calls[t].at \in {"idle", "write", "rename", "remove"}
        BY <1>3, CallFields
      <4>3. [calls[t] EXCEPT !.fd = to]
              = [at |-> calls[t].at, fd |-> to, snap |-> calls[t].snap]
        BY <1>3, <4>2, CallUpdate, ZenonT(60)
      <4>4. QED  BY <4>1, <4>3, Zenon
    <3>2. IsCall([at |-> calls[t].at, fd |-> to, snap |-> calls[t].snap])
      BY <1>3, CallFields, CallType
    <3>3. QED  BY <3>1, <3>2
  <2>2. CASE calls[t].fd # from
    BY <1>1, <1>3, <2>2, Zenon
  <2>3. QED  BY <2>1, <2>2
<1>5. m = Moved(calls, from, to)
  BY DEF m
<1>6. QED  BY <1>2, <1>4, <1>5, Zenon DEF Calls

LEMMA SetCallType ==
  ASSUME NEW calls, Calls(calls), NEW s \in Savers, NEW call, IsCall(call)
  PROVE  Calls([calls EXCEPT ![s] = call])
BY DEF Calls

LEMMA SaveType ==
  ASSUME TypeInv, NEW s \in Savers, SaveStep(s)
  PROVE  TypeInv'
<1> USE DEF TypeInv
<1>1. UNCHANGED <<data, exists, remote, url, conns, state, worker, cancelled>>
  BY DEF SaveStep
<1>2. Calls(save)
  BY DEF TypeOK, Calls
<1>3. ASSUME save[s].at # "idle" 
      PROVE  IsRecord(save[s].snap) /\ pc \notin {"off", "load", "open"}
  BY <1>3 DEF Shape
<1>4. SUFFICES
        /\ tmpFile' \in {NoFile, Torn} \/ IsRecord(tmpFile')
        /\ stateFile' \in {NoFile, Torn} \/ IsRecord(stateFile')
        /\ Calls(save')
        /\ \A t \in Savers : save'[t].at # "idle" =>
             save[t].at # "idle" /\ save'[t].snap = save[t].snap
        /\ UNCHANGED pc \/ pc' = "failed"
        /\ pc \notin {"off", "load", "open"}
        /\ ticker' \in {ticker, "off"}
  <2>1. pc' \in Steps /\ ticker' \in {"off", "select", "parked"}
    BY <1>4 DEF TypeOK, Steps
  <2>2. TypeOK'
    BY <1>1, <1>4, <2>1 DEF TypeOK, Calls
  <2>3. \A t \in Savers : save'[t].at # "idle" => IsRecord(save'[t].snap)
    BY <1>4 DEF Shape
  <2>4. Shape'
    <3>1. pc' \notin {"off", "load", "open"}
      BY <1>4
    <3>2. pc' = "spawn" => pc = "spawn"
      BY <1>4
    <3>3. QED  BY <1>1, <1>4, <2>3, <3>1, <3>2 DEF Shape
  <2>5. QED  BY <2>2, <2>4
<1>5. IsCall(Idle)
  BY DEF IsCall, Idle
<1>6. ASSUME NEW calls, Calls(calls), SaveReturns(s, calls),
             \A t \in Savers : /\ calls[t].at = save[t].at
                               /\ calls[t].snap = save[t].snap
      PROVE  /\ Calls(save')
             /\ \A t \in Savers : save'[t].at # "idle" =>
                  save[t].at # "idle" /\ save'[t].snap = save[t].snap
             /\ UNCHANGED pc \/ pc' = "failed"
             /\ ticker' \in {ticker, "off"}
  <2>1. save' = [calls EXCEPT ![s] = Idle]
    BY <1>6 DEF SaveReturns
  <2>2. Calls(save')
    BY <1>5, <1>6, <2>1, SetCallType
  <2>3. \A t \in Savers : save'[t] = IF t = s THEN Idle ELSE calls[t]
    BY <1>6, <2>1 DEF Calls
  <2>4. \A t \in Savers : save'[t].at # "idle" =>
          save[t].at # "idle" /\ save'[t].snap = save[t].snap
    BY <1>6, <2>3 DEF Idle
  <2>5. /\ UNCHANGED pc \/ pc' = "failed"
        /\ ticker' \in {ticker, "off"}
    BY <1>6 DEF SaveReturns
  <2>6. QED  BY <2>2, <2>4, <2>5
<1>7. ASSUME NEW call, save' = [save EXCEPT ![s] = call], IsCall(call),
             call.snap = save[s].snap, save[s].at # "idle"
      PROVE  /\ Calls(save')
             /\ \A t \in Savers : save'[t].at # "idle" =>
                  save[t].at # "idle" /\ save'[t].snap = save[t].snap
  <2>1. Calls(save')
    BY <1>2, <1>7, SetCallType
  <2>2. \A t \in Savers : save'[t] = IF t = s THEN call ELSE save[t]
    BY <1>2, <1>7 DEF Calls
  <2>3. QED  BY <1>7, <2>1, <2>2
<1>71. CASE SaveWrite(s)
  <2> DEFINE call == [save[s] EXCEPT !.at = "rename", !.fd = "none"]
  <2>1. IsCall(call) /\ call.snap = save[s].snap
    <3>1. call = [at |-> "rename", fd |-> "none", snap |-> save[s].snap]
      BY <1>2, CallUpdate DEF Calls
    <3>2. IsCall([at |-> "rename", fd |-> "none", snap |-> save[s].snap])
      BY <1>2, CallFields, CallType DEF Calls
    <3>3. QED  BY <3>1, <3>2
  <2> HIDE DEF call
  <2>2. save' = [save EXCEPT ![s] = call] /\ save[s].at # "idle"
    BY <1>71 DEF SaveWrite, call
  <2>3. /\ Calls(save')
        /\ \A t \in Savers : save'[t].at # "idle" =>
             save[t].at # "idle" /\ save'[t].snap = save[t].snap
    BY <1>7, <2>1, <2>2
  <2>4. IsRecord(save[s].snap) /\ pc \notin {"off", "load", "open"}
    BY <1>3, <2>2
  <2>5. QED
    BY <1>71, <2>3, <2>4 DEF SaveWrite, TypeOK
<1>8. CASE SaveWriteFails(s)
  BY <1>2, <1>3, <1>6, <1>8 DEF SaveWriteFails, TypeOK
<1>9. CASE SaveRename(s)
  <2> DEFINE m == Moved(save, "state", "gone")
             k == Moved(m, "tmp", "state")
  <2>1. Calls(k) /\ \A t \in Savers : /\ k[t].at = save[t].at
                                      /\ k[t].snap = save[t].snap
    BY <1>2, MovedType
  <2>2. SaveReturns(s, k)
    BY <1>9 DEF SaveRename
  <2> HIDE DEF k
  <2>3. QED
    BY <1>3, <1>6, <1>9, <2>1, <2>2 DEF SaveRename, TypeOK
<1>10. CASE SaveRenameFails(s)
  <2> DEFINE call == [save[s] EXCEPT !.at = "remove"]
  <2>1. IsCall(call) /\ call.snap = save[s].snap
    <3>1. call = [at |-> "remove", fd |-> save[s].fd, snap |-> save[s].snap]
      BY <1>2, CallUpdate DEF Calls
    <3>2. IsCall([at |-> "remove", fd |-> save[s].fd, snap |-> save[s].snap])
      BY <1>2, CallFields, CallType DEF Calls
    <3>3. QED  BY <3>1, <3>2
  <2> HIDE DEF call
  <2>2. save' = [save EXCEPT ![s] = call] /\ save[s].at # "idle"
    BY <1>10 DEF SaveRenameFails, call
  <2>3. /\ Calls(save')
        /\ \A t \in Savers : save'[t].at # "idle" =>
             save[t].at # "idle" /\ save'[t].snap = save[t].snap
    BY <1>7, <2>1, <2>2
  <2>4. QED
    BY <1>3, <1>10, <2>2, <2>3 DEF SaveRenameFails, TypeOK
<1>11. CASE SaveRemove(s)
  <2> DEFINE k == Moved(save, "tmp", "gone")
  <2>1. Calls(k) /\ \A t \in Savers : /\ k[t].at = save[t].at
                                      /\ k[t].snap = save[t].snap
    BY <1>2, MovedType
  <2>2. SaveReturns(s, k)
    BY <1>11 DEF SaveRemove
  <2> HIDE DEF k
  <2>3. QED
    BY <1>3, <1>6, <1>11, <2>1, <2>2 DEF SaveRemove, TypeOK
<1>12. QED
  BY <1>71, <1>8, <1>9, <1>10, <1>11 DEF SaveStep

LEMMA SaveOpenType ==
  ASSUME TypeInv, NEW s \in Savers, SaveOpen(s), IsRecord(state)
  PROVE  /\ tmpFile' = Torn /\ UNCHANGED stateFile
         /\ Calls(save')
         /\ \A t \in Savers : save'[t].at # "idle" => IsRecord(save'[t].snap)
<1> DEFINE call == [at |-> "write", fd |-> "tmp", snap |-> state]
<1>1. IsCall(call) /\ call.snap = state
  BY CallType
<1>2. Calls(save)
  BY DEF TypeInv, TypeOK, Calls
<1> HIDE DEF call
<1>3. save' = [save EXCEPT ![s] = call]
  BY DEF SaveOpen, call
<1>4. \A t \in Savers : save'[t] = IF t = s THEN call ELSE save[t]
  BY <1>2, <1>3 DEF Calls
<1>5. Calls(save')
  BY <1>1, <1>2, <1>3, SetCallType
<1>6. QED
  BY <1>1, <1>4, <1>5 DEF SaveOpen, TypeInv, Shape

LEMMA TickerType ==
  ASSUME TypeInv, Park \/ Tick \/ StopTicker
  PROVE  TypeInv'
<1> USE DEF TypeInv
<1>1. CASE Park
  BY <1>1 DEF Park, TypeOK, Shape, IsCall, disk, main
<1>2. CASE Tick
  <2>1. IsRecord(state) /\ pc \notin {"off", "load", "open"}
    BY <1>2 DEF Tick, Shape
  <2>2. /\ tmpFile' = Torn /\ UNCHANGED stateFile
        /\ Calls(save')
        /\ \A t \in Savers : save'[t].at # "idle" => IsRecord(save'[t].snap)
    <3>1. SaveOpen("saver") /\ "saver" \in Savers
      BY <1>2 DEF Tick, Savers
    <3>2. QED  BY <2>1, <3>1, SaveOpenType, Zenon
  <2>3. /\ UNCHANGED <<data, exists, remote, pc, url, conns, state, worker,
                       cancelled>>
        /\ ticker' = "select"
    BY <1>2 DEF Tick, main
  <2>4. TypeOK'
    BY <2>2, <2>3 DEF TypeOK, Calls
  <2>5. Shape'
    BY <2>1, <2>2, <2>3 DEF Shape
  <2>6. QED  BY <2>4, <2>5
<1>3. CASE StopTicker
  BY <1>3 DEF StopTicker, TypeOK, Shape, IsCall, disk, main
<1>4. QED  BY <1>1, <1>2, <1>3

LEMMA ProcessEndsType ==
  ASSUME TypeInv, ProcessEnds
  PROVE  TypeInv'
<1>1. DOMAIN worker' = {} /\ worker' \in [DOMAIN worker' -> Worker]
  BY DEF ProcessEnds, NoWorkers
<1>2. /\ save' = [t \in Savers |-> save'[t]]
      /\ \A t \in Savers : save'[t] = Idle
  BY DEF ProcessEnds
<1>3. IsCall(Idle)
  BY DEF IsCall, Idle
<1>4. pc' \in Steps /\ ticker' \in {"off", "select", "parked"}
  BY DEF ProcessEnds, Steps
<1>5. UNCHANGED <<data, exists, stateFile, remote, url, conns>>
  BY DEF ProcessEnds
<1>6. /\ tmpFile' \in {NoFile, Torn} /\ state' = NoState
      /\ cancelled' = FALSE /\ pc' = "off" /\ ticker' = "off"
  BY DEF ProcessEnds
<1>7. TypeOK'
  BY <1>1, <1>2, <1>3, <1>4, <1>5, <1>6 DEF TypeInv, TypeOK
<1>8. Shape'
  BY <1>1, <1>2, <1>6 DEF Shape, Idle
<1>9. QED  BY <1>7, <1>8 DEF TypeInv

(* The files Preallocate and Truncate make are files.                      *)
LEMMA FileType ==
  ASSUME NEW f \in [Offsets -> Cells], NEW n \in Nat
  PROVE  /\ Preallocate(n, f) \in [Offsets -> Cells]
         /\ Truncate(n, f) \in [Offsets -> Cells]
<1>1. Zero \in Cells /\ EOF \in Cells
  BY DEF Cells
<1>2. ExtendTo(n, f) \in [Offsets -> Cells]
  BY <1>1 DEF ExtendTo
<1>3. QED  BY <1>1, <1>2 DEF Preallocate, Truncate

LEMMA StartType ==
  ASSUME TypeInv, NEW u \in Urls, NEW n \in Connections, Start(u, n)
  PROVE  TypeInv'
BY DEF TypeInv, Start, TypeOK, Shape, IsCall, disk, Steps

LEMMA MainType ==
  ASSUME TypeInv, MainStep
  PROVE  TypeInv'
<1> USE DEF TypeInv
<1>1. ContentLength(url) \in Nat
  BY ServerAssumption DEF ContentLength, Remote, TypeOK
<1>2. CASE Load
  <2>1. IsRecord(state')
    <3>1. IsRecord(NewState(url, conns))
      BY NewStateType DEF TypeOK
    <3>2. IsState(stateFile) => IsRecord(stateFile)
      BY DEF IsState, TypeOK
    <3>3. QED  BY <1>2, <3>1, <3>2 DEF Load
  <2>2. QED
    BY <1>2, <2>1 DEF Load, TypeOK, Shape, IsCall, disk, Steps
<1>3. CASE OpenWriter
  <2>1. data' \in [Offsets -> Cells]
    BY <1>1, <1>3, FileType DEF OpenWriter, TypeOK
  <2>2. QED
    BY <1>3, <2>1 DEF OpenWriter, TypeOK, Shape, IsCall, Steps
<1>4. CASE OpenFails
  <2>1. exists' \in BOOLEAN
    BY <1>4 DEF OpenFails, TypeOK
  <2>2. QED
    BY <1>4, <2>1 DEF OpenFails, TypeOK, Shape, IsCall, Steps
<1>5. CASE Spawn
  <2>1. IsRecord(state)
    BY <1>5 DEF Spawn, Shape
  <2>2. /\ DOMAIN state.chunks \subseteq ChunkIds
        /\ \A i \in DOMAIN state.chunks : i \in Nat /\ state.chunks[i] \in Chunk
    BY <2>1, ChunkIdsType
  <2>3. remote[url] \in Contents
    BY DEF TypeOK
  <2>4. \A i \in DOMAIN state.chunks : NewWorker(i) \in Worker
    BY <2>2, <2>3 DEF NewWorker, Worker, WorkerSteps, Chunk
  <2>5. DOMAIN worker' = PendingChunks(state.chunks)
    BY <1>5 DEF Spawn
  <2>6. PendingChunks(state.chunks) \subseteq DOMAIN state.chunks
    BY DEF PendingChunks
  <2>7. worker' \in [DOMAIN worker' -> Worker]
    BY <1>5, <2>4, <2>5, <2>6 DEF Spawn
  <2>8. /\ UNCHANGED <<disk, remote, url, conns, state, cancelled, ticker, save>>
        /\ pc' \in {"delete", "wait"}
    BY <1>5 DEF Spawn
  <2>9. TypeOK'
    BY <2>2, <2>5, <2>6, <2>7, <2>8 DEF TypeOK, IsCall, disk, Steps
  <2>10. Shape'
    BY <1>5, <2>1, <2>5, <2>6, <2>8 DEF Shape, Spawn
  <2>11. QED  BY <2>9, <2>10
<1>6. CASE Await
  BY <1>6 DEF Await, TypeOK, Shape, IsCall, disk, Steps
<1>7. CASE SaveOnError
  <2>1. IsRecord(state)
    BY <1>7 DEF SaveOnError, Shape
  <2>2. /\ tmpFile' = Torn /\ UNCHANGED stateFile
        /\ Calls(save')
        /\ \A t \in Savers : save'[t].at # "idle" => IsRecord(save'[t].snap)
    <3>1. SaveOpen("main") /\ "main" \in Savers
      BY <1>7 DEF SaveOnError, Savers
    <3>2. QED  BY <2>1, <3>1, SaveOpenType, Zenon
  <2>3. /\ UNCHANGED <<data, exists, remote, url, conns, state, worker,
                       cancelled, ticker>>
        /\ pc = "save" /\ pc' = "saving"
    BY <1>7 DEF SaveOnError
  <2>4. TypeOK'
    BY <2>2, <2>3 DEF TypeOK, Calls, Steps
  <2>5. Shape'
    BY <2>1, <2>2, <2>3 DEF Shape
  <2>6. QED  BY <2>4, <2>5
<1>8. CASE DeleteState
  <2>1. Calls(save)
    BY DEF TypeOK, Calls
  <2>2. /\ Calls(save')
        /\ \A t \in Savers : /\ save'[t].at = save[t].at
                             /\ save'[t].snap = save[t].snap
    BY <1>8, <2>1, MovedType DEF DeleteState
  <2>3. /\ UNCHANGED <<data, exists, tmpFile, remote, url, conns, state, worker,
                       cancelled, ticker>>
        /\ stateFile' = NoFile /\ pc = "delete" /\ pc' = "truncate"
    BY <1>8 DEF DeleteState
  <2>4. TypeOK'
    BY <2>2, <2>3 DEF TypeOK, Calls, Steps
  <2>5. Shape'
    BY <2>2, <2>3 DEF Shape
  <2>6. QED  BY <2>4, <2>5
<1>9. CASE TruncateFile
  <2>1. data' \in [Offsets -> Cells]
    BY <1>1, <1>9, FileType DEF TruncateFile, TypeOK
  <2>2. QED
    BY <1>9, <2>1 DEF TruncateFile, TypeOK, Shape, IsCall, Steps
<1>10. CASE CloseDone
  BY <1>10 DEF CloseDone, TypeOK, Shape, IsCall, disk, Steps
<1>11. CASE Exit
  BY <1>11, ProcessEndsType DEF Exit
<1>12. QED
  BY <1>2, <1>3, <1>4, <1>5, <1>6, <1>7, <1>8, <1>9, <1>10, <1>11 DEF MainStep

LEMMA EnvironmentType ==
  ASSUME TypeInv,
         \/ Cancel \/ Crash \/ DeleteOutput
         \/ \E u \in Urls, c \in Contents : Replace(u, c)
  PROVE  TypeInv'
<1> USE DEF TypeInv
<1>1. CASE Cancel
  BY <1>1 DEF Cancel, TypeOK, Shape, IsCall, disk, main
<1>2. CASE Crash
  BY <1>2, ProcessEndsType DEF Crash
<1>3. CASE DeleteOutput
  BY <1>3 DEF DeleteOutput, TypeOK, Shape, IsCall, Cells, main
<1>4. ASSUME NEW u \in Urls, NEW c \in Contents, Replace(u, c)
      PROVE  TypeInv'
  BY <1>4 DEF Replace, TypeOK, Shape, IsCall, disk, main
<1>5. QED  BY <1>1, <1>2, <1>3, <1>4

LEMMA TypeNext ==
  ASSUME TypeInv, [Next]_vars
  PROVE  TypeInv'
<1>1. CASE UNCHANGED vars
  BY <1>1 DEF vars, disk, main, TypeInv, TypeOK, Shape, IsCall
<1>2. CASE Next
  BY <1>2, StartType, MainType, WorkerType, SaveType, TickerType,
     EnvironmentType DEF Next
<1>3. QED  BY <1>1, <1>2

(* Every variable keeps its type, whatever the server, the user and the     *)
(* environment do.                                                         *)
THEOREM TypeCorrect == Spec => []TypeOK
<1>1. Spec => []TypeInv
  BY TypeInit, TypeNext, PTL DEF Spec
<1>2. TypeInv => TypeOK
  BY DEF TypeInv
<1>3. QED  BY <1>1, <1>2, PTL

-----------------------------------------------------------------------------
(* The file is as long as was announced once the file is truncated, for no  *)
(* goroutine of a chunk writes any more.                                   *)
LengthInv ==
  /\ pc \in {"delete", "truncate", "close", "succeeded"} =>
       \A i \in DOMAIN worker : worker[i].at = "ok"
  /\ pc \in {"close", "succeeded"} /\ ContentLength(url) > 0 =>
       \A p \in Offsets : data[p] = EOF <=> p >= ContentLength(url)

LEMMA TruncatedLength ==
  ASSUME NEW f, NEW n \in Nat, NEW p \in Offsets
  PROVE  Truncate(n, f)[p] = EOF <=> p >= n
<1>1. p \in Nat
  BY BoundsAssumption
<1>2. ExtendTo(n, f)[p] = IF f[p] = EOF /\ p < n THEN Zero ELSE f[p]
  BY DEF ExtendTo
<1>3. Truncate(n, f)[p] = IF p < n THEN ExtendTo(n, f)[p] ELSE EOF
  BY DEF Truncate
<1>4. QED  BY <1>1, <1>2, <1>3, BytesAssumption

LEMMA LengthNext ==
  ASSUME TypeInv, LengthInv, [Next]_vars
  PROVE  LengthInv'
<1> DEFINE Ending == {"delete", "truncate", "close", "succeeded"}
<1>1. CASE UNCHANGED vars
  BY <1>1 DEF vars, disk, main, LengthInv
<1>2. CASE \/ Cancel \/ Park \/ Tick \/ StopTicker
  BY <1>2 DEF Cancel, Park, Tick, StopTicker, SaveOpen, disk, main, LengthInv
<1>3. CASE \/ Crash \/ Exit \/ DeleteOutput \/ Load \/ OpenWriter \/ OpenFails
           \/ SaveOnError
           \/ \E u \in Urls, n \in Connections : Start(u, n)
           \/ \E u \in Urls, c \in Contents : Replace(u, c)
  <2>1. pc' \notin Ending
    BY <1>3 DEF Crash, Exit, ProcessEnds, DeleteOutput, Load, OpenWriter, OpenFails,
                SaveOnError, Start, Replace, main
  <2>2. QED  BY <2>1 DEF LengthInv
<1>4. ASSUME NEW s \in Savers, SaveStep(s)
      PROVE  LengthInv'
  <2>1. UNCHANGED <<data, url, worker>> /\ (pc' = pc \/ pc' = "failed")
    BY <1>4 DEF SaveStep, SaveWrite, SaveWriteFails, SaveRename, SaveRenameFails,
                SaveRemove, SaveReturns
  <2>2. QED  BY <2>1 DEF LengthInv
<1>5. ASSUME NEW i \in DOMAIN worker, WorkerStep(i)
      PROVE  LengthInv'
  <2>1. worker[i].at # "ok"
    BY <1>5 DEF WorkerStep, BeginChunk, AlreadyComplete, Respond, RequestFails, Continue,
                ReadBytes, ReadEOF, ReadFails, LimiterFails, Write, WriteFails, Record,
                FinishChunk, At
  <2>2. pc' = pc
    BY <1>5 DEF WorkerStep, main
  <2>3. QED  BY <2>1, <2>2 DEF LengthInv
<1>6. CASE Spawn
  <2>1. IsComplete(state.chunks) => DOMAIN worker' = {}
    BY <1>6 DEF Spawn, IsComplete
  <2>2. IsComplete(state.chunks) <=> pc' \in Ending
    BY <1>6 DEF Spawn
  <2>3. pc' \notin {"close", "succeeded"}
    BY <1>6 DEF Spawn
  <2>4. QED  BY <2>1, <2>2, <2>3 DEF LengthInv
<1>7. CASE Await
  BY <1>7 DEF Await, LengthInv
<1>8. CASE DeleteState
  BY <1>8 DEF DeleteState, LengthInv
<1>9. CASE TruncateFile
  <2>1. ContentLength(url) \in Nat
    BY ServerAssumption DEF ContentLength, Remote, TypeInv, TypeOK
  <2>2. /\ UNCHANGED <<url, worker>> /\ pc = "truncate"
        /\ ContentLength(url) > 0 => data' = Truncate(ContentLength(url), data)
    BY <1>9 DEF TruncateFile
  <2>3. QED  BY <2>1, <2>2, TruncatedLength DEF LengthInv
<1>10. CASE CloseDone
  BY <1>10 DEF CloseDone, disk, LengthInv
<1>11. QED
  BY <1>1, <1>2, <1>3, <1>4, <1>5, <1>6, <1>7, <1>8, <1>9, <1>10 DEF Next, MainStep

(* A download that returns nil leaves a file of the length the server       *)
(* announced, whatever the file and the state were before, whatever the     *)
(* server serves and whatever fails (the second truncate of Download).      *)
THEOREM LengthCorrect == Spec => []CompletedFileHasLength
<1>1. Init => LengthInv
  BY DEF Init, LengthInv
<1>2. LengthInv => CompletedFileHasLength
  BY DEF LengthInv, CompletedFileHasLength
<1>3. QED  BY <1>1, <1>2, TypeInit, TypeNext, LengthNext, PTL DEF Spec

-----------------------------------------------------------------------------
(* Facts about constants.                                                  *)
LEMMA HonestFacts ==
  ASSUME Honest, NEW u \in Urls
  PROVE  /\ u = TheUrl /\ TheUrl \in Urls
         /\ Length \in Nat /\ ContentLength(TheUrl) = Length
         /\ Server[TheUrl].ranges
         /\ \A n \in Connections : n \in Nat /\ 1 <= n /\ n <= Length
         /\ Faults \subseteq {"cancel", "crash", "error"}
BY ServerAssumption, BoundsAssumption DEF Honest, Length, ContentLength, Remote

LEMMA PlanFacts ==
  ASSUME NEW s, GoodPlan(s), NEW i \in DOMAIN s.chunks
  PROVE  LET c == s.chunks[i] IN
         /\ c \in Chunk
         /\ 0 <= c.start /\ c.start <= c.end /\ c.end < Length
         /\ 0 <= c.downloaded /\ c.start + c.downloaded <= c.end + 1
         /\ c.status = "completed" => c.start + c.downloaded = c.end + 1
<1>1. s.chunks[i] \in Chunk
  BY ChunkIdsType DEF GoodPlan
<1>2. QED
  BY <1>1 DEF GoodPlan, IsPartition, GoodChunk, Size, Chunk

(* The claims of a plan are positions of the file.                         *)
LEMMA ClaimedInFile ==
  ASSUME NEW s, GoodPlan(s), Honest
  PROVE  Claimed(s) \subseteq Bytes
<1> SUFFICES ASSUME NEW p \in Claimed(s) PROVE p \in Bytes
  OBVIOUS
<1>1. PICK i \in DOMAIN s.chunks : /\ s.chunks[i].start <= p
                                   /\ p < CurrentPosition(s.chunks[i])
  BY DEF Claimed
<1>2. /\ s.chunks[i] \in Chunk
      /\ s.chunks[i].start + s.chunks[i].downloaded <= s.chunks[i].end + 1
      /\ s.chunks[i].end < Length
  BY PlanFacts
<1>3. p \in Offsets /\ p \in Nat
  BY BoundsAssumption DEF Claimed
<1>4. Length \in Int
  BY HonestFacts DEF GoodPlan, IsRecord
<1>5. p < Length
  BY <1>1, <1>2, <1>3, <1>4 DEF CurrentPosition, Chunk
<1>6. QED  BY <1>3, <1>5 DEF Bytes, Length

LEMMA SamePartition ==
  ASSUME NEW f, NEW g, NEW total, IsPartition(f, total),
         DOMAIN g = DOMAIN f,
         \A i \in DOMAIN f : g[i].start = f[i].start /\ g[i].end = f[i].end
  PROVE  IsPartition(g, total)
BY DEF IsPartition

LEMMA NewStateGood ==
  ASSUME Honest, NEW n \in Connections, TheUrl \in Urls
  PROVE  /\ GoodPlan(NewState(TheUrl, n))
         /\ Claimed(NewState(TheUrl, n)) = {}
         /\ ~SomeDownloaded(NewState(TheUrl, n))
<1> DEFINE chunks == InitializeChunks(Length, n)
           s == NewState(TheUrl, n)
<1>1. /\ Length \in Nat /\ ContentLength(TheUrl) = Length
      /\ Server[TheUrl].ranges /\ n \in Nat /\ 1 <= n /\ n <= Length
  BY HonestFacts
<1>2. s = [url |-> TheUrl, total |-> Length, chunks |-> chunks]
  BY <1>1 DEF NewState, State
<1>3. IsRecord(s)
  BY NewStateType
<1>4. IsPartition(chunks, Length)
  BY <1>1, ChunksPartition
<1>5. \A i \in DOMAIN chunks :
        chunks[i].downloaded = 0 /\ chunks[i].status = "pending"
  BY <1>1 DEF InitializeChunks, NewChunk
<1>6. \A i \in DOMAIN chunks : chunks[i] \in Chunk
  BY <1>2, <1>3, ChunkIdsType
<1>7. \A i \in DOMAIN chunks :
        GoodChunk(chunks[i]) /\ CurrentPosition(chunks[i]) = chunks[i].start
  BY <1>4, <1>5, <1>6 DEF IsPartition, GoodChunk, Size, Chunk, CurrentPosition
<1> HIDE DEF chunks, s
<1>8. GoodPlan(s)
  BY <1>2, <1>3, <1>4, <1>7 DEF GoodPlan
<1>9. \A i \in DOMAIN s.chunks : ~(s.chunks[i].downloaded > 0)
  BY <1>2, <1>5
<1>10. Claimed(s) = {}
  <2>1. \A p \in Offsets : p \in Nat
    BY BoundsAssumption
  <2>2. \A i \in DOMAIN s.chunks :
          /\ s.chunks[i].start \in Int
          /\ CurrentPosition(s.chunks[i]) = s.chunks[i].start
    BY <1>2, <1>6, <1>7 DEF Chunk
  <2>3. QED  BY <2>1, <2>2 DEF Claimed
<1>11. QED  BY <1>8, <1>9, <1>10 DEF s, SomeDownloaded

-----------------------------------------------------------------------------
(* What is in the file stays in the file.                                  *)

LEMMA BytesAreNotEOF ==
  ASSUME TypeOK, TheUrl \in Urls, NEW p \in Have
  PROVE  /\ p \in Offsets /\ p \in Nat
         /\ data[p] = <<remote[TheUrl], p>> /\ data[p] # EOF
<1>1. p \in Offsets /\ data[p] = <<remote[TheUrl], p>>
  BY DEF Have, Bytes, HasRemoteByte
<1>2. remote[TheUrl] \in Contents /\ p \in Int
  BY <1>1, BoundsAssumption DEF TypeOK
<1>3. <<remote[TheUrl], p>> \in Contents \X Int
  BY <1>2
<1>4. QED  BY <1>1, <1>3, BytesAssumption, BoundsAssumption

LEMMA WriteKeeps ==
  ASSUME TypeOK, TheUrl \in Urls, UNCHANGED remote,
         NEW src \in Int, NEW n \in Int,
         data' = WriteAt(remote[TheUrl], src, n, src, data)
  PROVE  /\ Have \subseteq Have'
         /\ \A p \in Bytes : src <= p /\ p < src + n => p \in Have'
<1>1. ASSUME NEW p \in Offsets, src <= p, p < src + n
      PROVE  data'[p] = <<remote[TheUrl], p>>
  <2>1. p \in Int /\ src + (p - src) = p
    BY BoundsAssumption
  <2>2. data'[p] = <<remote[TheUrl], src + (p - src)>>
    BY <1>1 DEF WriteAt
  <2>3. QED  BY <2>1, <2>2
<1>2. ASSUME NEW p \in Have, ~(src <= p /\ p < src + n)
      PROVE  data'[p] = data[p]
  <2>1. p \in Offsets /\ data[p] # EOF
    BY BytesAreNotEOF
  <2>2. data'[p] = ExtendTo(src, data)[p]
    BY <1>2, <2>1 DEF WriteAt
  <2>3. QED  BY <2>1, <2>2 DEF ExtendTo
<1>3. Have \subseteq Bytes /\ Bytes \subseteq Offsets
  BY DEF Have, Bytes
<1>4. \A p \in Bytes : data'[p] = <<remote[TheUrl], p>> => p \in Have'
  BY DEF Have, HasRemoteByte, Bytes
<1>5. \A p \in Have : data[p] = <<remote[TheUrl], p>>
  BY BytesAreNotEOF
<1>6. QED  BY <1>1, <1>2, <1>3, <1>4, <1>5

(* A step of the goroutine of chunk i that changes nothing but that chunk,  *)
(* that goroutine and the file.                                            *)
LocalStep(i) ==
  /\ UNCHANGED <<exists, stateFile, tmpFile, remote, pc, url, conns, cancelled,
                 ticker, save>>
  /\ Have \subseteq Have'
  /\ state'.url = state.url /\ state'.total = state.total
  /\ DOMAIN state'.chunks = DOMAIN state.chunks
  /\ \A j \in DOMAIN state.chunks : j # i => state'.chunks[j] = state.chunks[j]
  /\ DOMAIN worker' = DOMAIN worker
  /\ \A j \in DOMAIN worker : j # i => worker'[j] = worker[j]

(* What the step leaves of chunk i.                                        *)
ChunkAfter(i) ==
  /\ state'.chunks[i].start = state.chunks[i].start
  /\ state'.chunks[i].end = state.chunks[i].end
  /\ GoodChunk(state'.chunks[i])
  /\ \A p \in Offsets :
       /\ state.chunks[i].start <= p
       /\ p < CurrentPosition(state'.chunks[i])
       => p \in Have'
  /\ GoodWorker(worker'[i], state'.chunks[i], remote[TheUrl], Have')

LEMMA GoodWorkerStays ==
  ASSUME NEW w, NEW c, NEW content, NEW have, NEW more, have \subseteq more,
         GoodWorker(w, c, content, have)
  PROVE  GoodWorker(w, c, content, more)
BY DEF GoodWorker

LEMMA LocalStepSafe ==
  ASSUME ResumeInv, TypeInv', NEW i \in DOMAIN worker, LocalStep(i),
         worker[i].at # "ok", ChunkAfter(i)
  PROVE  ResumeInv'
<1>1. /\ pc \notin {"off", "load", "open", "spawn"}
      /\ pc \notin {"delete", "truncate", "close", "succeeded"}
      /\ i \in DOMAIN state.chunks /\ DOMAIN worker \subseteq DOMAIN state.chunks
  BY DEF ResumeInv, TypeInv, Shape, EndsComplete
<1>2. GoodState(state)
  BY <1>1 DEF ResumeInv, StatesGood
<1>3. GoodPlan(state')
  <2>1. IsRecord(state')
    <3>1. pc' \notin {"off", "load"}
      BY <1>1 DEF LocalStep
    <3>2. QED  BY <3>1 DEF TypeInv, Shape
  <2>2. \A j \in DOMAIN state.chunks :
          /\ state'.chunks[j].start = state.chunks[j].start
          /\ state'.chunks[j].end = state.chunks[j].end
          /\ GoodChunk(state'.chunks[j])
    BY <1>2 DEF LocalStep, ChunkAfter, GoodState, GoodPlan
  <2>3. IsPartition(state'.chunks, Length)
    BY <1>2, <2>2, SamePartition DEF GoodState, GoodPlan, LocalStep
  <2>4. QED
    BY <1>2, <2>1, <2>2, <2>3 DEF GoodState, GoodPlan, LocalStep
<1>4. Claimed(state') \subseteq Have'
  <2> SUFFICES ASSUME NEW p \in Claimed(state') PROVE p \in Have'
    OBVIOUS
  <2>1. PICK j \in DOMAIN state.chunks :
          /\ state'.chunks[j].start <= p
          /\ p < CurrentPosition(state'.chunks[j])
    BY DEF Claimed, LocalStep
  <2>2. p \in Offsets
    BY DEF Claimed
  <2>3. CASE j = i
    BY <2>1, <2>2, <2>3 DEF ChunkAfter
  <2>4. CASE j # i
    BY <1>2, <2>1, <2>2, <2>4 DEF LocalStep, GoodState, Claimed
  <2>5. QED  BY <2>3, <2>4
<1>5. StatesGood'
  BY <1>1, <1>3, <1>4 DEF StatesGood, GoodState, LocalStep, ResumeInv
<1>6. WorkersGood'
  <2>1. \A j \in DOMAIN worker :
          GoodWorker(worker'[j], state'.chunks[j], remote[TheUrl], Have')
    <3> TAKE j \in DOMAIN worker
    <3>1. CASE j = i
      BY <3>1 DEF ChunkAfter
    <3>2. CASE j # i
      BY <1>1, <3>2, GoodWorkerStays DEF LocalStep, ResumeInv, WorkersGood
    <3>3. QED  BY <3>1, <3>2
  <2>2. QED  BY <2>1 DEF LocalStep, WorkersGood
<1>7. OpensSafely'
  BY <1>1 DEF ResumeInv, OpensSafely, LocalStep
<1>8. EndsComplete'
  BY <1>1 DEF ResumeInv, EndsComplete, LocalStep
<1>9. QED
  BY <1>5, <1>6, <1>7, <1>8 DEF ResumeInv, Honest, Length

(* UpdateChunk with a count and a status.                                  *)
LEMMA SetChunkGood ==
  ASSUME GoodPlan(state), NEW i \in DOMAIN state.chunks, NEW d, NEW t,
         SetChunk(i, d, t)
  PROVE  /\ state'.url = state.url /\ state'.total = state.total
         /\ DOMAIN state'.chunks = DOMAIN state.chunks
         /\ \A j \in DOMAIN state.chunks :
              j # i => state'.chunks[j] = state.chunks[j]
         /\ state'.chunks[i].start = state.chunks[i].start
         /\ state'.chunks[i].end = state.chunks[i].end
         /\ state'.chunks[i].downloaded = d
         /\ state'.chunks[i].status = t
<1>1. PICK n \in Connections \cup {1} : state.chunks \in [0 .. n - 1 -> Chunk]
  BY DEF GoodPlan, IsRecord
<1>2. state' = [url |-> state.url, total |-> state.total,
                chunks |-> UpdateChunk(state.chunks, i, d, t)]
  BY DEF SetChunk, GoodPlan, IsRecord
<1>3. UpdateChunk(state.chunks, i, d, t)
        = [state.chunks EXCEPT ![i] = [@ EXCEPT !.downloaded = d,
                                                !.status = t]]
  BY DEF UpdateChunk
<1>4. state.chunks[i] \in Chunk
  BY <1>1
<1>5. state'.chunks = [state.chunks EXCEPT ![i] = [@ EXCEPT !.downloaded = d,
                                                           !.status = t]]
  BY <1>2, <1>3
<1>6. state'.chunks[i] = [state.chunks[i] EXCEPT !.downloaded = d,
                                                !.status = t]
  BY <1>1, <1>5
<1>7. /\ DOMAIN state'.chunks = DOMAIN state.chunks
      /\ \A j \in DOMAIN state.chunks :
           j # i => state'.chunks[j] = state.chunks[j]
  BY <1>1, <1>5
<1>8. /\ state'.chunks[i].start = state.chunks[i].start
      /\ state'.chunks[i].end = state.chunks[i].end
      /\ state'.chunks[i].downloaded = d
      /\ state'.chunks[i].status = t
  BY <1>4, <1>6 DEF Chunk
<1>9. QED  BY <1>2, <1>6, <1>7, <1>8

Frame == UNCHANGED <<exists, stateFile, tmpFile, remote, pc, url, conns, cancelled,
                     ticker, save>>

(* What GoodWorker says of w in terms of the chunk's bounds, count d and     *)
(* status t.                                                               *)
GoodAfter(w, c, d, t, have) ==
  /\ w.got = d
  /\ w.at \in {"loop", "read", "write", "record", "finish"} =>
       /\ w.content = remote[TheUrl]
       /\ w.src = c.start + d /\ w.last = c.end + 1
  /\ w.at \in {"write", "record"} => 1 <= w.n /\ w.src + w.n <= w.last
  /\ w.at = "record" =>
       {p \in Offsets : w.src <= p /\ p < w.src + w.n} \subseteq have
  /\ w.at = "finish" => w.src = w.last
  /\ w.at = "ok" => t = "completed"

LEMMA StepSafe ==
  ASSUME ResumeInv, TypeInv', NEW i \in DOMAIN worker, worker[i].at # "ok",
         Frame, Have \subseteq Have',
         NEW d \in Int, NEW t, NEW w,
         worker' = [worker EXCEPT ![i] = w],
         \/ SetChunk(i, d, t)
         \/ /\ state' = state /\ d = state.chunks[i].downloaded
            /\ t = state.chunks[i].status,
         0 <= d, state.chunks[i].start + d <= state.chunks[i].end + 1,
         t = "completed" => state.chunks[i].start + d = state.chunks[i].end + 1,
         \A p \in Offsets : state.chunks[i].start <= p
                            /\ p < state.chunks[i].start + d => p \in Have',
         GoodAfter(w, state.chunks[i], d, t, Have')
  PROVE  ResumeInv'
<1> DEFINE c == state.chunks[i]
           e == state'.chunks[i]
<1>1. /\ GoodPlan(state) /\ i \in DOMAIN state.chunks /\ c \in Chunk
  <2>1. GoodPlan(state) /\ i \in DOMAIN state.chunks
    BY DEF ResumeInv, TypeInv, Shape, StatesGood, GoodState
  <2>2. QED  BY <2>1, PlanFacts
<1>2. /\ state'.url = state.url /\ state'.total = state.total
      /\ DOMAIN state'.chunks = DOMAIN state.chunks
      /\ \A j \in DOMAIN state.chunks :
           j # i => state'.chunks[j] = state.chunks[j]
      /\ e.start = c.start /\ e.end = c.end /\ e.downloaded = d /\ e.status = t
  <2>1. CASE SetChunk(i, d, t)
    BY <1>1, <2>1, SetChunkGood
  <2>2. CASE /\ state' = state /\ d = state.chunks[i].downloaded
             /\ t = state.chunks[i].status
    BY <2>2
  <2>3. QED  BY <2>1, <2>2
<1>3. /\ DOMAIN worker' = DOMAIN worker /\ worker'[i] = w
      /\ \A j \in DOMAIN worker : j # i => worker'[j] = worker[j]
  BY DEF ResumeInv, TypeInv, TypeOK
<1>4. LocalStep(i)
  BY <1>2, <1>3 DEF LocalStep, Frame
<1> HIDE DEF c, e
<1>5. c.start \in Int /\ c.end \in Int
  BY <1>1 DEF Chunk
<1>6. CurrentPosition(e) = c.start + d /\ Size(e) = c.end - c.start + 1
  BY <1>2, <1>5 DEF CurrentPosition, Size
<1>7. GoodChunk(e)
  BY <1>2, <1>5, <1>6 DEF GoodChunk, c
<1>8. GoodWorker(w, e, remote[TheUrl], Have')
  BY <1>2, <1>6 DEF GoodWorker, GoodAfter, c
<1>9. ChunkAfter(i)
  BY <1>2, <1>3, <1>6, <1>7, <1>8 DEF ChunkAfter, c, e
<1>10. QED  BY <1>4, <1>9, LocalStepSafe

LEMMA SameBytes ==
  ASSUME UNCHANGED data, UNCHANGED remote
  PROVE  Have' = Have
BY DEF Have, HasRemoteByte, Bytes

LEMMA WorkerSafe ==
  ASSUME ResumeInv, NEW i \in DOMAIN worker, WorkerStep(i)
  PROVE  ResumeInv'
<1> DEFINE c == state.chunks[i]
           w == worker[i]
<1>1. TypeInv'
  BY WorkerType DEF ResumeInv
<1>2. Frame
  BY DEF WorkerStep, Frame, main
<1>3. /\ url = TheUrl /\ TheUrl \in Urls
      /\ Server[url].ranges /\ Faults \subseteq {"cancel", "crash", "error"}
  BY HonestFacts DEF ResumeInv, TypeInv, TypeOK
<1>4. w \in Worker /\ worker = [j \in DOMAIN worker |-> worker[j]]
  BY DEF ResumeInv, TypeInv, TypeOK
<1>5. GoodState(state) /\ i \in DOMAIN state.chunks
  BY DEF ResumeInv, TypeInv, Shape, StatesGood
<1>6. /\ c \in Chunk
      /\ 0 <= c.start /\ c.start <= c.end
      /\ 0 <= c.downloaded /\ c.start + c.downloaded <= c.end + 1
      /\ c.status = "completed" => c.start + c.downloaded = c.end + 1
  BY <1>5, PlanFacts DEF GoodState
<1>7. /\ c.start \in Int /\ c.end \in Int /\ c.downloaded \in Int
      /\ w.got \in Int /\ w.src \in Int /\ w.last \in Int /\ w.n \in Int
  BY <1>4, <1>6 DEF Chunk, Worker
<1>8. \A p \in Offsets :
        c.start <= p /\ p < c.start + c.downloaded => p \in Have
  BY <1>5 DEF GoodState, Claimed, CurrentPosition
<1>9. GoodAfter(w, c, c.downloaded, c.status, Have)
  BY <1>5 DEF ResumeInv, WorkersGood, GoodWorker, GoodAfter, CurrentPosition
<1> HIDE DEF c, w
<1>10. ASSUME state' = state, Have \subseteq Have', w.at # "ok",
              NEW v, worker' = [worker EXCEPT ![i] = v],
              GoodAfter(v, c, c.downloaded, c.status, Have')
       PROVE  ResumeInv'
  BY <1>1, <1>2, <1>6, <1>7, <1>8, <1>10, StepSafe DEF c, w
<1>11. ASSUME Have \subseteq Have', w.at # "ok",
              NEW status \in {"failed", "pending", "in_progress"},
              SetChunk(i, w.got, status),
              NEW step \in {"error", "request"}, Goto(i, step)
       PROVE  ResumeInv'
  <2> DEFINE v == [w EXCEPT !.at = step]
  <2>1. worker' = [worker EXCEPT ![i] = v]
    BY <1>11 DEF Goto, w
  <2>2. SetChunk(i, c.downloaded, status) /\ status # "completed"
    BY <1>9, <1>11 DEF GoodAfter
  <2>3. v.at = step /\ v.got = c.downloaded
    BY <1>4, <1>9 DEF Worker, GoodAfter
  <2> HIDE DEF v
  <2>4. GoodAfter(v, c, c.downloaded, status, Have')
    BY <1>11, <2>3 DEF GoodAfter
  <2>5. QED
    BY <1>1, <1>2, <1>6, <1>7, <1>8, <1>11, <2>1, <2>2, <2>4, StepSafe DEF c, w
<1>12. ASSUME UNCHANGED data PROVE Have' = Have
  BY <1>2, <1>12, SameBytes DEF Frame
<1>13. CASE BeginChunk(i)
  BY <1>11, <1>12, <1>13 DEF BeginChunk, At, w
<1>14. CASE AlreadyComplete(i)
  <2> DEFINE v == [w EXCEPT !.at = "ok"]
  <2>1. /\ Have' = Have /\ w.at # "ok" /\ worker' = [worker EXCEPT ![i] = v]
        /\ CurrentPosition(c) > c.end /\ SetChunk(i, Size(c), "completed")
    BY <1>12, <1>14 DEF AlreadyComplete, At, Goto, c, w
  <2>2. c.start + c.downloaded = c.end + 1 /\ Size(c) = c.downloaded
    BY <1>6, <1>7, <2>1 DEF CurrentPosition, Size
  <2>3. v.at = "ok" /\ v.got = c.downloaded
    BY <1>4, <1>9 DEF Worker, GoodAfter
  <2> HIDE DEF v
  <2>4. GoodAfter(v, c, c.downloaded, "completed", Have')
    BY <2>3 DEF GoodAfter
  <2>5. SetChunk(i, c.downloaded, "completed")
    BY <2>1, <2>2
  <2>6. QED
    BY <1>1, <1>2, <1>6, <1>7, <1>8, <2>1, <2>2, <2>4, <2>5, StepSafe DEF c, w
<1>15. CASE Respond(i)
  <2> DEFINE v == [w EXCEPT !.at = "loop", !.content = remote[url],
                            !.src = CurrentPosition(c), !.last = c.end + 1]
  <2>1. /\ Have' = Have /\ state' = state /\ w.at = "request"
        /\ worker' = [worker EXCEPT ![i] = v]
    <3>1. ~(c.end < 0) /\ "short" \notin Faults
      BY <1>3, <1>6, <1>7
    <3>2. QED  BY <1>12, <1>15, <3>1 DEF Respond, At, c, w
  <2>2. /\ v.at = "loop" /\ v.got = c.downloaded /\ v.content = remote[TheUrl]
        /\ v.src = c.start + c.downloaded /\ v.last = c.end + 1
    BY <1>3, <1>4, <1>9 DEF Worker, GoodAfter, CurrentPosition
  <2> HIDE DEF v
  <2>3. GoodAfter(v, c, c.downloaded, c.status, Have')
    BY <2>2 DEF GoodAfter
  <2>4. QED  BY <1>10, <2>1, <2>3
<1>16. CASE RequestFails(i)
  BY <1>11, <1>12, <1>16 DEF RequestFails, Stop, At, w
<1>17. ASSUME NEW step \in {"read", "finish"}, Goto(i, step),
              w.at \in {"loop", "read"}, step = "finish" => w.src = w.last,
              state' = state, UNCHANGED data
       PROVE  ResumeInv'
  <2> DEFINE v == [w EXCEPT !.at = step]
  <2>1. worker' = [worker EXCEPT ![i] = v]
    BY <1>17 DEF Goto, w
  <2>2. /\ v.at = step /\ v.got = w.got /\ v.content = w.content
        /\ v.src = w.src /\ v.last = w.last
    BY <1>4 DEF Worker
  <2> HIDE DEF v
  <2>3. GoodAfter(v, c, c.downloaded, c.status, Have')
    BY <1>9, <1>17, <2>2 DEF GoodAfter
  <2>4. QED  BY <1>10, <1>12, <1>17, <2>1, <2>3
<1>18. CASE Continue(i)
  <2>1. CASE cancelled
    BY <1>11, <1>12, <1>18, <2>1 DEF Continue, Stop, At, w
  <2>2. CASE ~cancelled
    BY <1>17, <1>18, <2>2 DEF Continue, At, w
  <2>3. QED  BY <2>1, <2>2
<1>19. CASE ReadBytes(i)
  <2>1. PICK n \in 1 .. MaxRead :
          /\ w.src + n <= w.last
          /\ worker' = [worker EXCEPT ![i] = [w EXCEPT !.at = "write", !.n = n]]
    BY <1>19 DEF ReadBytes, w
  <2> DEFINE v == [w EXCEPT !.at = "write", !.n = n]
  <2>2. /\ Have' = Have /\ state' = state /\ w.at = "read" /\ 1 <= n
    BY <1>12, <1>19, BoundsAssumption DEF ReadBytes, At, w
  <2>3. /\ v.at = "write" /\ v.got = w.got /\ v.content = w.content
        /\ v.src = w.src /\ v.last = w.last /\ v.n = n
    BY <1>4 DEF Worker
  <2>4. worker' = [worker EXCEPT ![i] = v]
    BY <2>1
  <2> HIDE DEF v
  <2>5. GoodAfter(v, c, c.downloaded, c.status, Have')
    BY <1>9, <2>1, <2>2, <2>3 DEF GoodAfter
  <2>6. QED  BY <1>10, <2>2, <2>4, <2>5
<1>20. CASE ReadEOF(i)
  BY <1>17, <1>20 DEF ReadEOF, At, w
<1>21. CASE ReadFails(i)
  BY <1>11, <1>12, <1>21 DEF ReadFails, Stop, At, w
<1>22. CASE LimiterFails(i)
  BY <1>11, <1>12, <1>22 DEF LimiterFails, Stop, At, w
<1>23. ASSUME w.at = "write", NEW n \in Int,
              data' = WriteAt(w.content, w.src, n, Offset(i), data)
       PROVE  /\ Have \subseteq Have'
              /\ \A p \in Bytes : w.src <= p /\ p < w.src + n => p \in Have'
  <2>1. w.content = remote[TheUrl] /\ w.src = c.start + w.got
    BY <1>9, <1>23 DEF GoodAfter
  <2>2. Offset(i) = w.src
    BY <2>1 DEF Offset, c, w
  <2>3. TypeOK /\ UNCHANGED remote
    BY <1>2 DEF ResumeInv, TypeInv, Frame
  <2>4. QED  BY <1>3, <1>7, <1>23, <2>1, <2>2, <2>3, WriteKeeps
<1>24. CASE Write(i)
  <2> DEFINE v == [w EXCEPT !.at = "record"]
  <2>1. /\ state' = state /\ w.at = "write"
        /\ worker' = [worker EXCEPT ![i] = v]
        /\ data' = WriteAt(w.content, w.src, w.n, Offset(i), data)
    BY <1>24 DEF Write, At, Goto, w
  <2>2. /\ v.at = "record" /\ v.got = w.got /\ v.content = w.content
        /\ v.src = w.src /\ v.last = w.last /\ v.n = w.n
    BY <1>4 DEF Worker
  <2> HIDE DEF v
  <2>3. /\ Have \subseteq Have'
        /\ \A p \in Bytes : w.src <= p /\ p < w.src + w.n => p \in Have'
    BY <1>7, <1>23, <2>1
  <2>4. {p \in Offsets : w.src <= p /\ p < w.src + w.n} \subseteq Bytes
    <3>1. w.src + w.n <= w.last /\ w.last = c.end + 1
      BY <1>9, <2>1 DEF GoodAfter
    <3>2. c.end < Length /\ Length \in Int
      BY <1>3, <1>5, PlanFacts, HonestFacts DEF c, GoodState, ResumeInv
    <3>3. \A p \in Offsets : p \in Int
      BY BoundsAssumption
    <3>4. QED  BY <1>7, <3>1, <3>2, <3>3 DEF Bytes, Length
  <2>5. GoodAfter(v, c, c.downloaded, c.status, Have')
    BY <1>9, <2>1, <2>2, <2>3, <2>4 DEF GoodAfter
  <2>6. QED  BY <1>10, <2>1, <2>3, <2>5
<1>25. CASE WriteFails(i)
  <2>1. Have \subseteq Have'
    <3>1. PICK k \in 0 .. w.n - 1 :
            data' = IF k = 0 THEN data
                    ELSE WriteAt(w.content, w.src, k, Offset(i), data)
      BY <1>25 DEF WriteFails, w
    <3>2. w.at = "write" /\ k \in Int
      BY <1>7, <1>25 DEF WriteFails, At, w
    <3>3. QED  BY <1>12, <1>23, <3>1, <3>2
  <2>2. QED  BY <1>11, <1>25, <2>1 DEF WriteFails, Stop, At, w
<1>26. CASE Record(i)
  <2> DEFINE d == w.got + w.n
             from == w.src + w.n
  <2>1. PICK step \in {"finish", "loop"} :
          /\ step = "finish" => from = w.last
          /\ worker' = [worker EXCEPT ![i] =
                          [w EXCEPT !.at = step, !.got = d, !.src = from, !.n = 0]]
    BY <1>26 DEF Record, w
  <2> DEFINE v == [w EXCEPT !.at = step, !.got = d, !.src = from, !.n = 0]
  <2>2. /\ Have' = Have /\ w.at = "record" /\ SetChunk(i, d, "in_progress")
    BY <1>12, <1>26 DEF Record, At, w
  <2>3. /\ v.at = step /\ v.got = d /\ v.content = w.content
        /\ v.src = from /\ v.last = w.last
    BY <1>4 DEF Worker
  <2>4. worker' = [worker EXCEPT ![i] = v]
    BY <2>1
  <2> HIDE DEF v
  <2>5. /\ w.got = c.downloaded /\ w.content = remote[TheUrl]
        /\ w.src = c.start + w.got /\ w.last = c.end + 1
        /\ 1 <= w.n /\ w.src + w.n <= w.last
        /\ {p \in Offsets : w.src <= p /\ p < w.src + w.n} \subseteq Have
    BY <1>9, <2>2 DEF GoodAfter
  <2>6. /\ d \in Int /\ 0 <= d /\ c.start + d <= c.end + 1
        /\ from = c.start + d
    BY <1>6, <1>7, <2>5
  <2>7. \A p \in Offsets : c.start <= p /\ p < c.start + d => p \in Have
    <3>1. \A p \in Offsets : p \in Int
      BY BoundsAssumption
    <3>2. \A p \in Offsets : p < c.start + c.downloaded \/ w.src <= p
      BY <1>7, <2>5, <3>1
    <3>3. QED  BY <1>8, <2>5, <2>6, <3>2
  <2> HIDE DEF d, from
  <2>8. GoodAfter(v, c, d, "in_progress", Have')
    BY <2>1, <2>3, <2>5, <2>6 DEF GoodAfter
  <2>9. QED
    BY <1>1, <1>2, <1>6, <1>7, <2>2, <2>4, <2>6, <2>7, <2>8, StepSafe DEF c, w
<1>27. CASE FinishChunk(i)
  <2> DEFINE v == [w EXCEPT !.at = "ok"]
  <2>1. /\ Have' = Have /\ w.at = "finish" /\ SetChunk(i, w.got, "completed")
        /\ worker' = [worker EXCEPT ![i] = v]
    BY <1>12, <1>27 DEF FinishChunk, At, Goto, w
  <2>2. w.got = c.downloaded /\ c.start + c.downloaded = c.end + 1
    BY <1>9, <2>1 DEF GoodAfter
  <2>3. v.at = "ok" /\ v.got = c.downloaded
    BY <1>4, <1>9 DEF Worker, GoodAfter
  <2> HIDE DEF v
  <2>4. GoodAfter(v, c, c.downloaded, "completed", Have')
    BY <2>3 DEF GoodAfter
  <2>5. QED
    BY <1>1, <1>2, <1>6, <1>7, <1>8, <2>1, <2>2, <2>4, StepSafe DEF c, w
<1>28. QED
  BY <1>13, <1>14, <1>15, <1>16, <1>18, <1>19, <1>20, <1>21, <1>22, <1>24,
     <1>25, <1>26, <1>27 DEF WorkerStep

-----------------------------------------------------------------------------
(* The calls of Save.                                                      *)

LEMMA MovedSnap ==
  ASSUME NEW calls, NEW from, NEW to, NEW t \in Savers,
         calls[t] = [at |-> calls[t].at, fd |-> calls[t].fd,
                     snap |-> calls[t].snap]
  PROVE  /\ Moved(calls, from, to)[t].at = calls[t].at
         /\ Moved(calls, from, to)[t].snap = calls[t].snap
BY DEF Moved

(* A step of Save moves states between the calls and the files.             *)
LEMMA SaveMoves ==
  ASSUME TypeInv, NEW s \in Savers, SaveStep(s)
  PROVE  /\ save[s].at # "idle"
         /\ stateFile' \in {stateFile, tmpFile, save[s].snap}
         /\ tmpFile' \in {tmpFile, NoFile, save[s].snap}
         /\ \A t \in Savers :
              /\ save'[t].snap \in {NoState, save[t].snap}
              /\ save'[t].at # "idle" =>
                   save[t].at # "idle" /\ save'[t].snap = save[t].snap
         /\ pc' \in {pc, "failed"}
         /\ pc' = pc \/ save'["main"].at = "idle"
         /\ ticker' \in {ticker, "off"}
<1>1. Calls(save)
  BY DEF TypeInv, TypeOK, Calls
<1>2. ASSUME NEW calls, SaveReturns(s, calls), Calls(calls),
             \A t \in Savers : /\ calls[t].at = save[t].at
                               /\ calls[t].snap = save[t].snap
      PROVE  /\ \A t \in Savers :
                  /\ save'[t].snap \in {NoState, save[t].snap}
                  /\ save'[t].at # "idle" =>
                       save[t].at # "idle" /\ save'[t].snap = save[t].snap
             /\ pc' \in {pc, "failed"}
             /\ pc' = pc \/ save'["main"].at = "idle"
             /\ ticker' \in {ticker, "off"}
  <2>1. \A t \in Savers : save'[t] = IF t = s THEN Idle ELSE calls[t]
    BY <1>2 DEF SaveReturns, Calls
  <2>2. Idle.at = "idle" /\ Idle.snap = NoState
    BY DEF Idle
  <2>3. pc' = pc \/ save'["main"].at = "idle"
    BY <1>2, <2>1, <2>2 DEF SaveReturns, Savers
  <2>4. QED  BY <1>2, <2>1, <2>2, <2>3 DEF SaveReturns
<1>3. ASSUME NEW call, save' = [save EXCEPT ![s] = call],
             call.snap = save[s].snap, save[s].at # "idle"
      PROVE  \A t \in Savers :
               /\ save'[t].snap \in {NoState, save[t].snap}
               /\ save'[t].at # "idle" =>
                    save[t].at # "idle" /\ save'[t].snap = save[t].snap
  <2>1. \A t \in Savers : save'[t] = IF t = s THEN call ELSE save[t]
    BY <1>1, <1>3 DEF Calls
  <2>2. QED  BY <1>3, <2>1
<1>4. CASE SaveWrite(s)
  <2> DEFINE call == [save[s] EXCEPT !.at = "rename", !.fd = "none"]
  <2>1. call.snap = save[s].snap
    BY <1>1, CallFields DEF Calls
  <2> HIDE DEF call
  <2>2. save' = [save EXCEPT ![s] = call] /\ save[s].at # "idle"
    BY <1>4 DEF SaveWrite, call
  <2>3. QED  BY <1>3, <1>4, <2>1, <2>2 DEF SaveWrite
<1>5. CASE SaveWriteFails(s)
  BY <1>1, <1>2, <1>5 DEF SaveWriteFails
<1>6. CASE SaveRename(s)
  <2> DEFINE m == Moved(save, "state", "gone")
             k == Moved(m, "tmp", "state")
  <2>1. Calls(k) /\ \A t \in Savers : /\ k[t].at = save[t].at
                                      /\ k[t].snap = save[t].snap
    BY <1>1, MovedType
  <2>2. SaveReturns(s, k)
    BY <1>6 DEF SaveRename
  <2> HIDE DEF k
  <2>3. QED  BY <1>2, <1>6, <2>1, <2>2 DEF SaveRename
<1>7. CASE SaveRenameFails(s)
  <2> DEFINE call == [save[s] EXCEPT !.at = "remove"]
  <2>1. call.snap = save[s].snap
    BY <1>1, CallFields DEF Calls
  <2> HIDE DEF call
  <2>2. save' = [save EXCEPT ![s] = call] /\ save[s].at # "idle"
    BY <1>7 DEF SaveRenameFails, call
  <2>3. QED  BY <1>3, <1>7, <2>1, <2>2 DEF SaveRenameFails
<1>8. CASE SaveRemove(s)
  <2> DEFINE k == Moved(save, "tmp", "gone")
  <2>1. Calls(k) /\ \A t \in Savers : /\ k[t].at = save[t].at
                                      /\ k[t].snap = save[t].snap
    BY <1>1, MovedType
  <2>2. SaveReturns(s, k)
    BY <1>8 DEF SaveRemove
  <2> HIDE DEF k
  <2>3. QED  BY <1>2, <1>8, <2>1, <2>2 DEF SaveRemove
<1>9. QED  BY <1>4, <1>5, <1>6, <1>7, <1>8 DEF SaveStep

LEMMA SaveSafe ==
  ASSUME ResumeInv, NEW s \in Savers, SaveStep(s)
  PROVE  ResumeInv'
<1>1. TypeInv'
  BY SaveType DEF ResumeInv
<1>2. /\ save[s].at # "idle"
      /\ stateFile' \in {stateFile, tmpFile, save[s].snap}
      /\ tmpFile' \in {tmpFile, NoFile, save[s].snap}
      /\ \A t \in Savers : /\ save'[t].snap \in {NoState, save[t].snap}
                           /\ save'[t].at # "idle" => save[t].at # "idle"
      /\ pc' \in {pc, "failed"}
      /\ ticker' \in {ticker, "off"}
  BY SaveMoves DEF ResumeInv
<1>3. UNCHANGED <<data, exists, remote, url, conns, state, worker, cancelled>>
  BY DEF SaveStep
<1>4. Have' = Have
  BY <1>3, SameBytes
<1>5. pc \notin {"off", "load", "open"}
  BY <1>2 DEF ResumeInv, TypeInv, Shape
<1>6. StatesGood'
  <2>1. ~IsState(NoFile) /\ ~IsState(NoState)
    BY DEF IsState
  <2>2. /\ GoodState(state)
        /\ IsState(stateFile) => GoodState(stateFile)
        /\ IsState(tmpFile) => GoodState(tmpFile)
        /\ \A t \in Savers : IsState(save[t].snap) => GoodState(save[t].snap)
    BY <1>5 DEF ResumeInv, StatesGood
  <2>3. \A x : GoodState(x) => GoodPlan(x) /\ Claimed(x) \subseteq Have'
    BY <1>4 DEF GoodState
  <2>4. ASSUME IsState(stateFile')
        PROVE  GoodPlan(stateFile') /\ Claimed(stateFile') \subseteq Have'
    BY <1>2, <2>2, <2>3, <2>4
  <2>5. ASSUME IsState(tmpFile')
        PROVE  GoodPlan(tmpFile') /\ Claimed(tmpFile') \subseteq Have'
    BY <1>2, <2>1, <2>2, <2>3, <2>5
  <2>6. ASSUME NEW t \in Savers, IsState(save'[t].snap)
        PROVE  /\ GoodPlan(save'[t].snap)
               /\ Claimed(save'[t].snap) \subseteq Have'
    <3>1. save'[t].snap \in {NoState, save[t].snap}
      BY <1>2, Zenon
    <3>2. save'[t].snap = save[t].snap
      BY <2>1, <2>6, <3>1
    <3>3. IsState(save[t].snap)
      BY <2>6, <3>2
    <3>4. GoodState(save[t].snap)
      BY <2>2, <3>3
    <3>5. GoodPlan(save[t].snap) /\ Claimed(save[t].snap) \subseteq Have'
      BY <2>3, <3>4
    <3>6. QED  BY <3>2, <3>5
  <2>7. GoodPlan(state') /\ Claimed(state') \subseteq Have'
    BY <1>3, <2>2, <2>3
  <2>8. pc' \notin {"off", "load"}
    BY <1>2, <1>5
  <2>9. QED
    BY <2>4, <2>5, <2>6, <2>7, <2>8 DEF StatesGood, GoodState
<1>7. WorkersGood'
  BY <1>3, <1>4 DEF ResumeInv, WorkersGood
<1>8. OpensSafely'
  BY <1>2, <1>3, <1>5 DEF ResumeInv, OpensSafely
<1>9. EndsComplete'
  BY <1>2, <1>3 DEF ResumeInv, EndsComplete
<1>10. QED
  BY <1>1, <1>6, <1>7, <1>8, <1>9 DEF ResumeInv, Honest, Length

(* Save begins with the state in memory.                                   *)
LEMMA SaveOpens ==
  ASSUME TypeInv, NEW s \in Savers, SaveOpen(s)
  PROVE  /\ tmpFile' = Torn /\ UNCHANGED stateFile
         /\ \A t \in Savers : save'[t].snap \in {save[t].snap, state}
<1>1. \A t \in Savers :
        save'[t] = IF t = s THEN [at |-> "write", fd |-> "tmp", snap |-> state]
                            ELSE save[t]
  BY DEF SaveOpen, TypeInv, TypeOK
<1>2. QED  BY <1>1 DEF SaveOpen

LEMMA TickerSafe ==
  ASSUME ResumeInv, Park \/ Tick \/ StopTicker
  PROVE  ResumeInv'
<1>1. TypeInv'
  BY TickerType DEF ResumeInv
<1>2. /\ UNCHANGED <<data, exists, stateFile, remote, pc, url, conns, state,
                     worker, cancelled>>
      /\ tmpFile' \in {tmpFile, Torn}
      /\ \A t \in Savers : save'[t].snap \in {save[t].snap, state}
      /\ ticker # "off"
  <2>1. CASE Park
    BY <2>1 DEF Park, disk, main
  <2>2. CASE Tick
    <3>1. SaveOpen("saver") /\ "saver" \in Savers
      BY <2>2 DEF Tick, Savers
    <3>2. /\ tmpFile' = Torn /\ UNCHANGED stateFile
          /\ \A t \in Savers : save'[t].snap \in {save[t].snap, state}
      BY <3>1, SaveOpens DEF ResumeInv
    <3>3. QED  BY <2>2, <3>2 DEF Tick, main
  <2>3. CASE StopTicker
    BY <2>3 DEF StopTicker, disk, main
  <2>4. QED  BY <2>1, <2>2, <2>3
<1>3. Have' = Have
  BY <1>2, SameBytes
<1>4. exists /\ pc \notin {"off", "load", "open"}
  BY <1>2 DEF ResumeInv, TypeInv, Shape, OpensSafely
<1>5. StatesGood'
  <2>1. ~IsState(Torn)
    BY DEF IsState
  <2>2. QED
    BY <1>2, <1>3, <1>4, <2>1 DEF ResumeInv, StatesGood, GoodState
<1>6. WorkersGood'
  BY <1>2, <1>3 DEF ResumeInv, WorkersGood
<1>7. OpensSafely'
  BY <1>2, <1>4 DEF ResumeInv, OpensSafely
<1>8. EndsComplete'
  BY <1>2 DEF ResumeInv, EndsComplete
<1>9. QED
  BY <1>1, <1>5, <1>6, <1>7, <1>8 DEF ResumeInv, Honest, Length

-----------------------------------------------------------------------------
(* The main goroutine.                                                     *)

LEMMA TruncateKeeps ==
  ASSUME TypeOK, TheUrl \in Urls, UNCHANGED remote, Length \in Nat,
         data' = Truncate(Length, data)
  PROVE  /\ Have \subseteq Have'
         /\ \A p \in Offsets : p >= Length => data'[p] = EOF
<1>1. ASSUME NEW p \in Have
      PROVE  p \in Bytes /\ data'[p] = data[p] /\ data[p] = <<remote[TheUrl], p>>
  <2>1. /\ p \in Offsets /\ p \in Nat /\ data[p] # EOF
        /\ data[p] = <<remote[TheUrl], p>>
    BY BytesAreNotEOF
  <2>2. p \in Bytes /\ p < Length
    BY DEF Have, Bytes, Length
  <2>3. data'[p] = ExtendTo(Length, data)[p]
    BY <2>1, <2>2 DEF Truncate
  <2>4. QED  BY <2>1, <2>2, <2>3 DEF ExtendTo
<1>2. Have \subseteq Have'
  BY <1>1 DEF Have, HasRemoteByte, Bytes
<1>3. \A p \in Offsets : p >= Length => ~(p < Length)
  BY BoundsAssumption
<1>4. QED  BY <1>2, <1>3 DEF Truncate

(* A state without counted bytes claims nothing.                           *)
LEMMA NothingClaimed ==
  ASSUME NEW s, GoodPlan(s), ~SomeDownloaded(s)
  PROVE  Claimed(s) = {}
<1> SUFFICES ASSUME NEW p \in Claimed(s) PROVE FALSE
  OBVIOUS
<1>1. PICK i \in DOMAIN s.chunks : /\ s.chunks[i].start <= p
                                   /\ p < CurrentPosition(s.chunks[i])
  BY DEF Claimed
<1>2. /\ s.chunks[i] \in Chunk /\ 0 <= s.chunks[i].downloaded
      /\ ~(s.chunks[i].downloaded > 0)
  BY PlanFacts DEF SomeDownloaded
<1>3. p \in Int
  BY BoundsAssumption DEF Claimed
<1>4. QED  BY <1>1, <1>2, <1>3 DEF CurrentPosition, Chunk

LEMMA LoadSafe ==
  ASSUME ResumeInv, Load
  PROVE  ResumeInv'
<1>1. TypeInv'
  BY MainType DEF ResumeInv, MainStep
<1>2. /\ url = TheUrl /\ TheUrl \in Urls /\ conns \in Connections
      /\ ContentLength(TheUrl) = Length
  BY HonestFacts DEF ResumeInv, TypeInv, TypeOK
<1>3. /\ UNCHANGED <<data, exists, stateFile, tmpFile, remote, worker, save, ticker>>
      /\ pc = "load" /\ pc' = "open"
      /\ state' = IF /\ IsState(stateFile)
                     /\ stateFile.url = url
                     /\ stateFile.total = ContentLength(url)
                  THEN stateFile ELSE NewState(url, conns)
  BY DEF Load, disk
<1>4. Have' = Have
  BY <1>3, SameBytes
<1>5. DOMAIN worker = {}
  BY <1>3 DEF ResumeInv, TypeInv, Shape
<1>6. /\ GoodPlan(state') /\ Claimed(state') \subseteq Have'
      /\ IF IsState(stateFile) THEN state' = stateFile
                               ELSE ~SomeDownloaded(state')
  <2>1. CASE IsState(stateFile)
    <3>1. GoodState(stateFile)
      BY <2>1 DEF ResumeInv, StatesGood
    <3>2. state' = stateFile
      BY <1>2, <1>3, <2>1, <3>1 DEF GoodState, GoodPlan
    <3>3. QED  BY <1>4, <2>1, <3>1, <3>2 DEF GoodState
  <2>2. CASE ~IsState(stateFile)
    <3>1. state' = NewState(TheUrl, conns)
      BY <1>2, <1>3, <2>2
    <3>2. QED  BY <1>2, <2>2, <3>1, NewStateGood DEF ResumeInv
  <2>3. QED  BY <2>1, <2>2
<1>7. StatesGood'
  BY <1>3, <1>4, <1>6 DEF ResumeInv, StatesGood, GoodState
<1>8. WorkersGood'
  BY <1>3, <1>5 DEF WorkersGood
<1>9. OpensSafely'
  BY <1>3, <1>6 DEF ResumeInv, OpensSafely
<1>10. EndsComplete'
  BY <1>3 DEF EndsComplete
<1>11. QED
  BY <1>1, <1>7, <1>8, <1>9, <1>10 DEF ResumeInv, Honest, Length

(* Opening the file spoils it only when no state claims a byte of it.       *)
LEMMA OpenWriterSafe ==
  ASSUME ResumeInv, OpenWriter
  PROVE  ResumeInv'
<1>1. TypeInv'
  BY MainType DEF ResumeInv, MainStep
<1>2. /\ UNCHANGED <<stateFile, tmpFile, remote, state, worker, save>>
      /\ pc = "open" /\ pc' = "spawn" /\ exists' = TRUE
      /\ \/ data' = data
         \/ ~(exists /\ SomeDownloaded(state))
  BY DEF OpenWriter
<1>3. /\ GoodState(state) /\ DOMAIN worker = {}
      /\ ~IsState(tmpFile) /\ \A s \in Savers : ~IsState(save[s].snap)
      /\ IF IsState(stateFile) THEN state = stateFile ELSE ~SomeDownloaded(state)
      /\ IsState(stateFile) => exists
  BY <1>2 DEF ResumeInv, TypeInv, Shape, StatesGood, OpensSafely
<1>4. Claimed(state) \subseteq Have'
  <2>1. CASE data' = data
    <3>1. Have' = Have
      BY <1>2, <2>1, SameBytes
    <3>2. QED  BY <1>3, <3>1 DEF GoodState
  <2>2. CASE ~(exists /\ SomeDownloaded(state))
    <3>1. ~SomeDownloaded(state)
      BY <1>3, <2>2
    <3>2. QED  BY <1>3, <3>1, NothingClaimed DEF GoodState
  <2>3. QED  BY <1>2, <2>1, <2>2
<1>5. StatesGood'
  BY <1>2, <1>3, <1>4 DEF StatesGood, GoodState
<1>6. WorkersGood'
  BY <1>2, <1>3 DEF WorkersGood
<1>7. OpensSafely'
  BY <1>2 DEF OpensSafely
<1>8. EndsComplete'
  BY <1>2 DEF EndsComplete
<1>9. QED
  BY <1>1, <1>5, <1>6, <1>7, <1>8 DEF ResumeInv, Honest, Length

LEMMA SpawnSafe ==
  ASSUME ResumeInv, Spawn
  PROVE  ResumeInv'
<1>1. TypeInv'
  BY MainType DEF ResumeInv, MainStep
<1>2. /\ UNCHANGED <<data, exists, stateFile, tmpFile, remote, state, ticker,
                     save, url>>
      /\ pc = "spawn"
      /\ worker' = [i \in PendingChunks(state.chunks) |-> NewWorker(i)]
      /\ pc' = IF IsComplete(state.chunks) THEN "delete" ELSE "wait"
  BY DEF Spawn, disk
<1>3. Have' = Have
  BY <1>2, SameBytes
<1>4. GoodState(state)
  BY <1>2 DEF ResumeInv, StatesGood
<1>5. StatesGood'
  BY <1>2, <1>3 DEF ResumeInv, StatesGood, GoodState
<1>6. WorkersGood'
  <2>1. \A i \in DOMAIN worker' :
          worker'[i].got = state.chunks[i].downloaded /\ worker'[i].at = "queued"
    BY <1>2 DEF NewWorker
  <2>2. QED  BY <1>2, <2>1 DEF WorkersGood, GoodWorker
<1>7. OpensSafely'
  BY <1>2 DEF ResumeInv, OpensSafely
<1>8. EndsComplete'
  <2>1. CASE IsComplete(state.chunks)
    <3>1. DOMAIN worker' = {}
      BY <1>2, <2>1 DEF IsComplete
    <3>2. QED  BY <1>2, <2>1, <3>1 DEF EndsComplete
  <2>2. CASE ~IsComplete(state.chunks)
    <3>1. \A i \in DOMAIN state.chunks \ DOMAIN worker' :
            state.chunks[i].status = "completed"
      BY <1>2 DEF PendingChunks
    <3>2. QED  BY <1>2, <2>2, <3>1 DEF EndsComplete
  <2>3. QED  BY <2>1, <2>2
<1>9. QED
  BY <1>1, <1>5, <1>6, <1>7, <1>8 DEF ResumeInv, Honest, Length

(* A chunk without a goroutine was completed before, one whose goroutine    *)
(* returned no error is completed now.                                     *)
LEMMA AwaitSafe ==
  ASSUME ResumeInv, Await
  PROVE  ResumeInv'
<1>1. TypeInv'
  BY MainType DEF ResumeInv, MainStep
<1>2. /\ UNCHANGED <<data, exists, stateFile, tmpFile, remote, state, worker,
                     ticker, save>>
      /\ pc = "wait"
      /\ \A i \in DOMAIN worker : worker[i].at \in {"ok", "error"}
      /\ pc' = IF \E i \in DOMAIN worker : worker[i].at = "error"
               THEN "save" ELSE "delete"
  BY DEF Await, disk
<1>3. Have' = Have
  BY <1>2, SameBytes
<1>4. StatesGood'
  BY <1>2, <1>3 DEF ResumeInv, StatesGood, GoodState
<1>5. WorkersGood'
  BY <1>2, <1>3 DEF ResumeInv, WorkersGood
<1>6. OpensSafely'
  BY <1>2 DEF ResumeInv, OpensSafely
<1>7. EndsComplete'
  <2>1. ASSUME pc' = "delete"
        PROVE  /\ IsComplete(state.chunks)
               /\ \A i \in DOMAIN worker : worker[i].at = "ok"
    <3>1. \A i \in DOMAIN worker : worker[i].at = "ok"
      BY <1>2, <2>1
    <3>2. \A i \in DOMAIN worker : state.chunks[i].status = "completed"
      BY <3>1 DEF ResumeInv, WorkersGood, GoodWorker
    <3>3. \A i \in DOMAIN state.chunks \ DOMAIN worker :
            state.chunks[i].status = "completed"
      BY <1>2 DEF ResumeInv, EndsComplete
    <3>4. QED  BY <3>1, <3>2, <3>3 DEF IsComplete, PendingChunks
  <2>2. pc' \in {"save", "delete"}
    BY <1>2
  <2>3. QED  BY <1>2, <2>1, <2>2 DEF EndsComplete
<1>8. QED
  BY <1>1, <1>4, <1>5, <1>6, <1>7 DEF ResumeInv, Honest, Length

(* A step of the main goroutine that leaves the file's bytes and the        *)
(* goroutines alone, and of the states in use drops some.                  *)
LEMMA MainStaySafe ==
  ASSUME ResumeInv, TypeInv', Have \subseteq Have', UNCHANGED <<remote, state, worker>>,
         pc \notin {"off", "load"}, pc' \notin {"off", "load", "open"},
         stateFile' \in {stateFile, NoFile}, tmpFile' \in {tmpFile, Torn},
         \A s \in Savers : save'[s].snap \in {save[s].snap, state},
         exists' \/ OpensSafely', EndsComplete'
  PROVE  ResumeInv'
<1>1. \A x : GoodState(x) => GoodPlan(x) /\ Claimed(x) \subseteq Have'
  BY DEF GoodState
<1>2. /\ GoodState(state)
      /\ IsState(stateFile) => GoodState(stateFile)
      /\ IsState(tmpFile) => GoodState(tmpFile)
      /\ \A s \in Savers : IsState(save[s].snap) => GoodState(save[s].snap)
  BY DEF ResumeInv, StatesGood
<1>3. ~IsState(NoFile) /\ ~IsState(Torn)
  BY DEF IsState
<1>4. StatesGood'
  <2>1. ASSUME IsState(stateFile')
        PROVE  GoodPlan(stateFile') /\ Claimed(stateFile') \subseteq Have'
    BY <1>1, <1>2, <1>3, <2>1
  <2>2. ASSUME IsState(tmpFile')
        PROVE  GoodPlan(tmpFile') /\ Claimed(tmpFile') \subseteq Have'
    BY <1>1, <1>2, <1>3, <2>2
  <2>3. ASSUME NEW s \in Savers, IsState(save'[s].snap)
        PROVE  /\ GoodPlan(save'[s].snap)
               /\ Claimed(save'[s].snap) \subseteq Have'
    BY <1>1, <1>2, <2>3
  <2>4. QED  BY <1>1, <1>2, <2>1, <2>2, <2>3 DEF StatesGood, GoodState
<1>5. WorkersGood'
  BY GoodWorkerStays DEF ResumeInv, WorkersGood
<1>6. OpensSafely'
  BY DEF OpensSafely
<1>7. QED
  BY <1>4, <1>5, <1>6 DEF ResumeInv, Honest, Length

LEMMA MainSafe ==
  ASSUME ResumeInv, MainStep
  PROVE  ResumeInv' \/ Exit
<1>1. TypeInv' /\ TypeOK
  BY MainType DEF ResumeInv, TypeInv
<1>2. /\ url = TheUrl /\ TheUrl \in Urls /\ Length \in Nat
      /\ ContentLength(TheUrl) = Length /\ 1 <= Length
  BY <1>1, HonestFacts DEF ResumeInv, TypeOK
<1>3. CASE OpenFails
  <2>1. /\ UNCHANGED <<data, stateFile, tmpFile, remote, state, worker, save, ticker>>
        /\ exists' \in {exists, TRUE} /\ pc = "open" /\ pc' = "failed"
    BY <1>3 DEF OpenFails
  <2>2. Have' = Have
    BY <2>1, SameBytes
  <2>3. OpensSafely' /\ EndsComplete'
    BY <2>1 DEF ResumeInv, TypeInv, Shape, OpensSafely, EndsComplete
  <2>4. \A s \in Savers : save'[s].snap \in {save[s].snap, state}
    BY <2>1
  <2>5. QED  BY <1>1, <2>1, <2>2, <2>3, <2>4, MainStaySafe
<1>4. CASE SaveOnError
  <2>1. /\ UNCHANGED <<data, exists, remote, state, worker>>
        /\ pc = "save" /\ pc' = "saving"
    BY <1>4 DEF SaveOnError
  <2>2. /\ tmpFile' = Torn /\ UNCHANGED stateFile
        /\ \A s \in Savers : save'[s].snap \in {save[s].snap, state}
    <3>1. SaveOpen("main") /\ "main" \in Savers
      BY <1>4 DEF SaveOnError, Savers
    <3>2. QED  BY <3>1, SaveOpens DEF ResumeInv
  <2>3. Have' = Have
    BY <2>1, SameBytes
  <2>4. exists /\ EndsComplete'
    BY <2>1 DEF ResumeInv, OpensSafely, EndsComplete
  <2>5. QED  BY <1>1, <2>1, <2>2, <2>3, <2>4, MainStaySafe
<1>5. CASE DeleteState
  <2>1. /\ UNCHANGED <<data, exists, tmpFile, remote, state, worker, ticker>>
        /\ stateFile' = NoFile /\ save' = Moved(save, "state", "gone")
        /\ pc = "delete" /\ pc' = "truncate"
    BY <1>5 DEF DeleteState
  <2>2. \A s \in Savers : /\ save'[s].snap = save[s].snap
                          /\ save'[s].at = save[s].at
    <3>1. Calls(save)
      BY <1>1 DEF TypeOK, Calls
    <3>2. QED  BY <2>1, <3>1, MovedType
  <2>3. Have' = Have
    BY <2>1, SameBytes
  <2>4. EndsComplete'
    BY <2>1 DEF ResumeInv, EndsComplete
  <2>5. OpensSafely'
    <3>1. ~IsState(NoFile)
      BY DEF IsState
    <3>2. QED  BY <2>1, <2>2, <3>1 DEF ResumeInv, OpensSafely
  <2>6. QED  BY <1>1, <2>1, <2>2, <2>3, <2>4, <2>5, MainStaySafe
<1>6. CASE TruncateFile
  <2>1. /\ UNCHANGED <<exists, stateFile, tmpFile, remote, state, worker, save, ticker>>
        /\ data' = Truncate(Length, data)
        /\ pc = "truncate" /\ pc' = "close"
    BY <1>2, <1>6 DEF TruncateFile
  <2>2. /\ Have \subseteq Have'
        /\ \A p \in Offsets : p >= Length => data'[p] = EOF
    BY <1>1, <1>2, <2>1, TruncateKeeps
  <2>3. EndsComplete'
    BY <2>1, <2>2 DEF ResumeInv, EndsComplete, Length
  <2>4. OpensSafely'
    BY <2>1 DEF ResumeInv, OpensSafely
  <2>5. QED  BY <1>1, <2>1, <2>2, <2>3, <2>4, MainStaySafe
<1>7. CASE CloseDone
  <2>1. /\ UNCHANGED <<data, exists, stateFile, tmpFile, remote, state, worker, save>>
        /\ ticker' \in {ticker, "off"}
        /\ pc = "close" /\ pc' = "succeeded"
    BY <1>7 DEF CloseDone, disk
  <2>2. Have' = Have
    BY <2>1, SameBytes
  <2>3. EndsComplete'
    BY <2>1 DEF ResumeInv, EndsComplete, Length
  <2>4. OpensSafely'
    BY <2>1 DEF ResumeInv, OpensSafely
  <2>5. QED  BY <1>1, <2>1, <2>2, <2>3, <2>4, MainStaySafe
<1>8. QED
  BY <1>3, <1>4, <1>5, <1>6, <1>7, LoadSafe, OpenWriterSafe, SpawnSafe, AwaitSafe
  DEF MainStep

-----------------------------------------------------------------------------
(* The environment.                                                        *)

LEMMA ProcessEndsSafe ==
  ASSUME ResumeInv, ProcessEnds
  PROVE  ResumeInv'
<1>1. TypeInv'
  BY ProcessEndsType DEF ResumeInv
<1>2. /\ UNCHANGED <<data, exists, stateFile, remote>>
      /\ pc' = "off" /\ state' = NoState /\ DOMAIN worker' = {}
      /\ ticker' = "off" /\ tmpFile' \in {NoFile, Torn}
      /\ \A s \in Savers : save'[s] = Idle
  BY DEF ProcessEnds, NoWorkers
<1>3. Have' = Have
  BY <1>2, SameBytes
<1>4. /\ ~IsState(NoState) /\ ~IsState(NoFile) /\ ~IsState(Torn)
      /\ Idle.snap = NoState /\ Idle.at = "idle"
  BY DEF IsState, Idle
<1>5. StatesGood'
  BY <1>2, <1>3, <1>4 DEF ResumeInv, StatesGood, GoodState
<1>6. WorkersGood'
  BY <1>2 DEF WorkersGood
<1>7. OpensSafely'
  BY <1>2, <1>4 DEF ResumeInv, OpensSafely
<1>8. EndsComplete'
  BY <1>2 DEF EndsComplete
<1>9. QED
  BY <1>1, <1>5, <1>6, <1>7, <1>8 DEF ResumeInv, Honest, Length

LEMMA StartSafe ==
  ASSUME ResumeInv, NEW u \in Urls, NEW n \in Connections, Start(u, n)
  PROVE  ResumeInv'
<1>1. TypeInv'
  BY StartType DEF ResumeInv
<1>2. /\ UNCHANGED <<data, exists, stateFile, tmpFile, remote, state, worker,
                     ticker, save>>
      /\ pc = "off" /\ pc' = "load"
  BY DEF Start, disk
<1>3. Have' = Have
  BY <1>2, SameBytes
<1>4. StatesGood' /\ WorkersGood' /\ OpensSafely' /\ EndsComplete'
  BY <1>2, <1>3 DEF ResumeInv, StatesGood, GoodState, WorkersGood, OpensSafely,
                    EndsComplete
<1>5. QED  BY <1>1, <1>4 DEF ResumeInv, Honest, Length

LEMMA CancelSafe ==
  ASSUME ResumeInv, Cancel
  PROVE  ResumeInv'
<1>1. TypeInv'
  BY EnvironmentType DEF ResumeInv
<1>2. /\ UNCHANGED <<data, exists, stateFile, tmpFile, remote, pc, state, worker,
                     save>>
      /\ ticker' \in {ticker, "off"}
  BY DEF Cancel, disk, main
<1>3. Have' = Have
  BY <1>2, SameBytes
<1>4. StatesGood' /\ WorkersGood' /\ OpensSafely' /\ EndsComplete'
  BY <1>2, <1>3 DEF ResumeInv, StatesGood, GoodState, WorkersGood, OpensSafely,
                    EndsComplete
<1>5. QED  BY <1>1, <1>4 DEF ResumeInv, Honest, Length

-----------------------------------------------------------------------------
LEMMA ResumeInit == Honest /\ Init => ResumeInv
<1> SUFFICES ASSUME Honest, Init PROVE ResumeInv
  OBVIOUS
<1>1. TypeInv
  BY TypeInit
<1>2. /\ pc = "off" /\ stateFile = NoFile /\ tmpFile = NoFile /\ state = NoState
      /\ DOMAIN worker = {} /\ ticker = "off"
      /\ \A s \in Savers : save[s] = Idle
  BY DEF Init, NoWorkers
<1>3. /\ ~IsState(NoState) /\ ~IsState(NoFile)
      /\ Idle.snap = NoState /\ Idle.at = "idle"
  BY DEF IsState, Idle
<1>4. StatesGood /\ WorkersGood /\ OpensSafely /\ EndsComplete
  BY <1>2, <1>3 DEF StatesGood, WorkersGood, OpensSafely, EndsComplete
<1>5. QED  BY <1>1, <1>4 DEF ResumeInv

LEMMA ResumeNext ==
  ASSUME ResumeInv, [Next]_vars
  PROVE  ResumeInv'
<1>1. CASE UNCHANGED vars
  <2>1. TypeInv'
    BY <1>1, TypeNext DEF ResumeInv
  <2>2. /\ UNCHANGED <<data, exists, stateFile, tmpFile, remote, pc, state, worker,
                       ticker, save>>
    BY <1>1 DEF vars, disk, main
  <2>3. Have' = Have
    BY <2>2, SameBytes
  <2>4. StatesGood' /\ WorkersGood' /\ OpensSafely' /\ EndsComplete'
    BY <2>2, <2>3 DEF ResumeInv, StatesGood, GoodState, WorkersGood,
                      OpensSafely, EndsComplete
  <2>5. QED  BY <2>1, <2>4 DEF ResumeInv, Honest, Length
<1>2. CASE Next
  <2>1. ~DeleteOutput /\ \A u \in Urls, c \in Contents : ~Replace(u, c)
    BY DEF ResumeInv, Honest, DeleteOutput, Replace
  <2>2. Exit => ResumeInv'
    BY ProcessEndsSafe DEF Exit
  <2>3. Crash => ResumeInv'
    BY ProcessEndsSafe DEF Crash
  <2>4. QED
    BY <1>2, <2>1, <2>2, <2>3, StartSafe, MainSafe, WorkerSafe, SaveSafe,
       TickerSafe, CancelSafe DEF Next
<1>3. QED  BY <1>1, <1>2

(* The invariant of resuming holds for every file, every number of          *)
(* connections and any number of processes killed or cancelled anywhere.    *)
THEOREM InvariantHolds == Honest /\ Spec => []ResumeInv
BY ResumeInit, ResumeNext, PTL DEF Spec

-----------------------------------------------------------------------------
(* A byte that any state in use counts as downloaded is in the file, after  *)
(* every interleaving of the goroutines, the two Saves and the deaths of    *)
(* processes (downloadChunk writes before it updates the chunk).            *)
THEOREM ClaimsCorrect == Honest /\ Spec => []ClaimsAreWritten
<1>1. ASSUME ResumeInv PROVE ClaimsAreWritten
  <2> SUFFICES ASSUME NEW s \in States, IsState(s)
               PROVE  \A p \in Claimed(s) : HasRemoteByte(s.url, p)
    BY DEF ClaimsAreWritten
  <2>1. GoodState(s)
    <3>1. CASE s = state
      BY <1>1, <3>1 DEF ResumeInv, StatesGood, IsState
    <3>2. CASE s \in {stateFile, tmpFile}
      BY <1>1, <3>2 DEF ResumeInv, StatesGood
    <3>3. CASE s \in {save[t].snap : t \in Savers}
      BY <1>1, <3>3 DEF ResumeInv, StatesGood
    <3>4. QED  BY <3>1, <3>2, <3>3 DEF States
  <2>2. QED  BY <2>1 DEF GoodState, GoodPlan, Have
<1>2. QED  BY InvariantHolds, <1>1, PTL

(* A completed chunk is full, in memory and in every saved state.           *)
THEOREM CompletedChunksCorrect == Honest /\ Spec => []CompletedChunksAreFull
<1>1. ASSUME ResumeInv PROVE CompletedChunksAreFull
  <2> SUFFICES ASSUME NEW s \in States, IsState(s), NEW i \in DOMAIN s.chunks
               PROVE  s.chunks[i].status = "completed"
                        => s.chunks[i].downloaded = Size(s.chunks[i])
    BY DEF CompletedChunksAreFull
  <2>1. GoodPlan(s)
    <3>1. CASE s = state
      BY <1>1, <3>1 DEF ResumeInv, StatesGood, IsState, GoodState
    <3>2. CASE s \in {stateFile, tmpFile}
      BY <1>1, <3>2 DEF ResumeInv, StatesGood, GoodState
    <3>3. CASE s \in {save[t].snap : t \in Savers}
      BY <1>1, <3>3 DEF ResumeInv, StatesGood, GoodState
    <3>4. QED  BY <3>1, <3>2, <3>3 DEF States
  <2>2. QED  BY <2>1 DEF GoodPlan, GoodChunk
<1>2. QED  BY InvariantHolds, <1>1, PTL

(* When Download returns nil the output file is the remote file, whatever   *)
(* number of processes it took and wherever they were killed.              *)
THEOREM CompletionCorrect == Honest /\ Spec => []CompletedFileIsRemote
<1>1. ASSUME ResumeInv PROVE CompletedFileIsRemote
  <2> SUFFICES ASSUME pc = "succeeded", NEW p \in Offsets
               PROVE  IF p < Server[url].length
                      THEN HasRemoteByte(url, p) ELSE data[p] = EOF
    BY DEF CompletedFileIsRemote
  <2>1. /\ url = TheUrl /\ Server[url].length = Length /\ Length \in Nat
        /\ p \in Nat
    BY <1>1, HonestFacts, BoundsAssumption
    DEF ResumeInv, TypeInv, TypeOK, Length
  <2>2. CASE p < Length
    <3>1. GoodState(state) /\ IsComplete(state.chunks)
      BY <1>1 DEF ResumeInv, StatesGood, EndsComplete
    <3>2. PICK i \in DOMAIN state.chunks :
            state.chunks[i].start <= p /\ p <= state.chunks[i].end
      <4>1. p \in 0 .. Length - 1
        BY <2>1, <2>2
      <4>2. QED  BY <3>1, <4>1 DEF GoodState, GoodPlan, IsPartition
    <3>3. state.chunks[i].status = "completed"
      BY <3>1, <3>2 DEF IsComplete, PendingChunks
    <3>4. p < CurrentPosition(state.chunks[i])
      BY <2>1, <3>1, <3>2, <3>3, PlanFacts DEF GoodState, CurrentPosition, Chunk
    <3>5. p \in Have
      BY <3>1, <3>2, <3>4 DEF GoodState, Claimed
    <3>6. QED  BY <2>1, <2>2, <3>5 DEF Have
  <2>3. CASE ~(p < Length)
    BY <1>1, <2>1, <2>3 DEF ResumeInv, EndsComplete
  <2>4. QED  BY <2>1, <2>2, <2>3
<1>2. QED  BY InvariantHolds, <1>1, PTL

(* Two goroutines never hold bytes for the same position of the file, which *)
(* WriteAt does not protect.                                               *)
THEOREM WritesCorrect == Honest /\ Spec => []ChunksWriteApart
<1>1. ASSUME ResumeInv PROVE ChunksWriteApart
  <2> SUFFICES ASSUME NEW i \in DOMAIN worker, NEW j \in DOMAIN worker,
                      i # j, At(i, "write"), At(j, "write")
               PROVE  \/ Offset(i) + worker[i].n <= Offset(j)
                      \/ Offset(j) + worker[j].n <= Offset(i)
    BY DEF ChunksWriteApart
  <2>1. /\ GoodPlan(state) /\ i \in DOMAIN state.chunks
        /\ j \in DOMAIN state.chunks
    BY <1>1 DEF ResumeInv, TypeInv, Shape, StatesGood, GoodState
  <2>2. ASSUME NEW k \in {i, j}
        PROVE  /\ state.chunks[k].start \in Int /\ state.chunks[k].end \in Int
               /\ Offset(k) \in Int /\ worker[k].n \in Int
               /\ state.chunks[k].start <= Offset(k)
               /\ Offset(k) + worker[k].n <= state.chunks[k].end + 1
    <3>1. worker[k] \in Worker
      BY <1>1 DEF ResumeInv, TypeInv, TypeOK
    <3>2. /\ worker[k].got = state.chunks[k].downloaded
          /\ worker[k].src = CurrentPosition(state.chunks[k])
          /\ worker[k].last = state.chunks[k].end + 1
          /\ worker[k].src + worker[k].n <= worker[k].last
      BY <1>1 DEF ResumeInv, WorkersGood, GoodWorker, At
    <3>3. state.chunks[k] \in Chunk /\ 0 <= state.chunks[k].downloaded
      BY <2>1, PlanFacts
    <3>4. QED
      BY <3>1, <3>2, <3>3 DEF Offset, CurrentPosition, Chunk, Worker
  <2>3. \/ state.chunks[i].end < state.chunks[j].start
        \/ state.chunks[j].end < state.chunks[i].start
    BY <2>1 DEF GoodPlan, IsPartition
  <2>4. QED  BY <2>2, <2>3
<1>2. QED  BY InvariantHolds, <1>1, PTL
=============================================================================
