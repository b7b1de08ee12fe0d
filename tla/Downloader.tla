----------------------------- MODULE Downloader ------------------------------
(***************************************************************************)
(* One `burkut URL -o FILE' process after another, over one output file    *)
(* (internal/engine/downloader.go with internal/download/state.go and      *)
(* internal/storage/writer.go).                                            *)
(*                                                                         *)
(* A process runs Download in the main goroutine: it loads or creates the  *)
(* state, opens the output file, starts the state saver and one goroutine  *)
(* per pending chunk, waits for them and then either saves the state (on   *)
(* failure) or deletes it.  What survives a process is on disk: the output *)
(* file, the state file and the state's temporary file.                    *)
(*                                                                         *)
(* The data are abstract.  A byte of a remote file is the pair of the      *)
(* content it belongs to and its position there; the output file is        *)
(* observed at the positions in Offsets.                                   *)
(***************************************************************************)
EXTENDS ChunkPlan, FiniteSets

CONSTANTS
  Urls,          \* the URLs the user may ask for with this output path
  Server,        \* what the server says and serves for each URL
  Contents,      \* the contents a remote file may have
  Connections,   \* the values of -n the user may pass
  MaxRead,       \* the most bytes one Read returns (config.BufferSize)
  Offsets,       \* the positions of the output file that are observed
  OldLength,     \* length of the file found at the output path, if > 0
  Faults,        \* which of the events in FaultKinds the environment has
  Zero,          \* a byte never written, inside the file
  EOF,           \* beyond the end of the file
  Old,           \* a byte of the file found at the output path
  NoFile,        \* no state file
  Torn,          \* a state file that LoadState cannot parse
  NoState        \* d.state = nil

FaultKinds == {"cancel",    \* ctx is cancelled (SIGINT, timeout)
               "crash",     \* the process is killed between two steps
               "error",     \* a request, a read, an open or a write fails
               "short",     \* a body ends, cleanly, before the range does
               "replace",   \* the remote file is replaced by one as long
               "delete"}    \* the output file is removed between processes

Remote == [content : Contents, length : Nat, known : BOOLEAN, ranges : BOOLEAN]

ASSUME ServerAssumption == Server \in [Urls -> Remote]
ASSUME BoundsAssumption ==
  /\ Connections \subseteq Nat \ {0}
  /\ MaxRead \in Nat \ {0}
  /\ Offsets \subseteq Nat
  /\ OldLength \in Nat
ASSUME BytesAssumption ==
  /\ \A z \in {Zero, EOF, Old} : z \notin Contents \X Int
  /\ Zero # EOF
ASSUME FaultsAssumption == Faults \subseteq FaultKinds
ASSUME FilesAssumption ==
  /\ NoFile # Torn
  /\ \A f \in {NoFile, Torn, NoState} :
       f \notin [url : Urls, total : Nat,
                 chunks : UNION {[0 .. n - 1 -> Chunk] : n \in Connections \cup {1}}]

VARIABLES
  (* on disk *)
  data,        \* the output file's bytes at the observed offsets
  exists,      \* whether there is an output file
  stateFile,   \* FILE.burkut-state
  tmpFile,     \* FILE.burkut-state.tmp
  (* the server *)
  remote,      \* the content each URL serves now
  (* the process *)
  pc,          \* where Download is
  url,         \* its URL
  conns,       \* its config.Connections
  state,       \* d.state
  worker,      \* the goroutine of each chunk
  cancelled,   \* ctx.Done() is closed
  ticker,      \* the stateSaver goroutine
  save         \* the calls of State.Save that are in progress

disk == <<data, exists, stateFile, tmpFile>>
main == <<pc, url, conns>>
vars == <<disk, remote, main, state, worker, cancelled, ticker, save>>

-----------------------------------------------------------------------------
(* The output file.                                                        *)

(* Bytes below n that were beyond the end become a hole.                   *)
ExtendTo(n, f) ==
  [p \in Offsets |-> IF f[p] = EOF /\ p < n THEN Zero ELSE f[p]]

(* preallocate(size): one zero byte at size - 1, whatever was there.       *)
Preallocate(size, f) ==
  [p \in Offsets |-> IF p = size - 1 THEN Zero ELSE ExtendTo(size, f)[p]]

(* Mutant: a longer file keeps its tail.                                   *)
TruncateExtends(size, f) == ExtendTo(size, f)

Truncate(size, f) ==
  [p \in Offsets |-> IF p < size THEN ExtendTo(size, f)[p] ELSE EOF]

(* WriteAt(n bytes of content c that start at its position src, offset).   *)
WriteAt(c, src, n, offset, f) ==
  [p \in Offsets |-> IF offset <= p /\ p < offset + n
                     THEN <<c, src + (p - offset)>>
                     ELSE ExtendTo(offset, f)[p]]

-----------------------------------------------------------------------------
(* The state and its file.                                                 *)

ContentLength(u) == IF Server[u].known THEN Server[u].length ELSE 0

State(u, chunks) == [url |-> u, total |-> ContentLength(u), chunks |-> chunks]

IsState(s) == s \notin {NoFile, Torn, NoState}

(* Mutant: the sum is not computed again from the file.                    *)
SumIsZero(s) == FALSE

(* d.state.Downloaded > 0: the sum of the chunks' counters is positive.    *)
SomeDownloaded(s) ==
  \E i \in DOMAIN s.chunks : s.chunks[i].downloaded > 0

NewState(u, n) ==
  State(u, InitializeChunks(ContentLength(u),
             IF Server[u].ranges /\ ContentLength(u) > 0 THEN n ELSE 1))

(* State.Save holds state.mu for reading and UpdateChunk wants it for      *)
(* writing: a chunk is updated only when no Save is in progress.           *)
Savers == {"saver", "main"}

(* Mutant: Save takes no lock.                                             *)
NeverLocked == TRUE

Unlocked == \A s \in Savers : save[s].at = "idle"

SetChunk(i, downloaded, status) ==
  /\ Unlocked
  /\ state' = [state EXCEPT !.chunks =
                 UpdateChunk(@, i, downloaded, status)]

-----------------------------------------------------------------------------
(* The goroutine of chunk i (downloadChunk).  `got' is its local variable   *)
(* downloaded; content, src and last describe what is left of the response  *)
(* body, the bytes src .. last - 1 of content; n is what Read returned.     *)

WorkerSteps == {"queued", "request", "loop", "read", "write", "record",
                "finish", "ok", "error"}

NewWorker(i) == [at |-> "queued", got |-> state.chunks[i].downloaded,
                 content |-> remote[url], src |-> 0, last |-> 0, n |-> 0]

NoWorkers == [i \in {} |-> NoState]

At(i, step) == i \in DOMAIN worker /\ worker[i].at = step

Goto(i, step) == worker' = [worker EXCEPT ![i].at = step]

(* Mutant: a goroutine that returns an error keeps its slot.               *)
RunningOrFailed == {i \in DOMAIN worker : worker[i].at \notin {"queued", "ok"}}

(* The slots of the semaphore that are taken.                              *)
Running == {i \in DOMAIN worker : worker[i].at \notin {"queued", "ok", "error"}}

Offset(i) == state.chunks[i].start + worker[i].got

(* Mutant: bytes that were read and not written count.                     *)
StopEarlyCount(i, status) ==
  /\ SetChunk(i, worker[i].got + worker[i].n, status)
  /\ Goto(i, "error")

(* UpdateChunk with the bytes so far, and return the error.                *)
Stop(i, status) ==
  /\ SetChunk(i, worker[i].got, status)
  /\ Goto(i, "error")

BeginChunk(i) ==
  /\ At(i, "queued")
  /\ Cardinality(Running) < conns
  /\ SetChunk(i, worker[i].got, "in_progress")
  /\ Goto(i, "request")
  /\ UNCHANGED data

(* Mutant: off by one.                                                     *)
MoreThanComplete(i) ==
  LET c == state.chunks[i] IN
  /\ At(i, "request")
  /\ c.end >= 0 /\ CurrentPosition(c) > c.end + 1
  /\ SetChunk(i, Size(c), "completed")
  /\ Goto(i, "ok")
  /\ UNCHANGED data

AlreadyComplete(i) ==
  LET c == state.chunks[i] IN
  /\ At(i, "request")
  /\ c.end >= 0 /\ CurrentPosition(c) > c.end
  /\ SetChunk(i, Size(c), "completed")
  /\ Goto(i, "ok")
  /\ UNCHANGED data

(* A request succeeds: Get for a chunk of unknown length, else GetRange,   *)
(* which accepts nothing but 206.                                          *)
Respond(i) ==
  LET c    == state.chunks[i]
      src  == IF c.end < 0 THEN 0 ELSE CurrentPosition(c)
      last == IF c.end < 0 THEN Server[url].length ELSE c.end + 1
  IN
  /\ At(i, "request")
  /\ ~cancelled
  /\ c.end >= 0 => CurrentPosition(c) <= c.end /\ Server[url].ranges
  /\ \E e \in IF "short" \in Faults THEN src .. last ELSE {last} :
       worker' = [worker EXCEPT ![i] =
                    [@ EXCEPT !.at = "loop", !.content = remote[url],
                              !.src = src, !.last = e]]
  /\ UNCHANGED <<data, state>>

RequestFails(i) ==
  LET c == state.chunks[i] IN
  /\ At(i, "request")
  /\ c.end >= 0 => CurrentPosition(c) <= c.end
  /\ \/ cancelled
     \/ "error" \in Faults
     \/ c.end >= 0 /\ ~Server[url].ranges
  /\ Stop(i, "failed")
  /\ UNCHANGED data

(* The select at the top of the loop.                                      *)
Continue(i) ==
  /\ At(i, "loop")
  /\ IF cancelled THEN Stop(i, "pending")
                  ELSE Goto(i, "read") /\ UNCHANGED state
  /\ UNCHANGED data

ReadBytes(i) ==
  /\ At(i, "read")
  /\ \E n \in 1 .. MaxRead :
       /\ worker[i].src + n <= worker[i].last
       /\ worker' = [worker EXCEPT ![i] = [@ EXCEPT !.at = "write", !.n = n]]
  /\ UNCHANGED <<data, state>>

ReadEOF(i) ==
  /\ At(i, "read")
  /\ worker[i].src = worker[i].last
  /\ Goto(i, "finish")
  /\ UNCHANGED <<data, state>>

ReadFails(i) ==
  /\ At(i, "read")
  /\ cancelled \/ "error" \in Faults
  /\ Stop(i, "failed")
  /\ UNCHANGED data

(* RateLimiter.Acquire fails only when ctx is done; the bytes are dropped.  *)
LimiterFails(i) ==
  /\ At(i, "write")
  /\ cancelled
  /\ Stop(i, "pending")
  /\ UNCHANGED data

Write(i) ==
  LET w == worker[i] IN
  /\ At(i, "write")
  /\ data' = WriteAt(w.content, w.src, w.n, Offset(i), data)
  /\ Goto(i, "record")
  /\ UNCHANGED state

(* WriteAt fails after k of the n bytes.                                   *)
WriteFails(i) ==
  LET w == worker[i] IN
  /\ At(i, "write")
  /\ "error" \in Faults
  /\ \E k \in 0 .. w.n - 1 :
       data' = IF k = 0 THEN data
               ELSE WriteAt(w.content, w.src, k, Offset(i), data)
  /\ Stop(i, "failed")

(* The last bytes may come with the io.EOF or before it.  Bytes that come    *)
(* with another error are recorded first: that is this step and ReadFails.  *)
Record(i) ==
  LET w    == worker[i]
      next == IF w.src + w.n = w.last THEN {"finish", "loop"} ELSE {"loop"}
  IN
  /\ At(i, "record")
  /\ SetChunk(i, w.got + w.n, "in_progress")
  /\ \E step \in next :
       worker' = [worker EXCEPT ![i] =
                    [@ EXCEPT !.at = step, !.got = w.got + w.n,
                              !.src = w.src + w.n, !.n = 0]]
  /\ UNCHANGED data

FinishChunk(i) ==
  /\ At(i, "finish")
  /\ SetChunk(i, worker[i].got, "completed")
  /\ Goto(i, "ok")
  /\ UNCHANGED data

WorkerStep(i) ==
  /\ \/ BeginChunk(i) \/ AlreadyComplete(i) \/ Respond(i) \/ RequestFails(i)
     \/ Continue(i) \/ ReadBytes(i) \/ ReadEOF(i) \/ ReadFails(i)
     \/ LimiterFails(i) \/ Write(i) \/ WriteFails(i) \/ Record(i)
     \/ FinishChunk(i)
  /\ UNCHANGED <<exists, stateFile, tmpFile, remote, main, cancelled,
                 ticker, save>>

-----------------------------------------------------------------------------
(* State.Save by s: the main goroutine or the state saver.  Both use the    *)
(* same temporary path.  fd is the name under which the file that s has     *)
(* open can be found now.                                                  *)

Idle == [at |-> "idle", fd |-> "none", snap |-> NoState]

(* A rename or a removal seen by the other calls' descriptors.             *)
Moved(calls, from, to) ==
  [t \in Savers |-> IF calls[t].fd = from THEN [calls[t] EXCEPT !.fd = to]
                                          ELSE calls[t]]

(* RLock, marshal, and os.WriteFile opens the file with O_TRUNC.           *)
SaveOpen(s) ==
  /\ save[s].at = "idle"
  /\ save' = [save EXCEPT ![s] = [at |-> "write", fd |-> "tmp",
                                  snap |-> state]]
  /\ tmpFile' = Torn
  /\ UNCHANGED stateFile

SaveWrite(s) ==
  /\ save[s].at = "write"
  /\ tmpFile' = IF save[s].fd = "tmp" THEN save[s].snap ELSE tmpFile
  /\ stateFile' = IF save[s].fd = "state" THEN save[s].snap ELSE stateFile
  /\ save' = [save EXCEPT ![s] = [@ EXCEPT !.at = "rename", !.fd = "none"]]
  /\ UNCHANGED <<pc, ticker>>

(* Save returns to its caller; the one in Download then returns and its     *)
(* deferred cancel() stops a state saver that is waiting in its select.     *)
SaveReturns(s, calls) ==
  /\ save' = [calls EXCEPT ![s] = Idle]
  /\ IF s = "main"
     THEN /\ pc' = "failed"
          /\ ticker' = IF ticker = "parked" THEN "off" ELSE ticker
     ELSE UNCHANGED <<pc, ticker>>

SaveWriteFails(s) ==
  /\ save[s].at = "write"
  /\ "error" \in Faults
  /\ SaveReturns(s, save)
  /\ UNCHANGED <<tmpFile, stateFile>>

SaveRename(s) ==
  /\ save[s].at = "rename"
  /\ tmpFile # NoFile
  /\ stateFile' = tmpFile
  /\ tmpFile' = NoFile
  /\ SaveReturns(s, Moved(Moved(save, "state", "gone"), "tmp", "state"))

(* The other call has already renamed the temporary file.                  *)
SaveRenameFails(s) ==
  /\ save[s].at = "rename"
  /\ tmpFile = NoFile
  /\ save' = [save EXCEPT ![s] = [@ EXCEPT !.at = "remove"]]
  /\ UNCHANGED <<tmpFile, stateFile, pc, ticker>>

SaveRemove(s) ==
  /\ save[s].at = "remove"
  /\ tmpFile' = NoFile
  /\ SaveReturns(s, Moved(save, "tmp", "gone"))
  /\ UNCHANGED stateFile

SaveStep(s) ==
  /\ \/ SaveWrite(s) \/ SaveWriteFails(s) \/ SaveRename(s)
     \/ SaveRenameFails(s) \/ SaveRemove(s)
  /\ UNCHANGED <<data, exists, remote, url, conns, state, worker, cancelled>>

-----------------------------------------------------------------------------
(* The stateSaver goroutine.  A select that finds both the tick and a       *)
(* closed channel ready picks either; one that waits is woken by the first. *)

Returned == pc \in {"succeeded", "failed"}

Park ==
  /\ ticker = "select" /\ save["saver"].at = "idle"
  /\ ~Returned /\ ~cancelled
  /\ ticker' = "parked"
  /\ UNCHANGED <<disk, remote, main, state, worker, cancelled, save>>

Tick ==
  /\ ticker \in {"select", "parked"}
  /\ SaveOpen("saver")
  /\ ticker' = "select"
  /\ UNCHANGED <<data, exists, remote, main, state, worker, cancelled>>

StopTicker ==
  /\ ticker = "select" /\ save["saver"].at = "idle"
  /\ Returned \/ cancelled
  /\ ticker' = "off"
  /\ UNCHANGED <<disk, remote, main, state, worker, cancelled, save>>

-----------------------------------------------------------------------------
(* The main goroutine.                                                     *)

(* A process is started and its HEAD request succeeds: one that fails       *)
(* changes nothing.                                                        *)
Start(u, n) ==
  /\ pc = "off"
  /\ pc' = "load" /\ url' = u /\ conns' = n
  /\ UNCHANGED <<disk, remote, state, worker, cancelled, ticker, save>>

(* The saved state is used if it is for the same URL and the same size.     *)
Load ==
  /\ pc = "load"
  /\ state' = IF /\ IsState(stateFile)
                 /\ stateFile.url = url
                 /\ stateFile.total = ContentLength(url)
              THEN stateFile ELSE NewState(url, conns)
  /\ pc' = "open"
  /\ UNCHANGED <<disk, remote, url, conns, worker, cancelled, ticker, save>>

OpenWriter ==
  /\ pc = "open"
  /\ data' = IF (exists /\ SomeDownloaded(state)) \/ ContentLength(url) = 0
             THEN data ELSE Preallocate(ContentLength(url), data)
  /\ exists' = TRUE
  /\ pc' = "spawn" /\ ticker' = "select"
  /\ UNCHANGED <<stateFile, tmpFile, remote, url, conns, state, worker,
                 cancelled, save>>

OpenFails ==
  /\ pc = "open"
  /\ "error" \in Faults
  /\ exists' \in {exists, TRUE}
  /\ pc' = "failed"
  /\ UNCHANGED <<data, stateFile, tmpFile, remote, url, conns, state, worker,
                 cancelled, ticker, save>>

Spawn ==
  /\ pc = "spawn"
  /\ worker' = [i \in PendingChunks(state.chunks) |-> NewWorker(i)]
  /\ pc' = IF IsComplete(state.chunks) THEN "delete" ELSE "wait"
  /\ UNCHANGED <<disk, remote, url, conns, state, cancelled, ticker, save>>

(* Mutant: returns the error without saving.                               *)
AwaitWithoutSave ==
  /\ pc = "wait"
  /\ \A i \in DOMAIN worker : worker[i].at \in {"ok", "error"}
  /\ pc' = IF \E i \in DOMAIN worker : worker[i].at = "error"
           THEN "failed" ELSE "delete"
  /\ UNCHANGED <<disk, remote, url, conns, state, worker, cancelled, ticker,
                 save>>

(* wg.Wait() returns; the first error, if any, is Download's.              *)
Await ==
  /\ pc = "wait"
  /\ \A i \in DOMAIN worker : worker[i].at \in {"ok", "error"}
  /\ pc' = IF \E i \in DOMAIN worker : worker[i].at = "error"
           THEN "save" ELSE "delete"
  /\ UNCHANGED <<disk, remote, url, conns, state, worker, cancelled, ticker,
                 save>>

SaveOnError ==
  /\ pc = "save"
  /\ SaveOpen("main")
  /\ pc' = "saving"
  /\ UNCHANGED <<data, exists, remote, url, conns, state, worker, cancelled,
                 ticker>>

DeleteState ==
  /\ pc = "delete"
  /\ stateFile' = NoFile
  /\ save' = Moved(save, "state", "gone")
  /\ pc' = "truncate"
  /\ UNCHANGED <<data, exists, tmpFile, remote, url, conns, state, worker,
                 cancelled, ticker>>

TruncateFile ==
  /\ pc = "truncate"
  /\ data' = IF ContentLength(url) > 0
             THEN Truncate(ContentLength(url), data) ELSE data
  /\ pc' = "close"
  /\ UNCHANGED <<exists, stateFile, tmpFile, remote, url, conns, state,
                 worker, cancelled, ticker, save>>

(* close(d.doneChan) wakes a state saver that waits; Download returns nil.  *)
CloseDone ==
  /\ pc = "close"
  /\ pc' = "succeeded"
  /\ ticker' = IF ticker = "parked" THEN "off" ELSE ticker
  /\ UNCHANGED <<disk, remote, url, conns, state, worker, cancelled, save>>

(* The process ends, and every goroutine with it, wherever it is.  A         *)
(* temporary file may stay behind; what is in it does not matter, for every  *)
(* Save truncates it first and nothing else opens it.                      *)
ProcessEnds ==
  /\ pc' = "off" /\ state' = NoState /\ worker' = NoWorkers
  /\ cancelled' = FALSE /\ ticker' = "off" /\ save' = [s \in Savers |-> Idle]
  /\ tmpFile' = IF tmpFile = NoFile THEN NoFile ELSE Torn
  /\ UNCHANGED <<data, exists, stateFile, remote, url, conns>>

Exit == Returned /\ ProcessEnds

MainStep ==
  \/ Load \/ OpenWriter \/ OpenFails \/ Spawn \/ Await \/ SaveOnError
  \/ DeleteState \/ TruncateFile \/ CloseDone \/ Exit

-----------------------------------------------------------------------------
(* The environment.                                                        *)

Cancel ==
  /\ "cancel" \in Faults
  /\ pc # "off" /\ ~cancelled
  /\ cancelled' = TRUE
  /\ ticker' = IF ticker = "parked" THEN "off" ELSE ticker
  /\ UNCHANGED <<disk, remote, main, state, worker, save>>

Crash == "crash" \in Faults /\ pc # "off" /\ ProcessEnds

Replace(u, c) ==
  /\ "replace" \in Faults
  /\ pc = "off"
  /\ remote' = [remote EXCEPT ![u] = c]
  /\ UNCHANGED <<disk, main, state, worker, cancelled, ticker, save>>

DeleteOutput ==
  /\ "delete" \in Faults
  /\ pc = "off" /\ exists
  /\ data' = [p \in Offsets |-> EOF] /\ exists' = FALSE
  /\ UNCHANGED <<stateFile, tmpFile, remote, main, state, worker, cancelled,
                 ticker, save>>

-----------------------------------------------------------------------------
Init ==
  /\ data = [p \in Offsets |-> IF p < OldLength THEN Old ELSE EOF]
  /\ exists = (OldLength > 0)
  /\ stateFile = NoFile /\ tmpFile = NoFile
  /\ remote = [u \in Urls |-> Server[u].content]
  /\ pc = "off" /\ url \in Urls /\ conns \in Connections
  /\ state = NoState /\ worker = NoWorkers
  /\ cancelled = FALSE /\ ticker = "off" /\ save = [s \in Savers |-> Idle]

Next ==
  \/ \E u \in Urls, n \in Connections : Start(u, n)
  \/ MainStep
  \/ \E i \in DOMAIN worker : WorkerStep(i)
  \/ \E s \in Savers : SaveStep(s)
  \/ Park \/ Tick \/ StopTicker
  \/ Cancel \/ Crash \/ DeleteOutput
  \/ \E u \in Urls, c \in Contents : Replace(u, c)

Spec == Init /\ [][Next]_vars

ChunkIds == {0} \cup UNION {0 .. n - 1 : n \in Connections}

(* Download goes on to its end once started: its own steps, those of the    *)
(* calls of Save, and those of the chunk goroutines, for which the network  *)
(* delivers data or an error.  A chunk goroutine waits for state.mu, which  *)
(* Go grants to a waiting writer before it lets new readers in: a step that *)
(* is enabled between Saves again and again is taken.  Nothing is assumed   *)
(* of the user, the ticker or the faults.                                  *)
Fairness ==
  /\ WF_vars(MainStep)
  /\ \A s \in Savers : WF_vars(SaveStep(s))
  /\ \A i \in ChunkIds : SF_vars(WorkerStep(i))

FairSpec == Spec /\ Fairness

-----------------------------------------------------------------------------
(* Properties.                                                             *)

(* The positions of the file that a state says are downloaded.             *)
Claimed(s) ==
  {p \in Offsets : \E i \in DOMAIN s.chunks :
     s.chunks[i].start <= p /\ p < CurrentPosition(s.chunks[i])}

HasRemoteByte(u, p) == data[p] = <<remote[u], p>>

States == {state, stateFile, tmpFile} \cup {save[s].snap : s \in Savers}

Steps == {"off", "load", "open", "spawn", "wait", "save", "saving", "delete",
          "truncate", "close", "succeeded", "failed"}

Cells == {Zero, EOF, Old} \cup (Contents \X Int)

IsRecord(s) ==
  /\ s = [url |-> s.url, total |-> s.total, chunks |-> s.chunks]
  /\ s.url \in Urls /\ s.total \in Nat
  /\ \E n \in Connections \cup {1} : s.chunks \in [0 .. n - 1 -> Chunk]

Worker == [at : WorkerSteps, got : Int, content : Contents, src : Int,
           last : Int, n : Int]

IsCall(call) ==
  /\ call = [at |-> call.at, fd |-> call.fd, snap |-> call.snap]
  /\ call.at \in {"idle", "write", "rename", "remove"}
  /\ call.fd \in {"none", "tmp", "state", "gone"}
  /\ call.snap = NoState \/ IsRecord(call.snap)

(* The values each variable ranges over.                                   *)
TypeOK ==
  /\ data \in [Offsets -> Cells]
  /\ exists \in BOOLEAN
  /\ stateFile \in {NoFile, Torn} \/ IsRecord(stateFile)
  /\ tmpFile \in {NoFile, Torn} \/ IsRecord(tmpFile)
  /\ remote \in [Urls -> Contents]
  /\ pc \in Steps /\ url \in Urls /\ conns \in Connections
  /\ state = NoState \/ IsRecord(state)
  /\ worker \in [DOMAIN worker -> Worker]
  /\ DOMAIN worker \subseteq ChunkIds
  /\ cancelled \in BOOLEAN
  /\ ticker \in {"off", "select", "parked"}
  /\ save = [s \in Savers |-> save[s]]
  /\ \A s \in Savers : IsCall(save[s])

(* A byte that a state counts as downloaded is in the file: WriteAt comes   *)
(* before UpdateChunk, so no state that is in memory, being saved or on     *)
(* disk, of this process or of one killed before, claims what is not there. *)
ClaimsAreWritten ==
  \A s \in States : IsState(s) =>
    \A p \in Claimed(s) : HasRemoteByte(s.url, p)

(* When Download returns nil the file is the remote file, byte by byte      *)
(* and with no byte more, however many processes it took.                  *)
CompletedFileIsRemote ==
  pc = "succeeded" =>
    \A p \in Offsets : IF p < Server[url].length
                       THEN HasRemoteByte(url, p) ELSE data[p] = EOF

(* A completed chunk has all its bytes: a status alone makes a later run    *)
(* skip the chunk.                                                         *)
CompletedChunksAreFull ==
  \A s \in States : IsState(s) =>
    \A i \in DOMAIN s.chunks :
      s.chunks[i].status = "completed" =>
        s.chunks[i].downloaded = Size(s.chunks[i])

(* The file has no lock per byte: two chunk goroutines never hold bytes for *)
(* the same position.                                                      *)
ChunksWriteApart ==
  \A i, j \in DOMAIN worker :
    /\ i # j /\ At(i, "write") /\ At(j, "write")
    => \/ Offset(i) + worker[i].n <= Offset(j)
       \/ Offset(j) + worker[j].n <= Offset(i)

(* Two calls of Save share the temporary file; they write the same bytes.   *)
OverlappingSavesAgree ==
  \A s, t \in Savers :
    save[s].at # "idle" /\ save[t].at # "idle" => save[s].snap = save[t].snap

(* "Save state on error for resume": what a failed download leaves is all   *)
(* it had, unless the other Save has torn the file.                        *)
FailureSavesProgress == pc = "failed" => stateFile \in {state, Torn}

(* Progress on disk is not lost to a save: a state file that follows        *)
(* another one for the same URL claims at least as much.                   *)
SavedProgressGrows ==
  [][/\ IsState(stateFile) /\ IsState(stateFile')
     /\ stateFile'.url = stateFile.url
     => Claimed(stateFile) \subseteq Claimed(stateFile')]_stateFile

(* A download that has started ends, also when it is cancelled.            *)
DownloadEnds == pc # "off" ~> pc = "off"

(* Unless it is cancelled it succeeds, whatever it resumes from.           *)
DownloadSucceeds == pc = "load" ~> pc = "succeeded" \/ cancelled

(* Whatever happened to the file, the server and the state before, the file *)
(* of a completed download has the length the server announced.            *)
CompletedFileHasLength ==
  pc = "succeeded" /\ ContentLength(url) > 0 =>
    \A p \in Offsets : data[p] = EOF <=> p >= ContentLength(url)
=============================================================================
