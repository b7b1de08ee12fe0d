------------------------ MODULE DownloaderRefinement ------------------------
(***************************************************************************)
(* Proofs that the downloader implements ResumableTransfer and that no save *)
(* loses progress.  Beyond ResumeInv both need ProgressInv: what is about   *)
(* to be put on disk is the state in memory, and that is never behind the   *)
(* state file.                                                             *)
(***************************************************************************)
EXTENDS DownloaderProofs

-----------------------------------------------------------------------------
(* Steps of a chunk goroutine.                                             *)

LEMMA ClaimsGrow ==
  ASSUME GoodPlan(state), NEW i \in DOMAIN state.chunks, NEW d \in Int, NEW t,
         SetChunk(i, d, t), state.chunks[i].downloaded <= d
  PROVE  Claimed(state) \subseteq Claimed(state')
<1> SUFFICES ASSUME NEW p \in Claimed(state) PROVE p \in Claimed(state')
  OBVIOUS
<1>1. PICK j \in DOMAIN state.chunks :
        /\ p \in Offsets /\ state.chunks[j].start <= p
        /\ p < CurrentPosition(state.chunks[j])
  BY DEF Claimed
<1>2. /\ DOMAIN state'.chunks = DOMAIN state.chunks
      /\ j # i => state'.chunks[j] = state.chunks[j]
      /\ state'.chunks[i].start = state.chunks[i].start
      /\ state'.chunks[i].downloaded = d
  BY SetChunkGood
<1>3. state.chunks[j] \in Chunk
  BY PlanFacts
<1>4. p \in Int
  BY <1>1, BoundsAssumption
<1>5. /\ state'.chunks[j].start <= p
      /\ p < CurrentPosition(state'.chunks[j])
  <2>1. CASE j = i
    BY <1>1, <1>2, <1>3, <1>4, <2>1 DEF CurrentPosition, Chunk
  <2>2. CASE j # i
    BY <1>1, <1>2, <2>2
  <2>3. QED  BY <2>1, <2>2
<1>6. QED  BY <1>1, <1>2, <1>5 DEF Claimed

(* A goroutine only adds bytes to the file and claims to the state, and     *)
(* claims nothing while there is a Save.                                   *)
LEMMA WorkerAdvances ==
  ASSUME ResumeInv, NEW i \in DOMAIN worker, WorkerStep(i)
  PROVE  /\ Have \subseteq Have'
         /\ \/ state' = state
            \/ Unlocked /\ Claimed(state) \subseteq Claimed(state')
<1> DEFINE c == state.chunks[i]
           w == worker[i]
<1>1. /\ GoodPlan(state) /\ i \in DOMAIN state.chunks
      /\ GoodWorker(w, c, remote[TheUrl], Have)
  BY DEF ResumeInv, TypeInv, Shape, StatesGood, GoodState, WorkersGood
<1>2. /\ c \in Chunk /\ w \in Worker
      /\ 0 <= c.downloaded /\ c.start + c.downloaded <= c.end + 1
  BY <1>1, PlanFacts DEF ResumeInv, TypeInv, TypeOK
<1>3. /\ w.got = c.downloaded
      /\ c.start \in Int /\ c.end \in Int /\ c.downloaded \in Int
      /\ w.src \in Int /\ w.n \in Int
  BY <1>1, <1>2 DEF GoodWorker, Chunk, Worker
<1>4. /\ w.at \in {"write", "record"} =>
           /\ w.content = remote[TheUrl] /\ w.src = c.start + c.downloaded
           /\ 1 <= w.n
  BY <1>1 DEF GoodWorker, CurrentPosition
<1>5. /\ TypeOK /\ TheUrl \in Urls /\ UNCHANGED remote
  BY HonestFacts DEF ResumeInv, TypeInv, TypeOK, WorkerStep
<1> HIDE DEF c, w
<1>6. Have \subseteq Have'
  <2>1. ASSUME UNCHANGED data PROVE Have \subseteq Have'
    BY <1>5, <2>1, SameBytes
  <2>2. ASSUME NEW n \in Int, w.at = "write",
               data' = WriteAt(w.content, w.src, n, Offset(i), data)
        PROVE  Have \subseteq Have'
    <3>1. Offset(i) = w.src /\ w.content = remote[TheUrl]
      BY <1>3, <1>4, <2>2 DEF Offset, c, w
    <3>2. data' = WriteAt(remote[TheUrl], w.src, n, w.src, data)
      BY <2>2, <3>1
    <3>3. QED  BY <1>3, <1>5, <2>2, <3>2, WriteKeeps
  <2>3. CASE Write(i)
    <3>1. /\ w.at = "write"
          /\ data' = WriteAt(w.content, w.src, w.n, Offset(i), data)
      BY <2>3 DEF Write, At, w
    <3>2. QED  BY <1>3, <2>2, <3>1
  <2>4. CASE WriteFails(i)
    <3>1. PICK k \in 0 .. w.n - 1 :
            data' = IF k = 0 THEN data
                    ELSE WriteAt(w.content, w.src, k, Offset(i), data)
      BY <2>4 DEF WriteFails, w
    <3>2. w.at = "write" /\ k \in Int
      BY <1>3, <2>4 DEF WriteFails, At, w
    <3>3. QED  BY <2>1, <2>2, <3>1, <3>2
  <2>5. CASE UNCHANGED data
    BY <2>1, <2>5
  <2>6. QED
    BY <2>3, <2>4, <2>5
    DEF WorkerStep, BeginChunk, AlreadyComplete, Respond, RequestFails,
        Continue, ReadBytes, ReadEOF, ReadFails, LimiterFails, Record,
        FinishChunk
<1>7. ASSUME NEW d \in Int, NEW t, SetChunk(i, d, t), c.downloaded <= d
      PROVE  Unlocked /\ Claimed(state) \subseteq Claimed(state')
  BY <1>1, <1>7, ClaimsGrow DEF SetChunk, c
<1>8. ASSUME NEW t, SetChunk(i, w.got, t)
      PROVE  Unlocked /\ Claimed(state) \subseteq Claimed(state')
  BY <1>3, <1>7, <1>8
<1>9. CASE BeginChunk(i)
  BY <1>6, <1>8, <1>9 DEF BeginChunk, w
<1>10. CASE AlreadyComplete(i)
  <2>1. SetChunk(i, Size(c), "completed")
    BY <1>10 DEF AlreadyComplete, c
  <2>2. Size(c) \in Int /\ c.downloaded <= Size(c)
    BY <1>2, <1>3 DEF Size
  <2>3. QED  BY <1>6, <1>7, <2>1, <2>2
<1>11. CASE \/ Respond(i) \/ ReadBytes(i) \/ ReadEOF(i) \/ Write(i)
  BY <1>6, <1>11 DEF Respond, ReadBytes, ReadEOF, Write
<1>12. CASE \/ RequestFails(i) \/ ReadFails(i) \/ LimiterFails(i)
            \/ WriteFails(i)
  BY <1>6, <1>8, <1>12
  DEF RequestFails, ReadFails, LimiterFails, WriteFails, Stop, w
<1>13. CASE Continue(i)
  BY <1>6, <1>8, <1>13 DEF Continue, Stop, w
<1>14. CASE Record(i)
  <2>1. SetChunk(i, w.got + w.n, "in_progress") /\ w.at = "record"
    BY <1>14 DEF Record, At, w
  <2>2. w.got + w.n \in Int /\ c.downloaded <= w.got + w.n
    BY <1>3, <1>4, <2>1
  <2>3. QED  BY <1>6, <1>7, <2>1, <2>2
<1>15. CASE FinishChunk(i)
  BY <1>6, <1>8, <1>15 DEF FinishChunk, w
<1>16. QED
  BY <1>9, <1>10, <1>11, <1>12, <1>13, <1>14, <1>15 DEF WorkerStep

-----------------------------------------------------------------------------
(* ProgressInv.                                                            *)

AllIdle == \A s \in Savers : save[s].at = "idle"

LEMMA ProgressInit == Init => ProgressInv
<1> SUFFICES ASSUME Init PROVE ProgressInv
  OBVIOUS
<1>1. \A s \in Savers : save[s].at = "idle"
  BY DEF Init, Idle
<1>2. ~IsState(tmpFile) /\ pc = "off" /\ "main" \in Savers
  BY DEF Init, IsState, Savers
<1>3. QED
  BY <1>1, <1>2 DEF ProgressInv, SavesAreCurrent, MemoryIsAhead, OnlyFailureSaves

LEMMA WorkerKeepsProgress ==
  ASSUME ResumeInv, ProgressInv, NEW i \in DOMAIN worker, WorkerStep(i)
  PROVE  ProgressInv'
<1>1. UNCHANGED <<stateFile, tmpFile, pc, save>>
  BY DEF WorkerStep, main
<1>2. \/ state' = state
      \/ Unlocked /\ Claimed(state) \subseteq Claimed(state')
  BY WorkerAdvances
<1>3. CASE state' = state
  BY <1>1, <1>3
  DEF ProgressInv, SavesAreCurrent, MemoryIsAhead, OnlyFailureSaves, Claimed
<1>4. CASE Unlocked /\ Claimed(state) \subseteq Claimed(state')
  <2>1. SavesAreCurrent'
    BY <1>1, <1>4 DEF ProgressInv, SavesAreCurrent, Unlocked
  <2>2. MemoryIsAhead'
    <3>1. ASSUME pc \notin {"off", "load"}, IsState(stateFile)
          PROVE  Claimed(stateFile) \subseteq Claimed(state')
      BY <1>4, <3>1 DEF ProgressInv, MemoryIsAhead
    <3>2. Claimed(stateFile)' = Claimed(stateFile)
      BY <1>1 DEF Claimed
    <3>3. QED  BY <1>1, <3>1, <3>2 DEF MemoryIsAhead
  <2>3. OnlyFailureSaves'
    BY <1>1 DEF ProgressInv, OnlyFailureSaves
  <2>4. QED  BY <2>1, <2>2, <2>3 DEF ProgressInv
<1>5. QED  BY <1>2, <1>3, <1>4

(* What a step of Save puts on disk.                                       *)
LEMMA SavedIsState ==
  ASSUME ResumeInv, ProgressInv, NEW s \in Savers, SaveStep(s)
  PROVE  /\ pc \notin {"off", "load", "open"}
         /\ stateFile' = stateFile \/ ~IsState(stateFile') \/ stateFile' = state
<1>1. /\ save[s].at # "idle"
      /\ stateFile' \in {stateFile, tmpFile, save[s].snap}
  BY SaveMoves DEF ResumeInv
<1>2. /\ save[s].snap = state
      /\ IsState(tmpFile) => tmpFile = state
  BY <1>1 DEF ProgressInv, SavesAreCurrent
<1>3. pc \notin {"off", "load", "open"}
  BY <1>1 DEF ResumeInv, TypeInv, Shape
<1>4. QED  BY <1>1, <1>2, <1>3

LEMMA SaveKeepsProgress ==
  ASSUME ResumeInv, ProgressInv, NEW s \in Savers, SaveStep(s)
  PROVE  ProgressInv'
<1>1. /\ save[s].at # "idle"
      /\ \A t \in Savers :
           save'[t].at # "idle" =>
             save[t].at # "idle" /\ save'[t].snap = save[t].snap
      /\ pc' \in {pc, "failed"}
      /\ pc' = pc \/ save'["main"].at = "idle"
  BY SaveMoves DEF ResumeInv
<1>2. UNCHANGED state
  BY DEF SaveStep
<1>3. ASSUME IsState(tmpFile')
      PROVE  tmpFile' = state /\ \E t \in Savers : save'[t].at = "rename"
  <2>1. ~IsState(NoFile)
    BY DEF IsState
  <2>2. Calls(save) /\ \A t \in Savers : IsCall(save[t])
    BY DEF ResumeInv, TypeInv, TypeOK, Calls
  <2>3. IsState(tmpFile) =>
          tmpFile = state /\ \E t \in Savers : save[t].at = "rename"
    BY DEF ProgressInv, SavesAreCurrent
  <2>4. CASE SaveWrite(s)
    <3> DEFINE call == [save[s] EXCEPT !.at = "rename", !.fd = "none"]
    <3>1. call.at = "rename"
      BY <2>2, CallFields
    <3> HIDE DEF call
    <3>2. save' = [save EXCEPT ![s] = call]
      BY <2>4 DEF SaveWrite, call
    <3>3. save'[s].at = "rename"
      BY <2>2, <3>1, <3>2 DEF Calls
    <3>4. tmpFile' \in {tmpFile, save[s].snap}
      BY <2>4 DEF SaveWrite
    <3>5. save[s].snap = state
      BY <1>1 DEF ProgressInv, SavesAreCurrent
    <3>6. QED  BY <1>3, <2>3, <3>3, <3>4, <3>5
  <2>5. CASE SaveWriteFails(s)
    <3>1. /\ tmpFile' = tmpFile /\ save[s].at = "write"
          /\ save' = [save EXCEPT ![s] = Idle]
      BY <2>5 DEF SaveWriteFails, SaveReturns
    <3>2. PICK t \in Savers : save[t].at = "rename"
      BY <1>3, <2>3, <3>1
    <3>3. save'[t] = save[t]
      BY <2>2, <3>1, <3>2 DEF Calls
    <3>4. QED  BY <1>3, <2>3, <3>1, <3>2, <3>3
  <2>6. CASE SaveRename(s)
    BY <1>3, <2>1, <2>6 DEF SaveRename
  <2>7. CASE SaveRenameFails(s)
    BY <1>3, <2>1, <2>7 DEF SaveRenameFails
  <2>8. CASE SaveRemove(s)
    BY <1>3, <2>1, <2>8 DEF SaveRemove
  <2>9. QED  BY <2>4, <2>5, <2>6, <2>7, <2>8 DEF SaveStep
<1>4. SavesAreCurrent'
  BY <1>1, <1>2, <1>3 DEF ProgressInv, SavesAreCurrent
<1>5. MemoryIsAhead'
  <2>1. /\ pc \notin {"off", "load", "open"}
        /\ stateFile' = stateFile \/ ~IsState(stateFile') \/ stateFile' = state
    BY SavedIsState
  <2>2. IsState(stateFile) => Claimed(stateFile) \subseteq Claimed(state)
    BY <2>1 DEF ProgressInv, MemoryIsAhead
  <2>3. IsState(stateFile') => Claimed(stateFile') \subseteq Claimed(state)
    BY <2>1, <2>2
  <2>4. QED  BY <1>2, <2>3 DEF MemoryIsAhead
<1>6. OnlyFailureSaves'
  BY <1>1 DEF ProgressInv, OnlyFailureSaves, Savers
<1>7. QED  BY <1>4, <1>5, <1>6 DEF ProgressInv

(* A Save begins: it holds the state in memory, and the temporary file is   *)
(* empty.                                                                  *)
LEMMA OpenKeepsCurrent ==
  ASSUME ResumeInv, ProgressInv, NEW s \in Savers, SaveOpen(s), UNCHANGED state
  PROVE  /\ SavesAreCurrent'
         /\ \A t \in Savers : t # s => save'[t] = save[t]
<1>1. \A t \in Savers :
        save'[t] = IF t = s THEN [at |-> "write", fd |-> "tmp", snap |-> state]
                            ELSE save[t]
  BY DEF SaveOpen, ResumeInv, TypeInv, TypeOK
<1>2. ~IsState(tmpFile')
  BY DEF SaveOpen, IsState
<1>3. QED  BY <1>1, <1>2 DEF ProgressInv, SavesAreCurrent

LEMMA TickerKeepsProgress ==
  ASSUME ResumeInv, ProgressInv, Park \/ Tick \/ StopTicker
  PROVE  ProgressInv'
<1>1. UNCHANGED <<stateFile, pc, state>>
  BY DEF Park, Tick, StopTicker, SaveOpen, disk, main
<1>2. MemoryIsAhead'
  BY <1>1 DEF ProgressInv, MemoryIsAhead, Claimed
<1>3. SavesAreCurrent' /\ OnlyFailureSaves'
  <2>1. CASE Tick
    <3>1. "saver" \in Savers /\ "main" \in Savers /\ "main" # "saver"
      BY DEF Savers
    <3>2. SavesAreCurrent' /\ save'["main"] = save["main"]
      BY <1>1, <2>1, <3>1, OpenKeepsCurrent DEF Tick
    <3>3. QED  BY <1>1, <3>2 DEF ProgressInv, OnlyFailureSaves
  <2>2. CASE Park \/ StopTicker
    BY <2>2
    DEF Park, StopTicker, disk, main, ProgressInv, SavesAreCurrent,
        OnlyFailureSaves
  <2>3. QED  BY <2>1, <2>2
<1>4. QED  BY <1>2, <1>3 DEF ProgressInv

(* Steps that save nothing and change neither state nor files.             *)
LEMMA QuietKeepsProgress ==
  ASSUME ProgressInv, UNCHANGED <<stateFile, tmpFile, state, save>>,
         \/ pc' = pc
         \/ /\ pc # "saving"
            /\ pc' \in {"off", "load"} \/ pc \notin {"off", "load"}
  PROVE  ProgressInv'
<1>1. SavesAreCurrent' /\ OnlyFailureSaves'
  BY DEF ProgressInv, SavesAreCurrent, OnlyFailureSaves
<1>2. MemoryIsAhead'
  BY DEF ProgressInv, MemoryIsAhead, Claimed
<1>3. QED  BY <1>1, <1>2 DEF ProgressInv

LEMMA EndKeepsProgress ==
  ASSUME ResumeInv, ProgressInv, ProcessEnds
  PROVE  ProgressInv'
<1>1. \A s \in Savers : save'[s].at = "idle"
  BY DEF ProcessEnds, Idle
<1>2. ~IsState(tmpFile') /\ pc' = "off" /\ "main" \in Savers
  BY DEF ProcessEnds, IsState, Savers
<1>3. QED
  BY <1>1, <1>2 DEF ProgressInv, SavesAreCurrent, MemoryIsAhead, OnlyFailureSaves

LEMMA MainKeepsProgress ==
  ASSUME ResumeInv, ResumeInv', ProgressInv, MainStep
  PROVE  ProgressInv'
<1>1. CASE Load
  <2>1. /\ UNCHANGED <<stateFile, tmpFile, save>> /\ pc = "load" /\ pc' = "open"
    BY <1>1 DEF Load, disk
  <2>2. \A s \in Savers : save[s].at = "idle"
    BY <2>1 DEF ResumeInv, TypeInv, Shape
  <2>3. ~IsState(tmpFile)
    BY <2>1 DEF ResumeInv, OpensSafely
  <2>4. IsState(stateFile') => state' = stateFile'
    BY <2>1 DEF ResumeInv, OpensSafely
  <2>5. IsState(stateFile') => Claimed(stateFile') \subseteq Claimed(state')
    BY <2>4
  <2>6. SavesAreCurrent' /\ OnlyFailureSaves' /\ MemoryIsAhead'
    BY <2>1, <2>2, <2>3, <2>5
    DEF SavesAreCurrent, OnlyFailureSaves, MemoryIsAhead, Savers
  <2>7. QED  BY <2>6 DEF ProgressInv
<1>2. CASE \/ OpenWriter \/ OpenFails \/ Spawn \/ Await \/ TruncateFile
           \/ CloseDone
  <2>1. /\ UNCHANGED <<stateFile, tmpFile, state, save>>
        /\ pc \notin {"saving", "off", "load"}
    BY <1>2 DEF OpenWriter, OpenFails, Spawn, Await, TruncateFile, CloseDone, disk
  <2>2. QED  BY <2>1, QuietKeepsProgress
<1>3. CASE SaveOnError
  <2>1. /\ SaveOpen("main") /\ UNCHANGED <<state, stateFile>>
        /\ pc = "save" /\ pc' = "saving" /\ "main" \in Savers
    BY <1>3 DEF SaveOnError, SaveOpen, Savers
  <2>2. SavesAreCurrent'
    BY <2>1, OpenKeepsCurrent
  <2>3. MemoryIsAhead' /\ OnlyFailureSaves'
    BY <2>1 DEF ProgressInv, MemoryIsAhead, OnlyFailureSaves, Claimed
  <2>4. QED  BY <2>2, <2>3 DEF ProgressInv
<1>4. CASE DeleteState
  <2>1. /\ UNCHANGED <<tmpFile, state>> /\ ~IsState(stateFile')
        /\ save' = Moved(save, "state", "gone") /\ pc = "delete"
    BY <1>4 DEF DeleteState, IsState
  <2>2. Calls(save)
    BY DEF ResumeInv, TypeInv, TypeOK, Calls
  <2>3. \A t \in Savers : /\ save'[t].at = save[t].at
                          /\ save'[t].snap = save[t].snap
    BY <2>1, <2>2, MovedType
  <2>4. SavesAreCurrent' /\ MemoryIsAhead'
    BY <2>1, <2>3 DEF ProgressInv, SavesAreCurrent, MemoryIsAhead
  <2>5. OnlyFailureSaves'
    BY <2>1, <2>3 DEF ProgressInv, OnlyFailureSaves, Savers
  <2>6. QED  BY <2>4, <2>5 DEF ProgressInv
<1>5. CASE Exit
  BY <1>5, EndKeepsProgress DEF Exit
<1>6. QED  BY <1>1, <1>2, <1>3, <1>4, <1>5 DEF MainStep

LEMMA ProgressNext ==
  ASSUME ResumeInv, ResumeInv', ProgressInv, [Next]_vars
  PROVE  ProgressInv'
<1>1. CASE UNCHANGED vars
  BY <1>1, QuietKeepsProgress DEF vars, disk, main
<1>2. CASE \E u \in Urls, n \in Connections : Start(u, n)
  BY <1>2, QuietKeepsProgress DEF Start, disk
<1>3. CASE Cancel
  BY <1>3, QuietKeepsProgress DEF Cancel, disk, main
<1>4. CASE \/ DeleteOutput \/ \E u \in Urls, c \in Contents : Replace(u, c)
  BY <1>4 DEF DeleteOutput, Replace, ResumeInv, Honest
<1>5. QED
  BY <1>1, <1>2, <1>3, <1>4, MainKeepsProgress, WorkerKeepsProgress,
     SaveKeepsProgress, TickerKeepsProgress, EndKeepsProgress DEF Next, Crash

LEMMA ProgressHolds == Honest /\ Spec => [](ResumeInv /\ ProgressInv)
BY InvariantHolds, ProgressInit, ProgressNext, PTL DEF Spec

(* The state in memory is ahead of the state file, and every Save in        *)
(* progress is about to write just that state: no Save loses progress.      *)
THEOREM ProgressAlways == Honest /\ Spec => []ProgressInv
BY ProgressHolds, PTL

-----------------------------------------------------------------------------
(* What a failed download leaves.  As long as nothing but the user stops it *)
(* the Save in Download ends with a state file that has all it had: its     *)
(* temporary file is there until one of the two Saves renames it.           *)
Saved == stateFile \in {state, Torn}

FailureInv ==
  /\ pc \in {"save", "saving", "failed"} =>
       \A i \in DOMAIN worker : worker[i].at \in {"ok", "error"}
  /\ pc \in {"spawn", "wait", "save", "saving"} /\ save["saver"].at # "idle" =>
       tmpFile # NoFile /\ save["saver"].at # "remove"
  /\ save["main"].at # "idle" /\ (tmpFile = NoFile \/ save["main"].at = "remove") =>
       Saved
  /\ pc = "failed" => Saved

LEMMA SaversAre == Savers = {"saver", "main"} /\ "saver" # "main"
BY DEF Savers

(* What is in the temporary file is the state, or cannot be read.           *)
LEMMA TmpIsState ==
  ASSUME ResumeInv, ProgressInv
  PROVE  /\ tmpFile \in {NoFile, Torn, state}
         /\ \A s \in Savers : save[s].at # "idle" => save[s].snap = state /\ state # NoFile
<1>1. ASSUME NEW s, IsRecord(s) PROVE IsState(s)
  BY <1>1, FilesAssumption DEF IsRecord, IsState
<1>2. tmpFile \in {NoFile, Torn} \/ IsState(tmpFile)
  BY <1>1 DEF ResumeInv, TypeInv, TypeOK
<1>3. \A s \in Savers : save[s].at # "idle" => IsState(save[s].snap)
  BY <1>1 DEF ResumeInv, TypeInv, Shape
<1>4. QED  BY <1>2, <1>3 DEF ProgressInv, SavesAreCurrent, IsState

(* Where the calls of Save are after a step of one of them.                 *)
LEMMA SaveSteps ==
  ASSUME ResumeInv, NEW s \in Savers, SaveStep(s)
  PROVE  /\ UNCHANGED <<state, worker>>
         /\ \A t \in Savers \ {s} : save'[t].at = save[t].at
         /\ SaveWrite(s) => save'[s].at = "rename"
         /\ SaveRenameFails(s) => save'[s].at = "remove"
         /\ SaveWriteFails(s) \/ SaveRename(s) \/ SaveRemove(s) => save'[s].at = "idle"
<1>1. /\ Calls(save) /\ \A t \in Savers : IsCall(save[t])
      /\ \A t \in Savers : save[t] = [at |-> save[t].at, fd |-> save[t].fd,
                                      snap |-> save[t].snap]
  BY DEF ResumeInv, TypeInv, TypeOK, Calls, IsCall
<1>2. UNCHANGED <<state, worker>>
  BY DEF SaveStep
<1>3. ASSUME NEW f, NEW g \in {"none", "tmp", "state", "gone"}
      PROVE  /\ Calls(Moved(save, f, g))
             /\ \A t \in Savers : Moved(save, f, g)[t].at = save[t].at
  BY <1>1, MovedType
<1>4. ASSUME NEW calls, Calls(calls), SaveReturns(s, calls),
             \A t \in Savers : calls[t].at = save[t].at
      PROVE  save'[s].at = "idle" /\ \A t \in Savers \ {s} : save'[t].at = save[t].at
  <2>1. \A t \in Savers : save'[t] = IF t = s THEN Idle ELSE calls[t]
    BY <1>4 DEF SaveReturns, Calls
  <2>2. QED  BY <1>4, <2>1 DEF Idle
<1>5. ASSUME NEW at, NEW fd, save' = [save EXCEPT ![s] = [@ EXCEPT !.at = at, !.fd = fd]]
      PROVE  save'[s].at = at /\ \A t \in Savers \ {s} : save'[t].at = save[t].at
  <2>1. \A t \in Savers : save'[t] = IF t = s THEN [save[s] EXCEPT !.at = at, !.fd = fd]
                                              ELSE save[t]
    BY <1>1, <1>5 DEF Calls
  <2>2. QED  BY <1>1, <2>1
<1>6. SaveWrite(s) => save'[s].at = "rename" /\ \A t \in Savers \ {s} : save'[t].at = save[t].at
  BY <1>5 DEF SaveWrite
<1>7. SaveRenameFails(s) =>
        save'[s].at = "remove" /\ \A t \in Savers \ {s} : save'[t].at = save[t].at
  <2> SUFFICES ASSUME SaveRenameFails(s)
               PROVE  save'[s].at = "remove" /\ \A t \in Savers \ {s} : save'[t].at = save[t].at
    OBVIOUS
  <2>1. \A t \in Savers : save'[t] = IF t = s THEN [save[s] EXCEPT !.at = "remove"]
                                              ELSE save[t]
    BY <1>1 DEF SaveRenameFails, Calls
  <2>2. QED  BY <1>1, <2>1
<1> DEFINE Returns == save'[s].at = "idle" /\ \A t \in Savers \ {s} : save'[t].at = save[t].at
<1>8. SaveWriteFails(s) => Returns
  BY <1>1, <1>4 DEF SaveWriteFails
<1>9. SaveRemove(s) => Returns
  BY <1>3, <1>4 DEF SaveRemove
<1>10. SaveRename(s) => Returns
  <2> DEFINE once == Moved(save, "state", "gone")
             calls == Moved(once, "tmp", "state")
  <2>1. Calls(once) /\ \A t \in Savers : once[t].at = save[t].at
    BY <1>3
  <2>2. Calls(calls) /\ \A t \in Savers : calls[t].at = once[t].at
    BY <2>1, MovedType
  <2>3. SaveRename(s) => SaveReturns(s, calls)
    BY DEF SaveRename
  <2> HIDE DEF calls, once
  <2>4. QED  BY <1>4, <2>1, <2>2, <2>3
<1> HIDE DEF Returns
<1>11. \A t \in Savers \ {s} : save'[t].at = save[t].at
  BY <1>6, <1>7, <1>8, <1>9, <1>10 DEF SaveStep, Returns
<1>12. QED  BY <1>2, <1>6, <1>7, <1>8, <1>9, <1>10, <1>11 DEF Returns

LEMMA SaveKeepsFailure ==
  ASSUME ResumeInv, ProgressInv, "error" \notin Faults, FailureInv,
         NEW s \in Savers, SaveStep(s)
  PROVE  FailureInv'
<1> DEFINE Before == {"spawn", "wait", "save", "saving"}
<1>1. /\ s \in {"saver", "main"} /\ "saver" # "main"
      /\ UNCHANGED <<state, worker>>
      /\ s = "saver" => save'["main"].at = save["main"].at
      /\ s = "main" => save'["saver"].at = save["saver"].at
  BY SaversAre, SaveSteps
<1>2. /\ tmpFile \in {NoFile, Torn, state}
      /\ save[s].snap = state /\ state # NoFile /\ Torn # NoFile
      /\ save["main"].at # "idle" => pc = "saving"
  <2>1. save[s].at # "idle"
    BY SaveMoves DEF ResumeInv
  <2>2. QED  BY <2>1, TmpIsState, FilesAssumption DEF ProgressInv, OnlyFailureSaves
<1>3. Saved => Saved'
  BY <1>1, <1>2 DEF SaveStep, SaveWrite, SaveWriteFails, SaveRename, SaveRenameFails,
                    SaveRemove, Saved
<1>4. CASE SaveWrite(s)
  <2>1. /\ save'[s].at = "rename" /\ save[s].at = "write" /\ pc' = pc
        /\ tmpFile' \in {tmpFile, state} /\ stateFile' \in {stateFile, state}
    BY <1>2, <1>4, SaveSteps DEF SaveWrite
  <2>2. QED  BY <1>1, <1>2, <1>3, <2>1 DEF FailureInv
<1>5. CASE SaveWriteFails(s)
  BY <1>5 DEF SaveWriteFails
<1>6. CASE SaveRename(s)
  <2>1. /\ save'[s].at = "idle" /\ tmpFile # NoFile /\ stateFile' = tmpFile
        /\ tmpFile' = NoFile
        /\ pc' = IF s = "main" THEN "failed" ELSE pc
    BY <1>6, SaveSteps DEF SaveRename, SaveReturns
  <2>2. Saved'
    BY <1>1, <1>2, <2>1 DEF Saved
  <2>3. pc = "failed" \/ pc \in Before \/ pc \notin Before
    OBVIOUS
  <2>4. s = "main" => pc = "saving"
    BY <1>2, <1>6 DEF SaveRename
  <2>5. QED  BY <1>1, <2>1, <2>2, <2>4 DEF FailureInv
<1>7. CASE SaveRenameFails(s)
  <2>1. /\ save'[s].at = "remove" /\ save[s].at = "rename" /\ tmpFile = NoFile
        /\ tmpFile' = NoFile /\ stateFile' = stateFile /\ pc' = pc
    BY <1>7, SaveSteps DEF SaveRenameFails
  <2>2. QED  BY <1>1, <1>2, <1>3, <2>1 DEF FailureInv
<1>8. CASE SaveRemove(s)
  <2>1. /\ save'[s].at = "idle" /\ save[s].at = "remove" /\ stateFile' = stateFile
        /\ tmpFile' = NoFile
        /\ pc' = IF s = "main" THEN "failed" ELSE pc
    BY <1>8, SaveSteps DEF SaveRemove, SaveReturns
  <2>2. QED  BY <1>1, <1>2, <1>3, <2>1 DEF FailureInv
<1>9. QED  BY <1>4, <1>5, <1>6, <1>7, <1>8 DEF SaveStep

LEMMA OpenKeepsFailure ==
  ASSUME ResumeInv, ProgressInv, FailureInv, Tick \/ SaveOnError
  PROVE  FailureInv'
<1>1. /\ tmpFile' = Torn /\ Torn # NoFile
      /\ UNCHANGED <<stateFile, state, worker>>
  BY FilesAssumption DEF Tick, SaveOnError, SaveOpen
<1>2. \A s, t \in Savers :
        SaveOpen(s) => save'[t].at = IF t = s THEN "write" ELSE save[t].at
  BY DEF SaveOpen, ResumeInv, TypeInv, TypeOK
<1>3. CASE Tick
  <2>1. save'["main"].at = save["main"].at /\ save'["saver"].at = "write" /\ pc' = pc
    BY <1>2, <1>3, SaversAre DEF Tick, main
  <2>2. QED  BY <1>1, <2>1 DEF FailureInv, Saved
<1>4. CASE SaveOnError
  <2>1. /\ save'["main"].at = "write" /\ save'["saver"].at = save["saver"].at
        /\ pc = "save" /\ pc' = "saving"
    BY <1>2, <1>4, SaversAre DEF SaveOnError
  <2>2. QED  BY <1>1, <2>1 DEF FailureInv, Saved
<1>5. QED  BY <1>3, <1>4

LEMMA FailureNext ==
  ASSUME ResumeInv, ProgressInv, "error" \notin Faults, FailureInv, [Next]_vars
  PROVE  FailureInv'
<1> DEFINE Late == {"spawn", "wait", "save", "saving", "failed"}
<1>1. "main" \in Savers /\ "saver" \in Savers
  BY SaversAre
<1>2. save["main"].at # "idle" => pc = "saving"
  BY DEF ProgressInv, OnlyFailureSaves
<1>3. CASE UNCHANGED vars
  BY <1>3 DEF vars, disk, main, FailureInv, Saved
<1>4. CASE Cancel \/ Park \/ StopTicker
  BY <1>4 DEF Cancel, Park, StopTicker, disk, main, FailureInv, Saved
<1>5. CASE \/ Load \/ DeleteState \/ TruncateFile \/ CloseDone
           \/ \E u \in Urls, n \in Connections : Start(u, n)
  <2>1. pc' \notin Late /\ pc # "saving" /\ save'["main"].at = save["main"].at
    <3>1. Calls(save)
      BY DEF ResumeInv, TypeInv, TypeOK, Calls
    <3>2. \A t \in Savers : Moved(save, "state", "gone")[t].at = save[t].at
      BY <3>1, MovedType
    <3>3. QED
      BY <1>1, <1>5, <3>2 DEF Load, DeleteState, TruncateFile, CloseDone, Start
  <2>2. QED  BY <1>2, <2>1 DEF FailureInv
<1>6. CASE Exit \/ Crash
  <2>1. pc' = "off" /\ save'["main"].at = "idle"
    BY <1>1, <1>6 DEF Exit, Crash, ProcessEnds, Idle
  <2>2. QED  BY <2>1 DEF FailureInv
<1>7. CASE OpenWriter
  <2>1. save["saver"].at = "idle"
    BY <1>1, <1>7 DEF OpenWriter, ResumeInv, TypeInv, Shape
  <2>2. pc = "open" /\ pc' = "spawn" /\ save' = save
    BY <1>7 DEF OpenWriter
  <2>3. QED  BY <1>2, <2>1, <2>2 DEF FailureInv
<1>8. CASE OpenFails
  BY <1>8 DEF OpenFails
<1>9. CASE Spawn
  BY <1>2, <1>9 DEF Spawn, disk, FailureInv
<1>10. CASE Await
  BY <1>2, <1>10 DEF Await, disk, FailureInv
<1>11. ASSUME NEW i \in DOMAIN worker, WorkerStep(i)
       PROVE  FailureInv'
  <2>1. worker[i].at \notin {"ok", "error"}
    BY <1>11 DEF WorkerStep, BeginChunk, AlreadyComplete, Respond, RequestFails, Continue,
                 ReadBytes, ReadEOF, ReadFails, LimiterFails, Write, WriteFails, Record,
                 FinishChunk, At
  <2>2. UNCHANGED <<pc, tmpFile, save>>
    BY <1>11 DEF WorkerStep, main
  <2>3. pc \notin {"save", "saving", "failed"}
    BY <2>1 DEF FailureInv
  <2>4. QED  BY <1>2, <2>2, <2>3 DEF FailureInv
<1>12. CASE DeleteOutput \/ \E u \in Urls, c \in Contents : Replace(u, c)
  BY <1>12 DEF DeleteOutput, Replace, ResumeInv, Honest
<1>13. QED
  BY <1>3, <1>4, <1>5, <1>6, <1>7, <1>8, <1>9, <1>10, <1>11, <1>12, SaveKeepsFailure,
     OpenKeepsFailure DEF Next, MainStep

(* "Save state on error for resume" (downloader.go:217): a download that    *)
(* the user stopped, at any moment and with the state saver at any step of  *)
(* its own Save, leaves all it had in the state file, or a file that the    *)
(* other Save is about to write.  An error of the disk may prevent that.    *)
THEOREM FailureSaves ==
  ASSUME "error" \notin Faults
  PROVE  Honest /\ Spec => []FailureSavesProgress
<1>1. Init => FailureInv
  BY SaversAre DEF Init, Idle, FailureInv
<1>2. FailureInv => FailureSavesProgress
  BY DEF FailureInv, Saved, FailureSavesProgress
<1>3. ResumeInv /\ ProgressInv /\ FailureInv /\ [Next]_vars => FailureInv'
  BY FailureNext
<1>4. QED  BY <1>1, <1>2, <1>3, ProgressHolds, PTL DEF Spec

-----------------------------------------------------------------------------
(* Two calls of Save that overlap write the same bytes to the temporary     *)
(* file they share (State.Save holds the read lock throughout).            *)
THEOREM SavesAgree == Honest /\ Spec => []OverlappingSavesAgree
<1>1. ProgressInv => OverlappingSavesAgree
  BY DEF ProgressInv, SavesAreCurrent, OverlappingSavesAgree
<1>2. QED  BY <1>1, ProgressHolds, PTL

(* A state file that replaces another claims at least as much, whichever    *)
(* Save wrote it and in whatever order they rename.                        *)
THEOREM ProgressKept == Honest /\ Spec => SavedProgressGrows
<1> DEFINE Grows == /\ IsState(stateFile) /\ IsState(stateFile')
                    /\ stateFile'.url = stateFile.url
                    => Claimed(stateFile) \subseteq Claimed(stateFile')
<1>1. ASSUME ResumeInv, ProgressInv, [Next]_vars
      PROVE  [Grows]_stateFile
  <2>1. CASE \E s \in Savers : SaveStep(s)
    <3>1. PICK s \in Savers : SaveStep(s)
      BY <2>1
    <3>2. /\ pc \notin {"off", "load", "open"}
          /\ \/ stateFile' = stateFile \/ ~IsState(stateFile')
             \/ stateFile' = state
      BY <1>1, <3>1, SavedIsState
    <3>3. IsState(stateFile) => Claimed(stateFile) \subseteq Claimed(state)
      BY <1>1, <3>2 DEF ProgressInv, MemoryIsAhead
    <3>4. stateFile' = state => Claimed(stateFile') = Claimed(state)
      OBVIOUS
    <3>5. QED  BY <3>2, <3>3, <3>4
  <2>2. CASE DeleteState
    BY <2>2 DEF DeleteState, IsState
  <2>3. CASE ~DeleteState /\ ~\E s \in Savers : SaveStep(s)
    <3>1. UNCHANGED stateFile
      BY <1>1, <2>3
      DEF Next, vars, disk, MainStep, Start, Load, OpenWriter, OpenFails,
          Spawn, Await, SaveOnError, SaveOpen, TruncateFile, CloseDone, Exit,
          Crash, ProcessEnds, WorkerStep, Park, Tick, StopTicker, Cancel,
          DeleteOutput, Replace
    <3>2. QED  BY <3>1
  <2>4. QED  BY <2>1, <2>2, <2>3
<1>2. QED  BY <1>1, ProgressHolds, PTL DEF Spec, SavedProgressGrows

-----------------------------------------------------------------------------
(* The refinement.                                                         *)

LEMMA TransferInit ==
  ASSUME Honest, Init
  PROVE  Transfer!Init
<1>1. pc = "off" /\ stateFile = NoFile
  BY DEF Init
<1>2. Kept = {} /\ Status = "stopped"
  BY <1>1 DEF Kept, Status, IsState
<1>3. Have = {}
  <2> SUFFICES ASSUME NEW p \in Have PROVE FALSE
    OBVIOUS
  <2>1. TheUrl \in Urls
    BY HonestFacts DEF Init
  <2>2. TypeOK
    BY TypeInit DEF TypeInv
  <2>3. /\ p \in Offsets /\ data[p] = <<remote[TheUrl], p>>
        /\ remote[TheUrl] \in Contents /\ p \in Int
    BY <2>1, <2>2, BoundsAssumption DEF Have, Bytes, HasRemoteByte, TypeOK
  <2>4. data[p] \in Contents \X Int
    BY <2>3
  <2>5. data[p] \in {Old, EOF}
    BY <2>3 DEF Init
  <2>6. QED  BY <2>4, <2>5, BytesAssumption
<1>4. QED  BY <1>2, <1>3 DEF Transfer!Init

(* A step that adds bytes while an attempt runs is Receive or a stutter.    *)
LEMMA ReceiveStep ==
  ASSUME ResumeInv', Have \subseteq Have', Kept' = Kept,
         Status = "running", Status' = "running"
  PROVE  [Transfer!Next]_Transfer!vars
<1>1. Have' \subseteq Bytes
  BY DEF Have
<1>2. QED  BY <1>1 DEF Transfer!Next, Transfer!Receive

LEMMA SameKept ==
  ASSUME UNCHANGED stateFile
  PROVE  Kept' = Kept
BY DEF Kept, Claimed

LEMMA QuietStep ==
  ASSUME UNCHANGED <<data, remote, stateFile>>, Status' = Status
  PROVE  [Transfer!Next]_Transfer!vars
<1>1. Have' = Have /\ Kept' = Kept
  BY SameBytes, SameKept
<1>2. QED  BY <1>1 DEF Transfer!vars

LEMMA WorkerTransfers ==
  ASSUME ResumeInv, ResumeInv', NEW i \in DOMAIN worker, WorkerStep(i)
  PROVE  [Transfer!Next]_Transfer!vars
<1>1. UNCHANGED <<stateFile, pc>>
  BY DEF WorkerStep, main
<1>2. pc \notin {"off", "load", "open", "spawn"}
  BY DEF ResumeInv, TypeInv, Shape
<1>3. CASE pc = "succeeded"
  <2>1. worker[i].at = "ok"
    BY <1>3 DEF ResumeInv, EndsComplete
  <2>2. QED
    BY <2>1
    DEF WorkerStep, At, BeginChunk, AlreadyComplete, Respond, RequestFails,
        Continue, ReadBytes, ReadEOF, ReadFails, LimiterFails, Write,
        WriteFails, Record, FinishChunk
<1>4. CASE pc # "succeeded"
  <2>1. Status = "running" /\ Status' = "running"
    BY <1>1, <1>2, <1>4 DEF Status
  <2>2. Have \subseteq Have' /\ Kept' = Kept
    BY <1>1, WorkerAdvances, SameKept
  <2>3. QED  BY <2>1, <2>2, ReceiveStep
<1>5. QED  BY <1>3, <1>4

(* What a Save leaves is kept from then on; a torn file keeps nothing.      *)
LEMMA SaveTransfers ==
  ASSUME ResumeInv, ResumeInv', ProgressInv, NEW s \in Savers, SaveStep(s)
  PROVE  [Transfer!Next]_Transfer!vars
<1>1. /\ pc \notin {"off", "load", "open"}
      /\ stateFile' = stateFile \/ ~IsState(stateFile') \/ stateFile' = state
  BY SavedIsState
<1>2. pc' = pc \/ (pc = "saving" /\ pc' = "failed")
  <2>1. /\ pc' \in {pc, "failed"}
        /\ save[s].at # "idle"
    BY SaveMoves DEF ResumeInv
  <2>2. s = "main" => pc = "saving"
    BY <2>1 DEF ProgressInv, OnlyFailureSaves
  <2>3. s # "main" => pc' = pc
    BY DEF SaveStep, SaveWrite, SaveWriteFails, SaveRename, SaveRenameFails,
           SaveRemove, SaveReturns
  <2>4. QED  BY <2>1, <2>2, <2>3
<1>3. Status' = Status /\ Status # "stopped"
  BY <1>1, <1>2 DEF Status
<1>4. Have' = Have
  BY SameBytes DEF SaveStep
<1>5. CASE stateFile' = stateFile
  BY <1>3, <1>4, <1>5, SameKept DEF Transfer!vars
<1>6. CASE ~IsState(stateFile')
  <2>1. Kept' = {}
    BY <1>6 DEF Kept
  <2>2. QED  BY <1>3, <1>4, <2>1 DEF Transfer!Next, Transfer!Forget
<1>7. CASE stateFile' = state /\ IsState(stateFile')
  <2>1. Kept' = Claimed(state)
    BY <1>7 DEF Kept, Claimed
  <2>2. Kept \subseteq Claimed(state)
    BY <1>1 DEF Kept, ProgressInv, MemoryIsAhead
  <2>3. Claimed(state) \subseteq Have
    BY <1>1 DEF ResumeInv, StatesGood, GoodState
  <2>4. QED  BY <1>3, <1>4, <2>1, <2>2, <2>3 DEF Transfer!Next, Transfer!Keep
<1>8. QED  BY <1>1, <1>5, <1>6, <1>7

(* A plan all of whose chunks are completed claims every byte.             *)
LEMMA AllClaimed ==
  ASSUME NEW s, GoodPlan(s), IsComplete(s.chunks), Length \in Nat
  PROVE  Bytes \subseteq Claimed(s)
<1> SUFFICES ASSUME NEW p \in Bytes PROVE p \in Claimed(s)
  OBVIOUS
<1>1. p \in Offsets /\ p \in 0 .. Length - 1
  BY BoundsAssumption DEF Bytes, Length
<1>2. PICK i \in DOMAIN s.chunks : s.chunks[i].start <= p /\ p <= s.chunks[i].end
  BY <1>1 DEF GoodPlan, IsPartition
<1>3. s.chunks[i].status = "completed"
  BY DEF IsComplete, PendingChunks
<1>4. /\ s.chunks[i] \in Chunk
      /\ s.chunks[i].start + s.chunks[i].downloaded = s.chunks[i].end + 1
  BY <1>3, PlanFacts
<1>5. QED  BY <1>1, <1>2, <1>4 DEF Claimed, CurrentPosition, Chunk

LEMMA EndTransfers ==
  ASSUME pc # "off", ProcessEnds
  PROVE  [Transfer!Next]_Transfer!vars
<1>1. UNCHANGED <<data, remote, stateFile>> /\ pc' = "off"
  BY DEF ProcessEnds
<1>2. Have' = Have /\ Kept' = Kept
  BY <1>1, SameBytes, SameKept
<1>3. Status # "stopped" /\ Status' = "stopped"
  BY <1>1 DEF Status
<1>4. QED  BY <1>2, <1>3 DEF Transfer!Next, Transfer!End

LEMMA MainTransfers ==
  ASSUME ResumeInv, ResumeInv', ProgressInv, MainStep
  PROVE  [Transfer!Next]_Transfer!vars
<1>1. TypeOK /\ url = TheUrl /\ TheUrl \in Urls
      /\ Length \in Nat /\ ContentLength(TheUrl) = Length
  BY HonestFacts DEF ResumeInv, TypeInv, TypeOK
<1>2. CASE \/ Load \/ OpenFails \/ Spawn \/ Await \/ SaveOnError
  <2>1. UNCHANGED <<data, remote, stateFile>>
    BY <1>2 DEF Load, OpenFails, Spawn, Await, SaveOnError, SaveOpen, disk
  <2>2. Status = "running" /\ Status' = "running"
    BY <1>2 DEF Load, OpenFails, Spawn, Await, SaveOnError, Status
  <2>3. QED  BY <2>1, <2>2, QuietStep
<1>3. CASE OpenWriter
  <2>1. /\ UNCHANGED <<stateFile, remote, state>> /\ pc = "open" /\ pc' = "spawn"
        /\ \/ data' = data
           \/ /\ ~(exists /\ SomeDownloaded(state))
              /\ data' = Preallocate(Length, data)
    BY <1>1, <1>3 DEF OpenWriter
  <2>2. Status = "running" /\ Status' = "running" /\ Kept' = Kept
    BY <2>1, SameKept DEF Status
  <2>3. Kept \subseteq Have'
    <3>1. Kept' \subseteq Have'
      BY DEF ResumeInv, StatesGood, GoodState, Kept
    <3>2. QED  BY <2>2, <3>1
  <2>4. Have' \subseteq Have
    <3> SUFFICES ASSUME NEW p \in Have' PROVE p \in Have
      OBVIOUS
    <3>1. CASE data' = data
      BY <2>1, <3>1, SameBytes
    <3>2. CASE data' = Preallocate(Length, data)
      <4>1. /\ p \in Bytes /\ p \in Offsets
            /\ data'[p] = <<remote[TheUrl], p>>
        BY <2>1 DEF Have, Bytes, HasRemoteByte
      <4>2. remote[TheUrl] \in Contents /\ p \in Int
        BY <1>1, <4>1, BoundsAssumption DEF TypeOK
      <4>3. data'[p] # Zero
        BY <4>1, <4>2, BytesAssumption
      <4>4. data'[p] \in {Zero, data[p]}
        BY <3>2, <4>1 DEF Preallocate, ExtendTo
      <4>5. QED  BY <4>1, <4>3, <4>4 DEF Have, HasRemoteByte
    <3>3. QED  BY <2>1, <3>1, <3>2
  <2>5. QED  BY <2>2, <2>3, <2>4 DEF Transfer!Next, Transfer!Prepare
<1>4. CASE DeleteState
  <2>1. /\ UNCHANGED <<data, remote>> /\ ~IsState(stateFile')
        /\ pc = "delete" /\ pc' = "truncate"
    BY <1>4 DEF DeleteState, IsState
  <2>2. Have' = Have /\ Kept' = {}
    BY <2>1, SameBytes DEF Kept
  <2>3. Status = "running" /\ Status' = "running"
    BY <2>1 DEF Status
  <2>4. QED  BY <2>2, <2>3 DEF Transfer!Next, Transfer!Forget
<1>5. CASE TruncateFile
  <2>1. /\ UNCHANGED <<stateFile, remote>>
        /\ pc = "truncate" /\ pc' = "close"
        /\ data' = data \/ data' = Truncate(Length, data)
    BY <1>1, <1>5 DEF TruncateFile
  <2>2. Have \subseteq Have'
    BY <1>1, <2>1, SameBytes, TruncateKeeps
  <2>3. Status = "running" /\ Status' = "running" /\ Kept' = Kept
    BY <2>1, SameKept DEF Status
  <2>4. QED  BY <2>2, <2>3, ReceiveStep
<1>6. CASE CloseDone
  <2>1. /\ UNCHANGED <<data, remote, stateFile, state>>
        /\ pc = "close" /\ pc' = "succeeded"
    BY <1>6 DEF CloseDone, disk
  <2>2. Have' = Have /\ Kept' = Kept
    BY <2>1, SameBytes, SameKept
  <2>3. Status = "running" /\ Status' = "complete"
    BY <2>1 DEF Status
  <2>4. Have = Bytes
    <3>1. GoodState(state) /\ IsComplete(state.chunks)
      BY <2>1 DEF ResumeInv, StatesGood, EndsComplete
    <3>2. Bytes \subseteq Claimed(state)
      BY <1>1, <3>1, AllClaimed DEF GoodState
    <3>3. QED  BY <3>1, <3>2 DEF GoodState, Have
  <2>5. QED  BY <2>2, <2>3, <2>4 DEF Transfer!Next, Transfer!Complete
<1>7. CASE Exit
  <2>1. pc # "off" /\ ProcessEnds
    BY <1>7 DEF Exit, Returned
  <2>2. QED  BY <2>1, EndTransfers
<1>8. QED  BY <1>2, <1>3, <1>4, <1>5, <1>6, <1>7 DEF MainStep

LEMMA StepTransfers ==
  ASSUME ResumeInv, ResumeInv', ProgressInv, [Next]_vars
  PROVE  [Transfer!Next]_Transfer!vars
<1>1. CASE UNCHANGED vars
  BY <1>1, QuietStep DEF vars, disk, main, Status
<1>2. CASE \E u \in Urls, n \in Connections : Start(u, n)
  <2>1. /\ UNCHANGED <<data, remote, stateFile>>
        /\ pc = "off" /\ pc' = "load"
    BY <1>2 DEF Start, disk
  <2>2. Have' = Have /\ Kept' = Kept
    BY <2>1, SameBytes, SameKept
  <2>3. Status = "stopped" /\ Status' = "running"
    BY <2>1 DEF Status
  <2>4. QED  BY <2>2, <2>3 DEF Transfer!Next, Transfer!Begin
<1>3. CASE Cancel \/ Park \/ Tick \/ StopTicker
  <2>1. UNCHANGED <<data, remote, stateFile, pc>>
    BY <1>3 DEF Cancel, Park, Tick, StopTicker, SaveOpen, disk, main
  <2>2. QED  BY <2>1, QuietStep DEF Status
<1>4. CASE Crash
  BY <1>4, EndTransfers DEF Crash
<1>5. CASE \/ DeleteOutput \/ \E u \in Urls, c \in Contents : Replace(u, c)
  BY <1>5 DEF DeleteOutput, Replace, ResumeInv, Honest
<1>6. QED
  BY <1>1, <1>2, <1>3, <1>4, <1>5, MainTransfers, WorkerTransfers,
     SaveTransfers DEF Next

(* Every process, killed wherever it may be, is an attempt of a resumable   *)
(* transfer: Download, with its chunk goroutines and its Saves, implements  *)
(* ResumableTransfer.                                                      *)
THEOREM TransferImplemented == Honest /\ Spec => TransfersFile
<1>1. Honest /\ Init => Transfer!Init
  BY TransferInit
<1>2. ResumeInv /\ ResumeInv' /\ ProgressInv /\ [Next]_vars
        => [Transfer!Next]_Transfer!vars
  BY StepTransfers
<1>3. QED
  BY <1>1, <1>2, ProgressHolds, PTL DEF Spec, TransfersFile, Transfer!Spec
=============================================================================
