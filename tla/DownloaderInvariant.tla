------------------------- MODULE DownloaderInvariant -------------------------
(***************************************************************************)
(* Why resuming is safe: the inductive invariant of the downloader when one *)
(* URL is used with the output path, its server announces a length and      *)
(* serves ranges of one and the same file, no file is smaller than the      *)
(* number of connections, and the failures are cancellation, the death of   *)
(* the process, and errors.                                                *)
(***************************************************************************)
EXTENDS DownloaderTransfer

Length == Server[TheUrl].length

Honest ==
  /\ \A u \in Urls : u = TheUrl
  /\ Server[TheUrl].known /\ Server[TheUrl].ranges
  /\ \A n \in Connections : n <= Length
  /\ Faults \subseteq {"cancel", "crash", "error"}

-----------------------------------------------------------------------------
(* The shape TypeOK leaves out: which variables are in use at which step.   *)
Shape ==
  /\ pc \notin {"off", "load"} => IsRecord(state)
  /\ pc \in {"off", "load", "open", "spawn"} => DOMAIN worker = {}
  /\ DOMAIN worker # {} => DOMAIN worker \subseteq DOMAIN state.chunks
  /\ ticker # "off" => pc \notin {"off", "load", "open"}
  /\ \A s \in Savers : save[s].at # "idle" =>
       IsRecord(save[s].snap) /\ pc \notin {"off", "load", "open"}

TypeInv == TypeOK /\ Shape

(* A chunk of a plan for the file, whose counter and status are right.      *)
GoodChunk(c) ==
  /\ 0 <= c.downloaded /\ c.downloaded <= Size(c)
  /\ c.status = "completed" => c.downloaded = Size(c)

GoodPlan(s) ==
  /\ IsRecord(s)
  /\ s.url = TheUrl /\ s.total = Length
  /\ IsPartition(s.chunks, Length)
  /\ \A i \in DOMAIN s.chunks : GoodChunk(s.chunks[i])

GoodState(s) == GoodPlan(s) /\ Claimed(s) \subseteq Have

StatesGood ==
  /\ IF pc \in {"off", "load"} THEN state = NoState ELSE GoodState(state)
  /\ IsState(stateFile) => GoodState(stateFile)
  /\ IsState(tmpFile) => GoodState(tmpFile)
  /\ \A s \in Savers : IsState(save[s].snap) => GoodState(save[s].snap)

(* The goroutine with record w of the chunk c: what it counts is what the    *)
(* state says, and its body, of the given content, goes on where the chunk  *)
(* does; the bytes written and not yet counted are there.                  *)
GoodWorker(w, c, content, have) ==
  /\ w.got = c.downloaded
  /\ w.at \in {"loop", "read", "write", "record", "finish"} =>
       /\ w.content = content
       /\ w.src = CurrentPosition(c) /\ w.last = c.end + 1
  /\ w.at \in {"write", "record"} => 1 <= w.n /\ w.src + w.n <= w.last
  /\ w.at = "record" =>
       {p \in Offsets : w.src <= p /\ p < w.src + w.n} \subseteq have
  /\ w.at = "finish" => w.src = w.last
  /\ w.at = "ok" => c.status = "completed"

WorkersGood ==
  \A i \in DOMAIN worker :
    GoodWorker(worker[i], state.chunks[i], remote[TheUrl], Have)

(* Before the output file is open no other process has a state in memory,   *)
(* and what is claimed on disk is claimed by the state in use.             *)
OpensSafely ==
  /\ pc \in {"off", "load", "open"} =>
       ~IsState(tmpFile) /\ \A s \in Savers : ~IsState(save[s].snap)
  /\ pc = "open" => IF IsState(stateFile) THEN state = stateFile
                                          ELSE ~SomeDownloaded(state)
  /\ \/ IsState(stateFile) \/ ticker # "off"
     \/ pc \in {"spawn", "wait", "save"}
     \/ \E s \in Savers : save[s].at # "idle"
     => exists

(* Only a download whose chunks are all completed deletes the state.        *)
EndsComplete ==
  /\ pc = "wait" =>
       \A i \in DOMAIN state.chunks \ DOMAIN worker :
         state.chunks[i].status = "completed"
  /\ pc \in {"delete", "truncate", "close", "succeeded"} =>
       /\ IsComplete(state.chunks)
       /\ \A i \in DOMAIN worker : worker[i].at = "ok"
  /\ pc \in {"close", "succeeded"} =>
       \A p \in Offsets : p >= Length => data[p] = EOF

(* Implies ClaimsAreWritten, CompletedChunksAreFull and                    *)
(* CompletedFileIsRemote, and every step preserves it.                     *)
ResumeInv ==
  Honest /\ TypeInv /\ StatesGood /\ WorkersGood /\ OpensSafely /\ EndsComplete

-----------------------------------------------------------------------------
(* What every call of Save is about to put on disk is the state in memory,  *)
(* which only changes while there is none; that is also what the temporary  *)
(* file has in it.                                                         *)
SavesAreCurrent ==
  /\ \A s \in Savers : save[s].at # "idle" => save[s].snap = state
  /\ IsState(tmpFile) =>
       tmpFile = state /\ \E s \in Savers : save[s].at = "rename"

(* The state in memory claims what the state file does.                    *)
MemoryIsAhead ==
  pc \notin {"off", "load"} /\ IsState(stateFile) =>
    Claimed(stateFile) \subseteq Claimed(state)

OnlyFailureSaves == save["main"].at # "idle" => pc = "saving"

ProgressInv == SavesAreCurrent /\ MemoryIsAhead /\ OnlyFailureSaves
=============================================================================
