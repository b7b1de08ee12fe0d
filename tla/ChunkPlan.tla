------------------------------ MODULE ChunkPlan ------------------------------
(***************************************************************************)
(* The chunk table of a download (internal/download/state.go): a chunk is  *)
(* an inclusive byte range of the file, the number of its bytes already    *)
(* downloaded and a status.  InitializeChunks cuts a file into one chunk   *)
(* per connection.  A chunk whose `end' is negative stands for "the rest   *)
(* of a body of unknown length".                                           *)
(***************************************************************************)
EXTENDS Integers

ChunkStatus == {"pending", "in_progress", "completed", "failed"}

Chunk == [start : Int, end : Int, downloaded : Int, status : ChunkStatus]

Size(c) == c.end - c.start + 1

CurrentPosition(c) == c.start + c.downloaded

(* Mutant: the end taken as exclusive.                                     *)
NewChunkPastEnd(start, end) ==
  [start |-> start, end |-> end + 1, downloaded |-> 0, status |-> "pending"]

NewChunk(start, end) ==
  [start |-> start, end |-> end, downloaded |-> 0, status |-> "pending"]

(* Mutant: a chunk of its own for what remains.                            *)
InitializeChunksPlusOne(total, n) ==
  LET chunkSize == total \div n
  IN  [i \in 0 .. n |->
         NewChunk(i * chunkSize,
                  IF i = n THEN total - 1 ELSE (i + 1) * chunkSize - 1)]

(* Every chunk has total \div n bytes, the last one also what remains.     *)
InitializeChunks(total, n) ==
  IF total <= 0 \/ n <= 0
  THEN [i \in {0} |-> NewChunk(0, -1)]
  ELSE LET chunkSize == total \div n
       IN  [i \in 0 .. n - 1 |->
              NewChunk(i * chunkSize,
                       IF i = n - 1 THEN total - 1
                                    ELSE i * chunkSize + chunkSize - 1)]

(* Chunks are values: UpdateChunk returns the table with chunk i's progress *)
(* and status replaced, and ignores an unknown id.                         *)
UpdateChunk(chunks, i, downloaded, status) ==
  IF i \in DOMAIN chunks
  THEN [chunks EXCEPT ![i] = [@ EXCEPT !.downloaded = downloaded,
                                       !.status = status]]
  ELSE chunks

(* Mutant: a chunk that failed is not tried again.                         *)
UnfailedChunks(chunks) ==
  {i \in DOMAIN chunks : chunks[i].status \in {"pending", "in_progress"}}

(* The ids GetPendingChunks returns: every chunk that is not completed.    *)
PendingChunks(chunks) ==
  {i \in DOMAIN chunks : chunks[i].status # "completed"}

IsComplete(chunks) == PendingChunks(chunks) = {}

-----------------------------------------------------------------------------
(* The chunks of a file of `total' bytes: none is empty, and every byte is  *)
(* in exactly one of them.                                                 *)
IsPartition(chunks, total) ==
  /\ \A i \in DOMAIN chunks :
       /\ 0 <= chunks[i].start /\ chunks[i].start <= chunks[i].end
       /\ chunks[i].end < total
  /\ \A i, j \in DOMAIN chunks :
       i # j => \/ chunks[i].end < chunks[j].start
                \/ chunks[j].end < chunks[i].start
  /\ \A p \in 0 .. total - 1 :
       \E i \in DOMAIN chunks : chunks[i].start <= p /\ p <= chunks[i].end
=============================================================================
