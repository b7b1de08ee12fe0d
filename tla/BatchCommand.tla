----------------------------- MODULE BatchCommand -----------------------------
(***************************************************************************)
(* burkut -i FILE: runBatchDownload of cmd/burkut/main.go over the queue   *)
(* of internal/download/queue.go.  A line of the file is blank (or a       *)
(* comment), bad, or an item: a url, an output path or "" and a checksum:  *)
(* "none", "bad" when it cannot be parsed, or the url it belongs to.  The  *)
(* contents of a file are those of a url, or a part.                       *)
(***************************************************************************)
EXTENDS Integers, FiniteSets, Sequences

CONSTANTS
  BatchUrls,    \* the urls
  Name,         \* per url: the file name at its end
  BatchPaths,   \* the output paths
  BatchLines,   \* the lines a file may have
  MaxItems      \* bound: the items of a file

ASSUME BatchAssumption ==
  /\ Name \in [BatchUrls -> BatchPaths]
  /\ \A l \in BatchLines :
       l.kind = "item" => l.url \in BatchUrls /\ l.out \in BatchPaths \cup {""}
  /\ MaxItems \in Nat

VARIABLES
  queue,    \* Queue.items: url, path, sum, status
  files,    \* per path: the file there
  batch     \* the process: at, item, completed, failed, cancelled, code

batchVars == <<queue, files, batch>>

-----------------------------------------------------------------------------
Item(line) ==
  [url |-> line.url, path |-> IF line.out = "" THEN Name[line.url] ELSE line.out,
   sum |-> line.sum, status |-> "pending"]

(* Stats counts the items of each status. *)
Count(status) == Cardinality({i \in DOMAIN queue : queue[i].status = status})

UpdateStatus(id, status) == queue' = [queue EXCEPT ![id].status = status]

BatchEnds(code) == batch' = [batch EXCEPT !.at = "exited", !.code = code]

-----------------------------------------------------------------------------
(* loadConfig fails, or the file cannot be opened or read on. *)
BatchRefused ==
  /\ batch.at = "load"
  /\ BatchEnds(2)
  /\ UNCHANGED <<queue, files>>

(* One line in LoadFromFile: AddWithOptions adds an item to the queue, and a
   bad line refuses the whole file; other lines are skipped.               *)
LoadFromFile ==
  /\ batch.at = "load"
  /\ \E line \in BatchLines :
       \/ line.kind = "bad" /\ BatchEnds(2) /\ UNCHANGED queue
       \/ line.kind = "item" /\ Len(queue) < MaxItems
          /\ queue' = Append(queue, Item(line)) /\ UNCHANGED batch
  /\ UNCHANGED files

(* The end of the file; one without an item is refused. *)
BatchLoaded ==
  /\ batch.at = "load"
  /\ IF queue = <<>> THEN BatchEnds(2) ELSE batch' = [batch EXCEPT !.at = "next"]
  /\ UNCHANGED <<queue, files>>

(* The head of the loop, or the end of it. *)
NextItem ==
  /\ batch.at = "next"
  /\ CASE batch.item > Len(queue) ->
            BatchEnds(IF batch.failed > 0 THEN 1 ELSE 0) /\ UNCHANGED queue
       [] batch.item <= Len(queue) /\ batch.cancelled -> BatchEnds(8) /\ UNCHANGED queue
       [] OTHER -> /\ UpdateStatus(batch.item, "downloading")
                   /\ batch' = [batch EXCEPT !.at = "download"]
  /\ UNCHANGED files

(* SetError, and on with the next item. *)
ItemFails ==
  /\ UpdateStatus(batch.item, "failed")
  /\ batch' = [batch EXCEPT !.at = "next", !.item = @ + 1, !.failed = @ + 1]

ItemDownloadFails ==
  /\ batch.at = "download"
  /\ ItemFails
  /\ \E left \in {files[queue[batch.item].path], "part"} :
       files' = [files EXCEPT ![queue[batch.item].path] = left]

ItemDownloaded ==
  /\ batch.at = "download"
  /\ files' = [files EXCEPT ![queue[batch.item].path] = queue[batch.item].url]
  /\ batch' = [batch EXCEPT !.at = "verify"]
  /\ UNCHANGED queue

(* Mutant: after a mismatch the item is completed as well. *)
ItemMismatchGoesOn ==
  /\ batch.at = "verify"
  /\ UpdateStatus(batch.item, "completed")
  /\ batch' = [batch EXCEPT !.at = "next", !.item = @ + 1, !.completed = @ + 1,
                            !.failed = IF queue[batch.item].sum = queue[batch.item].url
                                       THEN @ ELSE @ + 1]
  /\ UNCHANGED files

(* A checksum that cannot be parsed is not compared. *)
ItemVerified ==
  /\ batch.at = "verify"
  /\ IF queue[batch.item].sum \in {"none", "bad", queue[batch.item].url}
     THEN /\ UpdateStatus(batch.item, "completed")
          /\ batch' = [batch EXCEPT !.at = "next", !.item = @ + 1, !.completed = @ + 1]
     ELSE ItemFails
  /\ UNCHANGED files

(* The file cannot be read. *)
ItemVerifyFails ==
  /\ batch.at = "verify" /\ queue[batch.item].sum \notin {"none", "bad"}
  /\ ItemFails
  /\ UNCHANGED files

BatchInterrupt ==
  /\ batch.at # "exited" /\ ~batch.cancelled
  /\ batch' = [batch EXCEPT !.cancelled = TRUE]
  /\ UNCHANGED <<queue, files>>

BatchInit ==
  /\ queue = <<>>
  /\ files = [p \in BatchPaths |-> "none"]
  /\ batch = [at |-> "load", item |-> 1, completed |-> 0, failed |-> 0,
              cancelled |-> FALSE, code |-> -1]

BatchNext ==
  \/ BatchRefused \/ LoadFromFile \/ BatchLoaded \/ NextItem \/ ItemDownloadFails \/ ItemDownloaded
  \/ ItemVerified \/ ItemVerifyFails \/ BatchInterrupt

BatchSpec == BatchInit /\ [][BatchNext]_batchVars

-----------------------------------------------------------------------------
(* The two counters of the summary and the queue's own statistics agree, and
   one item at most is being downloaded.                                   *)
SummaryAgrees ==
  /\ Count("completed") = batch.completed /\ Count("failed") = batch.failed
  /\ Count("downloading") = IF batch.at \in {"download", "verify"} THEN 1 ELSE 0

(* 0 means that all items are completed, 1 that some failed and none was left
   out, 8 that some were left out, and after an interrupt only, 2 that no
   download was begun.                                                     *)
BatchCodeTells ==
  /\ batch.code = 0 => Count("completed") = Len(queue) /\ queue # <<>>
  /\ batch.code = 1 => Count("failed") > 0 /\ Count("pending") = 0
  /\ batch.code = 8 => Count("pending") > 0 /\ batch.cancelled
  /\ batch.code = 2 => Count("pending") = Len(queue)

(* At the end an item that is completed has its file, the one its checksum
   belongs to, unless another item had the same path.                      *)
CompletedIsRight ==
  \A i \in DOMAIN queue :
    (queue[i].status = "completed" /\ \A j \in DOMAIN queue \ {i} : queue[j].path # queue[i].path)
      => files[queue[i].path] = queue[i].url /\ queue[i].sum \in {"none", "bad", queue[i].url}

(* The summary, the exit code and the files of a batch tell the same story,
   whichever items fail and wherever it is interrupted.                    *)
BatchIsTrue == SummaryAgrees /\ BatchCodeTells /\ CompletedIsRight
=============================================================================
