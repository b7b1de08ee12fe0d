----------------------------- MODULE Conditional -----------------------------
(***************************************************************************)
(* The decisions of internal/engine/conditional.go: is the local file as   *)
(* good as the remote one?  A file is [time, whole], whole standing for a  *)
(* size equal to the remote one; the answer of a HEAD request is           *)
(* [time, known]: its Last-Modified, 0 when absent, and whether it has a   *)
(* positive Content-Length.                                                *)
(***************************************************************************)
EXTENDS Integers

(* Mutant: the times are compared the wrong way round. *)
CheckSwapped(there, file, meta) ==
  \/ ~there
  \/ meta.time = 0
  \/ meta.time < file.time
  \/ meta.known /\ ~file.whole

(* CheckTimestamp: should the file be downloaded? *)
CheckTimestamp(there, file, meta) ==
  \/ ~there
  \/ meta.time = 0
  \/ file.time < meta.time
  \/ meta.known /\ ~file.whole
=============================================================================
