-------------------------- MODULE ResumableTransfer --------------------------
(***************************************************************************)
(* What a resumable download promises, without saying how.  Of the bytes of *)
(* the remote file some are in the output file, and some of those are       *)
(* vouched for by what is kept for the next attempt.  An attempt may stop   *)
(* anywhere.  What is kept is never more than what is there, an attempt     *)
(* does not spoil what is kept, and it completes only with every byte.      *)
(***************************************************************************)
CONSTANT Bytes

VARIABLES
  have,     \* the bytes that are in the output file, at their places
  kept,     \* the bytes the next attempt need not fetch again
  status    \* "stopped", "running" or "complete"

vars == <<have, kept, status>>

Begin ==
  /\ status = "stopped"
  /\ status' = "running"
  /\ UNCHANGED <<have, kept>>

(* An attempt may spoil bytes that nothing vouches for.                    *)
Prepare ==
  /\ status = "running"
  /\ have' \in SUBSET have
  /\ kept \subseteq have'
  /\ UNCHANGED <<kept, status>>

Receive ==
  /\ status = "running"
  /\ have' \in SUBSET Bytes
  /\ have \subseteq have'
  /\ UNCHANGED <<kept, status>>

Keep ==
  /\ status # "stopped"
  /\ kept' \in SUBSET have
  /\ kept \subseteq kept'
  /\ UNCHANGED <<have, status>>

(* All that was kept is forgotten: the next attempt starts from nothing.    *)
Forget ==
  /\ status # "stopped"
  /\ kept' = {}
  /\ UNCHANGED <<have, status>>

Complete ==
  /\ status = "running"
  /\ have = Bytes
  /\ status' = "complete"
  /\ UNCHANGED <<have, kept>>

(* The end of a process, also by a crash, loses nothing.                   *)
End ==
  /\ status # "stopped"
  /\ status' = "stopped"
  /\ UNCHANGED <<have, kept>>

Init == have = {} /\ kept = {} /\ status = "stopped"

Next == Begin \/ Prepare \/ Receive \/ Keep \/ Forget \/ Complete \/ End

Spec == Init /\ [][Next]_vars
=============================================================================
