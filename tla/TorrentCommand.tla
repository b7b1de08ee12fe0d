---------------------------- MODULE TorrentCommand ----------------------------
(***************************************************************************)
(* burkut FILE.torrent or magnet link: runTorrentDownload of               *)
(* cmd/burkut/main.go with the client of internal/torrent/torrent.go.  The *)
(* torrent library is external: metadata may come or not, pieces arrive.   *)
(***************************************************************************)
EXTENDS Integers

CONSTANT TotalSize   \* the bytes of the torrent, counted in pieces

ASSUME TorrentAssumption == TotalSize \in Nat

VARIABLES
  torrent,   \* the process: at, status, shown, hooks, cancelled, code
  swarm      \* the library: has the metadata, and how many pieces

torrentVars == <<torrent, swarm>>

-----------------------------------------------------------------------------
TorrentReturns(code) == torrent' = [torrent EXCEPT !.at = "exited", !.code = code]

(* NewClient, AddMagnet or AddTorrentFile up to the wait for the metadata. *)
AddTorrent ==
  /\ torrent.at = "add"
  /\ TorrentReturns(1) \/ torrent' = [torrent EXCEPT !.at = "metadata"]
  /\ UNCHANGED swarm

(* The wait for GotInfo does not look at the context. *)
createDownload ==
  /\ torrent.at = "metadata" /\ swarm.info
  /\ torrent' = [torrent EXCEPT !.at = "download", !.status = "downloading"]
  /\ UNCHANGED swarm

(* The ticker: the progress, and the end when all bytes are there. *)
TorrentTick ==
  /\ torrent.at = "download"
  /\ torrent' = IF swarm.pieces >= TotalSize
                THEN [torrent EXCEPT !.shown = swarm.pieces, !.status = "completed",
                                     !.at = "hooks"]
                ELSE [torrent EXCEPT !.shown = swarm.pieces]
  /\ UNCHANGED swarm

(* Mutant: the context is not looked at. *)
NeverCancelled == FALSE /\ UNCHANGED torrentVars

(* The context is done; when the ticker is due too, either may be taken. *)
TorrentCancelled ==
  /\ torrent.at = "download" /\ torrent.cancelled
  /\ TorrentReturns(8)
  /\ UNCHANGED swarm

(* The completion hooks are started, and the process ends. *)
TorrentHooks ==
  /\ torrent.at = "hooks"
  /\ torrent' = [torrent EXCEPT !.at = "exited", !.code = 0, !.hooks = TRUE]
  /\ UNCHANGED swarm

TorrentInterrupt ==
  /\ torrent.at # "exited" /\ ~torrent.cancelled
  /\ torrent' = [torrent EXCEPT !.cancelled = TRUE]
  /\ UNCHANGED swarm

SwarmInfo ==
  /\ torrent.at \notin {"add", "exited"} /\ ~swarm.info
  /\ swarm' = [swarm EXCEPT !.info = TRUE]
  /\ UNCHANGED torrent

(* A piece arrives, or one on disk turns out to be damaged. *)
SwarmPiece ==
  /\ torrent.at \in {"download", "hooks"}
  /\ swarm' \in {[swarm EXCEPT !.pieces = n] : n \in {swarm.pieces - 1, swarm.pieces + 1}
                                                       \cap 0 .. TotalSize}
  /\ UNCHANGED torrent

TorrentInit ==
  /\ torrent = [at |-> "add", status |-> "pending", shown |-> 0, hooks |-> FALSE,
                cancelled |-> FALSE, code |-> -1]
  /\ swarm \in [info : BOOLEAN, pieces : 0 .. TotalSize]

TorrentNext ==
  \/ AddTorrent \/ createDownload \/ TorrentTick \/ TorrentCancelled \/ TorrentHooks
  \/ TorrentInterrupt \/ SwarmInfo \/ SwarmPiece

TorrentSpec == TorrentInit /\ [][TorrentNext]_torrentVars

(* The goroutine runs; select may prefer the ticker, but not for ever. *)
TorrentFairness ==
  /\ WF_torrentVars(createDownload) /\ WF_torrentVars(TorrentTick)
  /\ WF_torrentVars(TorrentCancelled) /\ WF_torrentVars(TorrentHooks)

-----------------------------------------------------------------------------
(* What the client reports as completed was all there when it looked: the
   status, the progress shown and the exit code agree.                     *)
TorrentCompletes ==
  /\ torrent.status = "completed" => torrent.shown = TotalSize
  /\ torrent.code = 0 => torrent.status = "completed" /\ torrent.hooks
  /\ torrent.code = 8 => torrent.cancelled /\ torrent.status = "downloading" /\ ~torrent.hooks

(* A download that is interrupted ends, with all pieces or without; an
   interrupt during the wait for the metadata does not end it.             *)
InterruptedEnds ==
  (torrent.at = "download" /\ torrent.cancelled) ~> torrent.at = "exited"

(* A torrent ends when it is interrupted, and tells then how far it came. *)
TorrentEndsTruly == []TorrentCompletes /\ InterruptedEnds
=============================================================================
