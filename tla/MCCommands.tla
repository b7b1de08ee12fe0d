------------------------------ MODULE MCCommands ------------------------------
(***************************************************************************)
(* The commands for TLC: a behaviour is one of the command in part.        *)
(***************************************************************************)
EXTENDS UrlCommand, BatchCommand, FtpCommand, TorrentCommand, TuiCommand

VARIABLE part

parts == <<urlVars, batchVars, ftp, torrentVars, tuiVars>>
mcVars == <<parts, part>>

BatchItem(url, out, sum) == [kind |-> "item", url |-> url, out |-> out, sum |-> sum]

(* Urls a and b have the same file name; c has one of its own. *)
MCName  == [u \in {"a", "b", "c"} |-> IF u = "c" THEN "g" ELSE "f"]
MCLines == {[kind |-> "blank"], [kind |-> "bad"],
            BatchItem("a", "", "none"), BatchItem("a", "", "a"), BatchItem("b", "", "b"),
            BatchItem("c", "", "bad"), BatchItem("c", "", "a"), BatchItem("c", "h", "c")}

(* Bound: of the options those that have no say in one another are not all
   combined.  A refused command line ends at once; the hooks are told of a
   download and its checksum; a found checksum is ignored when one is given. *)
MCOptions ==
  {opt \in Options :
     /\ opt.args = "bad" => ~opt.hooks /\ ~opt.stamp /\ ~opt.auto /\ opt.sum = 0
     /\ opt.hooks => ~opt.stamp /\ ~opt.auto
     /\ opt.auto => opt.sum # MaxVersion}

MCUrlNext == UrlNext /\ (runs' # runs => proc'.opt \in MCOptions)

MCInit ==
  /\ UrlInit /\ BatchInit /\ FtpInit /\ TorrentInit /\ TuiInit
  /\ part \in {"url", "batch", "ftp", "torrent", "tui"}
  /\ part # "ftp" => ftp.sum = "none" /\ ftp.old = 0
  /\ part # "tui" => tuiMain.sum = "none"
  /\ part # "torrent" => swarm = [info |-> FALSE, pieces |-> 0]

Quiet == UNCHANGED part

MCNext ==
  \/ part = "url" /\ MCUrlNext /\ Quiet /\ UNCHANGED <<batchVars, ftp, torrentVars, tuiVars>>
  \/ part = "batch" /\ BatchNext /\ Quiet /\ UNCHANGED <<urlVars, ftp, torrentVars, tuiVars>>
  \/ part = "ftp" /\ FtpNext /\ Quiet /\ UNCHANGED <<urlVars, batchVars, torrentVars, tuiVars>>
  \/ part = "torrent" /\ TorrentNext /\ Quiet /\ UNCHANGED <<urlVars, batchVars, ftp, tuiVars>>
  \/ part = "tui" /\ TuiNext /\ Quiet /\ UNCHANGED <<urlVars, batchVars, ftp, torrentVars>>

(* None of the actions the fairness is about is enabled before the first step
   of its command.                                                         *)
MCSpec == MCInit /\ [][MCNext]_mcVars /\ TorrentFairness /\ TuiFairness

(* The types of the two commands with more than one goroutine. *)
TypesOK == UrlTypeOK /\ TuiTypeOK
=============================================================================
