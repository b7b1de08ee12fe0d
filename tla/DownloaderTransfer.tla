------------------------- MODULE DownloaderTransfer --------------------------
(***************************************************************************)
(* The downloader as a resumable transfer of the one URL it is used for.    *)
(***************************************************************************)
EXTENDS Downloader

TheUrl == CHOOSE u \in Urls : TRUE

Bytes == {p \in Offsets : p < Server[TheUrl].length}

Have == {p \in Bytes : HasRemoteByte(TheUrl, p)}

(* Only a whole state file counts: LoadState refuses a torn one.            *)
Kept == IF IsState(stateFile) THEN Claimed(stateFile) ELSE {}

Status == CASE pc = "off"       -> "stopped"
            [] pc = "succeeded" -> "complete"
            [] OTHER            -> "running"

Transfer == INSTANCE ResumableTransfer
              WITH have <- Have, kept <- Kept, status <- Status

(* Every process, killed wherever it may be, is an attempt of a resumable   *)
(* transfer.                                                               *)
TransfersFile == Transfer!Spec
=============================================================================
