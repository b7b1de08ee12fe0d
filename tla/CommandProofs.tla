----------------------------- MODULE CommandProofs -----------------------------
(***************************************************************************)
(* What the commands tell is true, each for every value of its constants:  *)
(* a transfer by FTP of any size, a torrent of any size, any number of     *)
(* processes over any number of urls and versions, a batch file of any     *)
(* number of lines, the terminal UI over a file of any size.               *)
(***************************************************************************)
EXTENDS MCCommands, FiniteSetTheorems, TLAPS

-----------------------------------------------------------------------------
(* FTP: before os.Create the file is the old one; after it, the beginning of
   the remote one.                                                         *)
FtpSteps == {"head", "get", "create", "read", "verify", "exited"}
FtpCodes == {-1, 0, 1, 3, 6, 8}

FtpRecord ==
  [at : FtpSteps, sum : {"none", "bad", "given"}, file : Nat, old : Nat,
   cancelled : BOOLEAN, code : FtpCodes]

FtpFile ==
  /\ ftp.at # "exited" => ftp.code = -1
  /\ ftp.at \in {"head", "get", "create"} => ftp.file = ftp.old
  /\ ftp.at \in {"read", "verify"} => ftp.file <= FtpSize
  /\ FtpLeavesFile

FtpInv == ftp \in FtpRecord /\ FtpFile

LEMMA FtpInvInit == FtpInit => FtpInv
<1> SUFFICES ASSUME FtpInit PROVE FtpInv
  OBVIOUS
<1>1. PICK sum \in {"none", "bad", "given"}, old \in 0 .. FtpSize + 1 :
        ftp = [at |-> "head", sum |-> sum, file |-> old, old |-> old, cancelled |-> FALSE,
               code |-> -1]
  BY DEF FtpInit
<1>2. old \in Nat
  BY FtpAssumption
<1>3. ftp \in FtpRecord
  BY <1>1, <1>2 DEF FtpRecord, FtpSteps, FtpCodes
<1>4. QED
  BY <1>1, <1>2, <1>3 DEF FtpInv, FtpFile, FtpLeavesFile, FtpVerified, FtpNoOldTail

(* Every step but the interrupt moves on, with a file and a code. *)
FtpMoves(at, file, code) ==
  /\ ftp' \in FtpRecord
  /\ ftp'.at = at /\ ftp'.file = file /\ ftp'.code = code
  /\ ftp'.old = ftp.old /\ ftp'.sum = ftp.sum

LEMMA FtpChange ==
  ASSUME ftp \in FtpRecord, NEW at \in FtpSteps, NEW file \in Nat, NEW code \in FtpCodes,
         ftp' = [ftp EXCEPT !.at = at, !.file = file, !.code = code]
  PROVE  FtpMoves(at, file, code)
  BY DEF FtpRecord, FtpMoves

LEMMA FtpGoes ==
  ASSUME ftp \in FtpRecord, NEW at \in FtpSteps, ftp' = [ftp EXCEPT !.at = at]
  PROVE  FtpMoves(at, ftp.file, ftp.code)
  BY DEF FtpRecord, FtpMoves

LEMMA FtpEnds ==
  ASSUME ftp \in FtpRecord, NEW code \in FtpCodes, FtpReturns(code)
  PROVE  FtpMoves("exited", ftp.file, code)
  BY DEF FtpRecord, FtpMoves, FtpReturns, FtpSteps

LEMMA FtpInvStep == FtpInv /\ [FtpNext]_ftp => FtpInv'
<1> SUFFICES ASSUME FtpInv, [FtpNext]_ftp PROVE FtpInv'
  OBVIOUS
<1>0. ftp \in FtpRecord /\ ftp.file \in Nat /\ FtpSize \in Nat /\ ftp.code \in FtpCodes
  BY FtpAssumption DEF FtpInv, FtpRecord
<1>1. CASE FtpHead \/ FtpGet \/ (FtpCreate /\ FtpReturns(1))
  <2>1. PICK at \in {"get", "create", "exited"}, code \in {-1, 1, 3} :
          FtpMoves(at, ftp.file, code) /\ (at # "exited" <=> code = -1)
    BY <1>0, <1>1, FtpGoes, FtpEnds
    DEF FtpHead, FtpGet, FtpSteps, FtpCodes, FtpInv, FtpFile
  <2>2. ftp.at \in {"head", "get", "create"}
    BY <1>1 DEF FtpHead, FtpGet, FtpCreate
  <2>3. QED
    BY <2>1, <2>2
    DEF FtpMoves, FtpInv, FtpFile, FtpLeavesFile, FtpVerified, FtpNoOldTail
<1>2. CASE ftp.at = "create" /\ ftp' = [ftp EXCEPT !.at = "read", !.file = 0]
  <2>1. FtpMoves("read", 0, -1)
    BY <1>0, <1>2 DEF FtpMoves, FtpInv, FtpFile, FtpRecord, FtpSteps
  <2>2. QED
    BY <1>0, <2>1
    DEF FtpMoves, FtpInv, FtpFile, FtpLeavesFile, FtpVerified, FtpNoOldTail
<1>3. CASE FtpCancelled \/ FtpWriteFails
  <2>1. PICK code \in {1, 8} : FtpMoves("exited", ftp.file, code) /\ ftp.at = "read"
    BY <1>0, <1>3, FtpEnds DEF FtpCancelled, FtpWriteFails, FtpCodes
  <2>2. QED
    BY <1>0, <2>1
    DEF FtpMoves, FtpInv, FtpFile, FtpLeavesFile, FtpVerified, FtpNoOldTail
<1>4. CASE FtpRead
  <2>1. PICK n \in 0 .. FtpSize - ftp.file, next \in {"read", "verify", "error"} :
          ftp' = [ftp EXCEPT !.file = @ + n,
                             !.at = IF next = "error" THEN "exited" ELSE next,
                             !.code = IF next = "error" THEN 3 ELSE @]
    BY <1>4 DEF FtpRead
  <2>2. ftp.file + n \in Nat /\ ftp.file + n <= FtpSize
    BY <1>0
  <2>3. PICK at \in {"read", "verify", "exited"}, code \in {-1, 3} :
          FtpMoves(at, ftp.file + n, code) /\ (at # "exited" <=> code = -1)
    <3>1. CASE next = "error"
      <4>1. FtpMoves("exited", ftp.file + n, 3)
        BY <1>0, <2>1, <2>2, <3>1 DEF FtpMoves, FtpRecord, FtpSteps, FtpCodes
      <4>2. QED
        BY <4>1
    <3>2. CASE next # "error"
      <4>1. FtpMoves(next, ftp.file + n, ftp.code)
        BY <1>0, <2>1, <2>2, <3>2 DEF FtpMoves, FtpRecord, FtpSteps, FtpCodes
      <4>2. QED
        BY <1>4, <3>2, <4>1 DEF FtpRead, FtpInv, FtpFile
    <3>3. QED
      BY <3>1, <3>2
  <2>4. QED
    BY <2>2, <2>3
    DEF FtpMoves, FtpInv, FtpFile, FtpLeavesFile, FtpVerified, FtpNoOldTail
<1>5. CASE FtpVerify
  <2>1. PICK code \in {0, 6} :
          /\ FtpReturns(code) /\ ftp.at = "verify"
          /\ code = 0 => ftp.sum = "none" \/ ftp.file = FtpSize
    <3>1. ftp.sum \in {"none", "bad", "given"} /\ ftp.at = "verify"
      BY <1>0, <1>5 DEF FtpVerify, FtpRecord
    <3>2. \/ ftp.sum = "none" /\ FtpReturns(0)
          \/ ftp.file = FtpSize /\ FtpReturns(0)
          \/ FtpReturns(6)
      BY <1>5, <3>1 DEF FtpVerify
    <3>3. QED
      BY <3>1, <3>2
  <2>2. FtpMoves("exited", ftp.file, code)
    BY <1>0, <2>1, FtpEnds DEF FtpCodes
  <2>3. QED
    BY <1>0, <2>1, <2>2
    DEF FtpMoves, FtpInv, FtpFile, FtpLeavesFile, FtpVerified, FtpNoOldTail
<1>6. CASE FtpInterrupt \/ UNCHANGED ftp
  <2>1. FtpMoves(ftp.at, ftp.file, ftp.code)
    BY <1>0, <1>6 DEF FtpInterrupt, FtpMoves, FtpRecord
  <2>2. QED
    BY <2>1 DEF FtpMoves, FtpInv, FtpFile, FtpLeavesFile, FtpVerified, FtpNoOldTail
<1>7. QED
  BY <1>1, <1>2, <1>3, <1>4, <1>5, <1>6 DEF FtpNext, FtpCreate

(* An FTP transfer with a checksum succeeds with the whole file only, and one
   that has begun leaves nothing of an older, longer file, wherever the server
   ends it and wherever it is interrupted (runFTPDownload).                 *)
THEOREM FtpAlwaysLeavesFile == FtpSpec => []FtpLeavesFile
<1>1. FtpInv => FtpLeavesFile
  BY DEF FtpInv, FtpFile
<1>2. QED
  BY <1>1, FtpInvInit, FtpInvStep, PTL DEF FtpSpec

-----------------------------------------------------------------------------
(* A torrent: it is completed in the tick that has seen all pieces. *)
TorrentSteps == {"add", "metadata", "download", "hooks", "exited"}
TorrentCodes == {-1, 0, 1, 8}

TorrentRecord ==
  [at : TorrentSteps, status : {"pending", "downloading", "completed"},
   shown : 0 .. TotalSize, hooks : BOOLEAN, cancelled : BOOLEAN, code : TorrentCodes]

SwarmRecord == [info : BOOLEAN, pieces : 0 .. TotalSize]

TorrentTold ==
  /\ torrent.at = "download" => torrent.status = "downloading"
  /\ torrent.at = "hooks" => torrent.status = "completed"
  /\ torrent.at # "exited" => torrent.code = -1 /\ torrent.hooks = FALSE
  /\ torrent.status = "completed" => torrent.shown = TotalSize
  /\ torrent.code = 0 => torrent.status = "completed" /\ torrent.hooks = TRUE
  /\ torrent.code = 8 =>
       torrent.cancelled = TRUE /\ torrent.status = "downloading" /\ torrent.hooks = FALSE

TorrentInv == torrent \in TorrentRecord /\ swarm \in SwarmRecord /\ TorrentTold

LEMMA TorrentInvInit == TorrentInit => TorrentInv
  BY TorrentAssumption
  DEF TorrentInit, TorrentInv, TorrentTold, TorrentRecord, TorrentSteps, TorrentCodes, SwarmRecord

LEMMA TorrentEnds ==
  ASSUME torrent \in TorrentRecord, NEW code \in TorrentCodes, TorrentReturns(code)
  PROVE  /\ torrent' \in TorrentRecord
         /\ torrent'.at = "exited" /\ torrent'.code = code
         /\ torrent'.status = torrent.status /\ torrent'.shown = torrent.shown
         /\ torrent'.hooks = torrent.hooks /\ torrent'.cancelled = torrent.cancelled
  BY DEF TorrentReturns, TorrentRecord, TorrentSteps

LEMMA TorrentInvStep == TorrentInv /\ [TorrentNext]_torrentVars => TorrentInv'
<1> SUFFICES ASSUME TorrentInv, [TorrentNext]_torrentVars PROVE TorrentInv'
  OBVIOUS
<1>0. torrent \in TorrentRecord /\ swarm \in SwarmRecord /\ TotalSize \in Nat
  BY TorrentAssumption DEF TorrentInv
<1>1. CASE AddTorrent
  <2>1. CASE TorrentReturns(1)
    BY <1>0, <1>1, <2>1, TorrentEnds DEF AddTorrent, TorrentInv, TorrentTold, TorrentCodes
  <2>2. CASE torrent' = [torrent EXCEPT !.at = "metadata"]
    <3>1. torrent' \in TorrentRecord /\ torrent'.at = "metadata"
      BY <1>0, <2>2 DEF TorrentRecord, TorrentSteps
    <3>2. QED
      BY <1>0, <1>1, <2>2, <3>1 DEF AddTorrent, TorrentInv, TorrentTold, TorrentRecord
  <2>3. QED
    BY <1>1, <2>1, <2>2 DEF AddTorrent
<1>2. CASE createDownload
  <2>1. torrent' \in TorrentRecord /\ torrent.at = "metadata"
    BY <1>0, <1>2 DEF createDownload, TorrentRecord, TorrentSteps
  <2>2. /\ torrent'.at = "download" /\ torrent'.status = "downloading" /\ swarm' = swarm
        /\ torrent'.code = torrent.code /\ torrent'.hooks = torrent.hooks
    BY <1>0, <1>2 DEF createDownload, TorrentRecord
  <2>3. QED
    BY <1>0, <2>1, <2>2 DEF TorrentInv, TorrentTold
<1>3. CASE TorrentTick
  <2>1. swarm.pieces \in 0 .. TotalSize
    BY <1>0 DEF SwarmRecord
  <2>2. CASE swarm.pieces >= TotalSize
    <3>1. swarm.pieces = TotalSize
      BY <1>0, <2>1, <2>2
    <3>2. torrent' = [torrent EXCEPT !.shown = swarm.pieces, !.status = "completed", !.at = "hooks"]
      BY <1>3, <2>2 DEF TorrentTick
    <3>3. /\ torrent' \in TorrentRecord
          /\ torrent'.at = "hooks" /\ torrent'.status = "completed" /\ torrent'.shown = TotalSize
          /\ torrent'.code = torrent.code /\ torrent'.hooks = torrent.hooks
      BY <1>0, <2>1, <3>1, <3>2 DEF TorrentRecord, TorrentSteps
    <3>4. QED
      BY <1>0, <1>3, <3>3 DEF TorrentTick, TorrentInv, TorrentTold
  <2>3. CASE ~(swarm.pieces >= TotalSize)
    <3>1. torrent' = [torrent EXCEPT !.shown = swarm.pieces]
      BY <1>3, <2>3 DEF TorrentTick
    <3>2. /\ torrent' \in TorrentRecord
          /\ torrent'.at = torrent.at /\ torrent'.status = torrent.status
          /\ torrent'.code = torrent.code /\ torrent'.hooks = torrent.hooks
      BY <1>0, <2>1, <3>1 DEF TorrentRecord
    <3>3. QED
      BY <1>0, <1>3, <3>2 DEF TorrentTick, TorrentInv, TorrentTold
  <2>4. QED
    BY <2>2, <2>3
<1>4. CASE TorrentCancelled
  <2>1. TorrentReturns(8) /\ torrent.at = "download" /\ torrent.cancelled = TRUE /\ swarm' = swarm
    BY <1>0, <1>4 DEF TorrentCancelled, TorrentRecord
  <2>2. QED
    BY <1>0, <2>1, TorrentEnds DEF TorrentInv, TorrentTold, TorrentCodes
<1>5. CASE TorrentHooks
  <2>1. torrent' = [torrent EXCEPT !.at = "exited", !.code = 0, !.hooks = TRUE]
    BY <1>5 DEF TorrentHooks
  <2>2. /\ torrent' \in TorrentRecord
        /\ torrent'.at = "exited" /\ torrent'.code = 0 /\ torrent'.hooks = TRUE
        /\ torrent'.status = torrent.status /\ torrent'.shown = torrent.shown
    BY <1>0, <2>1 DEF TorrentRecord, TorrentSteps, TorrentCodes
  <2>3. QED
    BY <1>0, <1>5, <2>2 DEF TorrentHooks, TorrentInv, TorrentTold
<1>6. CASE TorrentInterrupt
  <2>1. /\ torrent' \in TorrentRecord
        /\ torrent'.at = torrent.at /\ torrent'.code = torrent.code
        /\ torrent'.hooks = torrent.hooks /\ torrent'.cancelled = TRUE
        /\ torrent'.status = torrent.status /\ torrent'.shown = torrent.shown
    BY <1>0, <1>6 DEF TorrentInterrupt, TorrentRecord
  <2>2. QED
    BY <1>0, <1>6, <2>1 DEF TorrentInterrupt, TorrentInv, TorrentTold
<1>7. CASE SwarmInfo
  BY <1>0, <1>7 DEF SwarmInfo, SwarmRecord, TorrentInv, TorrentTold
<1>8. CASE SwarmPiece
  <2>1. PICK n \in 0 .. TotalSize : swarm' = [swarm EXCEPT !.pieces = n]
    BY <1>8 DEF SwarmPiece
  <2>2. swarm' \in SwarmRecord
    BY <1>0, <2>1 DEF SwarmRecord
  <2>3. QED
    BY <1>0, <1>8, <2>2 DEF SwarmPiece, TorrentInv, TorrentTold
<1>9. CASE UNCHANGED torrentVars
  BY <1>9 DEF torrentVars, TorrentInv, TorrentTold
<1>10. QED
  BY <1>1, <1>2, <1>3, <1>4, <1>5, <1>6, <1>7, <1>8, <1>9 DEF TorrentNext

(* A torrent reported as completed had all its pieces when the client looked,
   and its exit code, status and hooks tell of one and the same end, whatever
   the swarm does and whenever it is interrupted (Client.Download).         *)
THEOREM TorrentAlwaysCompletes == TorrentSpec => []TorrentCompletes
<1>1. TorrentInv => TorrentCompletes
  BY DEF TorrentInv, TorrentTold, TorrentCompletes, TorrentRecord
<1>2. QED
  BY <1>1, TorrentInvInit, TorrentInvStep, PTL DEF TorrentSpec

-----------------------------------------------------------------------------
(* A url or a metalink: runDownload, one process after another. *)
(* Where the process is, what it returned and what it found in the file; a
   checksum that was asked for is the one that is compared.                *)
CodesTrue ==
  /\ proc.at \notin {"return", "exited"} => proc.code = -1 /\ proc.skipped = FALSE
  /\ proc.at = "return" => proc.code # -1
  /\ proc.opt.cmd = "url" => proc.first = 1
  /\ proc.opt.cmd = "metalink" => proc.try = proc.first
  /\ proc.at = "fetch" => proc.opt.sum = 0
  /\ proc.at \in {"head", "stamp", "get", "body", "verify", "complete"} /\ proc.opt.sum # 0 =>
       proc.expected = proc.opt.sum
  /\ proc.at = "complete" => proc.expected \in {0, disk.is}
  /\ proc.code = 0 /\ proc.skipped = FALSE =>
       /\ proc.expected \in {0, disk.is}
       /\ proc.opt.sum # 0 => proc.expected = proc.opt.sum
  /\ proc.code = 6 => proc.expected \notin {0, disk.is}
  /\ proc.code = 8 => proc.cancelled = TRUE
  /\ proc.code = 2 => proc.opt.args = "bad" \/ proc.opt.cmd = "metalink"
  /\ proc.at = "exited" /\ proc.opt.cmd = "metalink" => proc.code \in {-1, 0, 2, 3}

(* The one runDownload of a url command starts no hook before it knows its
   result, and then one for that.                                          *)
HooksTrue ==
  proc.opt.cmd = "url" =>
    /\ \A u \in Urls \ {1} : hook[u] = NoHook
    /\ \/ hook[1] = NoHook
       \/ proc.at = "report" /\ hook[1].event = "error"
       \/ /\ proc.at \in {"return", "exited"}
          /\ \/ proc.code = -1
             \/ hook[1].event = "complete" /\ proc.code = 0
             \/ hook[1].event = "error" /\ proc.code \in {3, 8}

(* A file dated by a download of all its bytes is no older than its date or, if
   it is of two versions, than a version there is: its date is an earlier one. *)
FileTrue ==
  disk.from # 0 =>
    \/ disk.is \in Versions /\ disk.time <= disk.is
    \/ disk.is = Mixed /\ disk.time < serves[disk.from]

(* The date was asked for before the first byte, so that all versions that came
   from that url are as young; at the end the file is of one, or of two.    *)
BytesTrue ==
  /\ proc.meta.time <= serves[proc.first]
  /\ proc.at \in {"prepare", "head", "stamp", "get"} => proc.body = {}
  /\ proc.try = proc.first =>
       \A v \in proc.body : proc.meta.time <= v /\ v <= serves[proc.first]
  /\ proc.at = "body" => disk.from = 0 /\ (proc.body # {} => disk.is = Part)
  /\ proc.at \in {"fetch", "verify", "complete"} /\ Entire =>
       \/ disk.is \in Versions /\ proc.meta.time <= disk.is
       \/ disk.is = Mixed /\ proc.meta.time < serves[proc.first]

(* What is decided on the dates holds when they are compared, and after. *)
SkipTrue ==
  /\ proc.at = "stamp" /\ disk.from = proc.first /\ disk.is = Mixed =>
       proc.meta.time = 0 \/ disk.time < proc.meta.time
  /\ proc.skipped = TRUE /\ disk.from = proc.first => disk.is >= proc.meta.time

DatesTrue == FileTrue /\ BytesTrue /\ SkipTrue

UrlInv == UrlTypeOK /\ CodesTrue /\ HooksTrue /\ DatesTrue

UrlCodes == {-1, 0, 1, 2, 3, 6, 8}

ProcRecord ==
  [opt : Options, at : UrlSteps, first : Urls, try : Urls, cancelled : BOOLEAN,
   expected : {0, Junk} \cup Versions, meta : [time : {0} \cup Versions, known : BOOLEAN],
   kept : SUBSET Versions, body : SUBSET Versions, skipped : BOOLEAN, code : UrlCodes]

DiskRecord ==
  [is : {NoFile, Part, Mixed} \cup Versions, whole : BOOLEAN, time : {0} \cup Versions,
   from : {0} \cup Urls]

LeftRecord == [url : {0} \cup Urls, of : SUBSET Versions]

HookRecord ==
  [event : {"none", "complete", "error"}, at : {"none", "spawned", "started", "lost"}]

LEMMA UrlTypes ==
  UrlTypeOK <=> /\ serves \in [Urls -> Versions] /\ disk \in DiskRecord
                /\ proc \in ProcRecord /\ hook \in [Urls -> HookRecord]
                /\ runs \in 0 .. MaxProcesses /\ left \in LeftRecord
  BY DEF UrlTypeOK, ProcRecord, DiskRecord, HookRecord, LeftRecord, UrlCodes

LEMMA UrlNumbers ==
  /\ 1 \in Urls /\ 1 \in Versions /\ MaxProcesses \in Nat /\ NumUrls \in Nat /\ MaxVersion \in Nat
  /\ \A u \in Urls : u \in Nat
  /\ \A v \in {0} \cup Versions : v \in Nat
  /\ NoFile = 0 /\ Part = -1 /\ Mixed = -2 /\ Junk = -3
  BY UrlAssumption DEF Urls, Versions, NoFile, Part, Mixed, Junk

(* Most steps change where the process is and what it returns, and nothing
   else of it.                                                             *)
ProcKeeps ==
  /\ proc'.opt = proc.opt /\ proc'.first = proc.first /\ proc'.try = proc.try
  /\ proc'.cancelled = proc.cancelled /\ proc'.expected = proc.expected
  /\ proc'.meta = proc.meta /\ proc'.skipped = proc.skipped
  /\ \/ proc'.kept = proc.kept /\ proc'.body = proc.body
     \/ proc'.kept = {} /\ proc'.body = {}

Moves(at, code) == proc' \in ProcRecord /\ proc'.at = at /\ proc'.code = code /\ ProcKeeps

LEMMA GoMoves ==
  ASSUME proc \in ProcRecord, NEW at \in UrlSteps, Go(at)
  PROVE  Moves(at, proc.code) /\ proc'.kept = proc.kept /\ proc'.body = proc.body
  BY DEF Go, Moves, ProcKeeps, ProcRecord

LEMMA ReturnMoves ==
  ASSUME proc \in ProcRecord, NEW code \in UrlCodes, Return(code)
  PROVE  Moves("return", code)
<1>1. proc' = [proc EXCEPT !.at = "return", !.code = code, !.kept = {}, !.body = {}]
  BY DEF Return, Ends
<1>2. proc' \in ProcRecord
  BY <1>1 DEF ProcRecord, UrlSteps
<1>3. QED
  BY <1>1, <1>2 DEF Moves, ProcKeeps, ProcRecord

(* What is true of the dates stays so when the process goes to a step at which
   less is said of them, or the same of the same bytes.                    *)
LEMMA DatesMove ==
  ASSUME UrlInv, ProcKeeps, UNCHANGED <<serves, disk>>,
         proc'.at \notin {"prepare", "head", "stamp", "get", "body"},
         \/ proc'.at \notin {"fetch", "verify", "complete"}
         \/ proc.at \in {"fetch", "verify", "complete"}
  PROVE  DatesTrue'
<1>1. FileTrue'
  BY DEF UrlInv, DatesTrue, FileTrue
<1>2. BytesTrue'
  <2>1. proc'.body \subseteq proc.body /\ (Entire' => Entire)
    BY DEF ProcKeeps, Entire
  <2>2. QED
    BY <2>1 DEF UrlInv, DatesTrue, BytesTrue, ProcKeeps
<1>3. SkipTrue'
  BY DEF UrlInv, DatesTrue, SkipTrue, ProcKeeps
<1>4. QED
  BY <1>1, <1>2, <1>3 DEF DatesTrue

WasCancelled == proc.cancelled = TRUE

(* An error that is returned, before or after the download. *)
LEMMA ErrorReturned ==
  ASSUME UrlInv, NEW code \in {1, 2, 3, 6, 8}, Return(code),
         UNCHANGED <<serves, disk, hook, runs, left>>,
         proc.at \notin {"return", "exited"},
         code = 2 => proc.opt.args = "bad",
         code = 6 => proc.expected \notin {0, disk.is},
         code = 8 => WasCancelled,
         proc.at = "report" => code \in {3, 8}
  PROVE  UrlInv'
<1>1. Moves("return", code)
  BY ReturnMoves, UrlTypes DEF UrlInv, UrlCodes
<1>2. UrlTypeOK'
  BY <1>1, UrlTypes DEF UrlInv, Moves, UrlTypeOK, ProcRecord, UrlCodes
<1>3. CodesTrue'
  BY <1>1 DEF UrlInv, Moves, ProcKeeps, CodesTrue, WasCancelled
<1>4. HooksTrue'
  BY <1>1 DEF UrlInv, Moves, ProcKeeps, HooksTrue
<1>5. DatesTrue'
  BY <1>1, DatesMove DEF Moves
<1>6. QED
  BY <1>2, <1>3, <1>4, <1>5 DEF UrlInv

LEMMA StartingIsProc ==
  ASSUME NEW opt \in Options, NEW u \in Urls
  PROVE  /\ Starting(opt, u) \in ProcRecord
         /\ Starting(opt, u).opt = opt /\ Starting(opt, u).at = "prepare"
         /\ Starting(opt, u).first = u /\ Starting(opt, u).try = u
         /\ Starting(opt, u).skipped = FALSE /\ Starting(opt, u).code = -1
         /\ Starting(opt, u).meta.time = 0
         /\ Starting(opt, u).kept = {} /\ Starting(opt, u).body = {}
  BY DEF Starting, ProcRecord, UrlSteps, UrlCodes

LEMMA NoHookIsHook == NoHook \in HookRecord
  BY DEF NoHook, HookRecord

LEMMA UrlInvInit == UrlInit => UrlInv
<1> SUFFICES ASSUME UrlInit PROVE UrlInv
  OBVIOUS
<1>1. PICK opt \in Options, url \in Urls :
        opt.cmd = "url" /\ url = 1 /\ proc = [Starting(opt, url) EXCEPT !.at = "exited"]
  <2> DEFINE opt == [cmd |-> "url", args |-> "ok", sum |-> 0, auto |-> FALSE,
                     stamp |-> FALSE, hooks |-> FALSE]
  <2>1. opt \in Options /\ opt.cmd = "url"
    BY DEF Options
  <2>2. proc = [Starting(opt, 1) EXCEPT !.at = "exited"]
    BY DEF UrlInit
  <2> HIDE DEF opt
  <2>3. QED
    BY <2>1, <2>2, UrlNumbers
<1> DEFINE start == Starting(opt, url)
<1>2. /\ start \in ProcRecord /\ start.opt = opt /\ start.first = 1 /\ start.skipped = FALSE
      /\ start.try = 1 /\ start.code = -1 /\ start.meta.time = 0 /\ start.body = {}
  <2>1. opt \in Options /\ url \in Urls /\ url = 1
    BY <1>1
  <2>2. PICK p : p = Starting(opt, url)
    OBVIOUS
  <2>3. /\ p \in ProcRecord /\ p.opt = opt /\ p.first = url /\ p.try = url
        /\ p.skipped = FALSE /\ p.code = -1 /\ p.meta.time = 0 /\ p.body = {}
    <3>1. /\ p.opt = opt /\ p.first = url /\ p.try = url /\ p.skipped = FALSE /\ p.code = -1
          /\ p.meta.time = 0 /\ p.body = {}
      BY ONLY <2>2 DEF Starting
    <3>2. Starting(opt, url) \in ProcRecord
      BY ONLY <2>1, StartingIsProc
    <3>3. QED
      BY ONLY <2>2, <3>1, <3>2
  <2>4. QED
    BY <2>1, <2>2, <2>3
<1> HIDE DEF start
<1>4. /\ proc \in ProcRecord /\ proc.opt = opt /\ proc.first = 1 /\ proc.skipped = FALSE
      /\ proc.code = -1 /\ proc.meta.time = 0 /\ proc.at = "exited" /\ proc.body = {}
  <2>1. proc = [start EXCEPT !.at = "exited"]
    BY <1>1 DEF start
  <2>2. QED
    BY <1>2, <2>1 DEF ProcRecord, UrlSteps
<1>5. serves \in [Urls -> Versions] /\ \A u \in Urls : serves[u] = 1
  BY UrlNumbers DEF UrlInit
<1>6. UrlTypeOK
  <2>1. disk \in DiskRecord
    BY UrlNumbers DEF UrlInit, DiskRecord
  <2>2. hook \in [Urls -> HookRecord] /\ runs \in 0 .. MaxProcesses /\ left \in LeftRecord
    <3>1. hook = [u \in Urls |-> NoHook] /\ runs = 0 /\ left \in LeftRecord
      BY DEF UrlInit, NoLeft, LeftRecord
    <3>2. hook \in [Urls -> HookRecord]
      BY <3>1, NoHookIsHook
    <3>3. runs \in 0 .. MaxProcesses
      BY <3>1, UrlAssumption
    <3>4. QED
      BY <3>1, <3>2, <3>3
  <2>3. QED
    BY <1>4, <1>5, <2>1, <2>2, UrlTypes
<1>7. CodesTrue
  BY <1>1, <1>4 DEF CodesTrue
<1>8. HooksTrue
  BY <1>4 DEF HooksTrue, UrlInit
<1>9. DatesTrue
  <2>1. disk.from = 0 /\ serves[1] = 1
    BY <1>5, UrlNumbers DEF UrlInit
  <2>2. QED
    BY <1>4, <2>1 DEF DatesTrue, FileTrue, BytesTrue, SkipTrue
<1>10. QED
  BY <1>6, <1>7, <1>8, <1>9 DEF UrlInv

(* A process begins, or the next url of a metalink. *)
LEMMA Started ==
  ASSUME UrlInv, NEW opt \in Options, NEW u \in Urls, proc' = Starting(opt, u),
         opt.cmd = "url" => u = 1 /\ hook' = [v \in Urls |-> NoHook],
         hook' = hook \/ hook' = [v \in Urls |-> NoHook], runs' \in 0 .. MaxProcesses,
         UNCHANGED <<serves, disk, left>>
  PROVE  UrlInv'
<1>1. /\ proc' \in ProcRecord /\ proc'.opt = opt /\ proc'.at = "prepare" /\ proc'.first = u
      /\ proc'.try = u /\ proc'.skipped = FALSE /\ proc'.code = -1 /\ proc'.meta.time = 0
      /\ proc'.kept = {} /\ proc'.body = {}
  <2>1. PICK p : p = Starting(opt, u)
    OBVIOUS
  <2>2. /\ p.opt = opt /\ p.at = "prepare" /\ p.first = u /\ p.try = u /\ p.skipped = FALSE
        /\ p.code = -1 /\ p.meta.time = 0 /\ p.kept = {} /\ p.body = {}
    BY ONLY <2>1 DEF Starting
  <2>3. opt \in Options /\ u \in Urls
    OBVIOUS
  <2>4. Starting(opt, u) \in ProcRecord
    BY ONLY <2>3, StartingIsProc
  <2>5. proc' = p
    BY <2>1
  <2>6. QED
    BY ONLY <2>1, <2>2, <2>4, <2>5
<1>2. UrlTypeOK'
  BY <1>1, NoHookIsHook, UrlTypes DEF UrlInv, UrlTypeOK, ProcRecord, HookRecord, UrlCodes
<1>3. opt.cmd \in {"url", "metalink"}
  BY DEF Options
<1>4. CodesTrue'
  BY <1>1, <1>3 DEF CodesTrue
<1>5. HooksTrue'
  BY <1>1, UrlNumbers DEF HooksTrue
<1>6. DatesTrue'
  <2>1. serves[u] \in Nat
    BY UrlNumbers, UrlTypes DEF UrlInv
  <2>2. QED
    BY <1>1, <2>1 DEF UrlInv, DatesTrue, FileTrue, BytesTrue, SkipTrue
<1>7. QED
  BY <1>2, <1>4, <1>5, <1>6 DEF UrlInv

(* A hook that is running, or is not, says the same of the result. *)
LEMMA HookMoves ==
  ASSUME UrlInv, NEW u \in Urls, NEW at \in {"started", "lost"}, hook[u].at = "spawned",
         hook' = [hook EXCEPT ![u].at = at], UNCHANGED <<serves, disk, proc, runs, left>>
  PROVE  UrlInv'
<1>1. hook \in [Urls -> HookRecord]
  BY UrlTypes DEF UrlInv
<1>2. /\ hook' \in [Urls -> HookRecord] /\ hook'[u].event = hook[u].event
      /\ \A v \in Urls \ {u} : hook'[v] = hook[v]
  BY <1>1 DEF HookRecord
<1>3. hook[u] # NoHook
  BY DEF NoHook
<1>4. UrlTypeOK'
  BY <1>2, UrlTypes DEF UrlInv, UrlTypeOK, HookRecord
<1>5. HooksTrue'
  BY <1>2, <1>3, UrlNumbers DEF UrlInv, HooksTrue
<1>6. CodesTrue' /\ DatesTrue'
  BY DEF UrlInv, CodesTrue, DatesTrue, FileTrue, BytesTrue, SkipTrue, Entire
<1>7. QED
  BY <1>4, <1>5, <1>6 DEF UrlInv

LEMMA HooksDieKeeps ==
  ASSUME hook \in [Urls -> HookRecord], HooksDie
  PROVE  /\ hook' \in [Urls -> HookRecord]
         /\ \A u \in Urls : /\ hook'[u].event = hook[u].event
                            /\ hook[u] = NoHook => hook'[u] = NoHook
  BY DEF HooksDie, HookRecord, NoHook

(* Before the download has ended, the process moves on and tells nothing. *)
LEMMA MovedOn ==
  ASSUME UrlInv, proc' \in ProcRecord, UNCHANGED <<serves, disk, hook, runs, left>>,
         proc.at \in {"prepare", "head", "stamp", "fetch", "verify"},
         proc'.opt = proc.opt, proc'.first = proc.first, proc'.try = proc.try,
         proc'.cancelled = proc.cancelled, proc'.skipped = proc.skipped,
         proc'.code = proc.code, proc'.kept = proc.kept, proc'.body = proc.body,
         proc.at = "prepare" \/ proc.at = "fetch" \/ proc'.expected = proc.expected,
         proc.at = "prepare" => proc'.expected = proc.opt.sum,
         proc'.at = "complete" => proc'.expected \in {0, disk.is},
         IF proc.at \in {"fetch", "verify"}
         THEN proc'.at \in {"verify", "complete"} /\ proc'.meta = proc.meta
         ELSE proc'.at \in {"head", "stamp", "get"},
         proc'.meta.time <= serves[proc.first],
         proc'.at = "stamp" /\ disk.from = proc.first /\ disk.is = Mixed =>
           proc'.meta.time = 0 \/ disk.time < proc'.meta.time
  PROVE  UrlInv'
<1>1. UrlTypeOK'
  BY UrlTypes DEF UrlInv, UrlTypeOK, ProcRecord, UrlCodes
<1>2. CodesTrue'
  BY DEF UrlInv, CodesTrue
<1>3. HooksTrue'
  BY DEF UrlInv, HooksTrue
<1>4. BytesTrue'
  <2>1. BytesTrue /\ (Entire' <=> Entire) /\ proc'.body = proc.body
    BY DEF UrlInv, DatesTrue, Entire
  <2>2. proc'.at \in {"head", "stamp", "get"} => proc'.body = {}
    BY <2>1 DEF BytesTrue
  <2>3. proc'.try = proc'.first =>
          \A v \in proc'.body : proc'.meta.time <= v /\ v <= serves'[proc'.first]
    BY <2>1 DEF BytesTrue
  <2>4. proc'.at \in {"verify", "complete"} /\ Entire' =>
          \/ disk'.is \in Versions /\ proc'.meta.time <= disk'.is
          \/ disk'.is = Mixed /\ proc'.meta.time < serves'[proc'.first]
    BY <2>1 DEF BytesTrue
  <2>5. QED
    BY <2>2, <2>3, <2>4 DEF BytesTrue
<1>5. FileTrue' /\ SkipTrue'
  BY DEF UrlInv, DatesTrue, FileTrue, SkipTrue, CodesTrue
<1>6. QED
  BY <1>1, <1>2, <1>3, <1>4, <1>5 DEF UrlInv, DatesTrue

LEMMA PrepareKeeps == ASSUME UrlInv, Prepare PROVE UrlInv'
<1>1. proc \in ProcRecord /\ proc.at = "prepare"
  BY UrlTypes DEF UrlInv, Prepare, AtStep
<1>2. CASE proc.opt.args = "bad"
  BY <1>1, <1>2, ErrorReturned DEF Prepare
<1>3. CASE proc.opt.args # "bad"
  <2>1. proc' = [proc EXCEPT !.at = "head", !.expected = proc.opt.sum]
    BY <1>3 DEF Prepare
  <2>2. proc.opt.sum \in {0} \cup Versions
    BY <1>1 DEF ProcRecord, Options
  <2>3. /\ proc' \in ProcRecord /\ proc'.at = "head"
        /\ proc'.opt = proc.opt /\ proc'.first = proc.first /\ proc'.try = proc.try
        /\ proc'.cancelled = proc.cancelled /\ proc'.skipped = proc.skipped
        /\ proc'.code = proc.code /\ proc'.meta = proc.meta
        /\ proc'.kept = proc.kept /\ proc'.body = proc.body /\ proc'.expected = proc.opt.sum
    BY <1>1, <2>1, <2>2 DEF ProcRecord, UrlSteps
  <2>4. proc.meta.time <= serves[proc.first]
    BY DEF UrlInv, DatesTrue, BytesTrue
  <2>5. QED
    BY <1>1, <2>3, <2>4, MovedOn DEF Prepare
<1>4. QED
  BY <1>2, <1>3

LEMMA FetchMetadataKeeps == ASSUME UrlInv, FetchMetadata PROVE UrlInv'
<1>1. /\ proc \in ProcRecord /\ proc.at = "head" /\ proc.first \in Urls
      /\ serves \in [Urls -> Versions]
  BY UrlTypes DEF UrlInv, FetchMetadata, AtStep, ProcRecord
<1>2. PICK time \in {0, serves[proc.first]}, known \in BOOLEAN :
        proc' = [proc EXCEPT !.at = IF proc.opt.stamp THEN "stamp" ELSE "get",
                             !.meta = [time |-> time, known |-> known]]
  BY DEF FetchMetadata
<1>3. /\ [time |-> time, known |-> known] \in [time : {0} \cup Versions, known : BOOLEAN]
      /\ time <= serves[proc.first]
      /\ disk.from = proc.first /\ disk.is = Mixed => time = 0 \/ disk.time < time
  <2>1. serves[proc.first] \in Nat /\ proc.first # 0
    <3>1. serves[proc.first] \in Versions
      BY <1>1
    <3>2. 0 \notin Urls
      BY DEF Urls
    <3>3. QED
      BY ONLY <1>1, <3>1, <3>2, UrlNumbers
  <2>2. time <= serves[proc.first]
    BY <1>2, <2>1
  <2>3. disk.from = proc.first /\ disk.is = Mixed => disk.time < serves[proc.first]
    BY <2>1, UrlNumbers DEF UrlInv, DatesTrue, FileTrue, Versions
  <2>4. QED
    BY <1>1, <1>2, <2>2, <2>3
<1>4. PICK at \in {"stamp", "get"} :
        proc' = [proc EXCEPT !.at = at, !.meta = [time |-> time, known |-> known]]
  <2>1. proc.opt.stamp \in BOOLEAN
    BY <1>1 DEF ProcRecord, Options
  <2>2. QED
    BY <1>2, <2>1
<1>5. /\ proc' \in ProcRecord /\ proc'.at = at /\ proc'.meta.time = time
      /\ proc'.opt = proc.opt /\ proc'.first = proc.first /\ proc'.try = proc.try
      /\ proc'.cancelled = proc.cancelled /\ proc'.skipped = proc.skipped
      /\ proc'.code = proc.code /\ proc'.expected = proc.expected
      /\ proc'.kept = proc.kept /\ proc'.body = proc.body
  BY <1>1, <1>3, <1>4 DEF ProcRecord, UrlSteps
<1>6. QED
  BY <1>1, <1>3, <1>5, MovedOn DEF FetchMetadata

(* A skip is decided on the dates, while nothing is known to be wrong. *)
LEMMA StampKeeps == ASSUME UrlInv, Stamp PROVE UrlInv'
<1>1. proc \in ProcRecord /\ proc.at = "stamp" /\ disk \in DiskRecord
  BY UrlTypes DEF UrlInv, Stamp, AtStep
<1>2. CASE CheckTimestamp(disk.is # NoFile, disk, proc.meta)
  <2>1. Moves("get", proc.code) /\ proc'.kept = proc.kept /\ proc'.body = proc.body
    BY <1>1, <1>2, GoMoves DEF Stamp, UrlSteps
  <2>2. proc.meta.time <= serves[proc.first]
    BY DEF UrlInv, DatesTrue, BytesTrue
  <2>3. QED
    BY <1>1, <2>1, <2>2, MovedOn DEF Moves, ProcKeeps, Stamp
<1>3. CASE ~CheckTimestamp(disk.is # NoFile, disk, proc.meta)
  <2>1. proc' = [proc EXCEPT !.at = "return", !.code = 0, !.skipped = TRUE]
    BY <1>3 DEF Stamp
  <2>2. /\ proc' \in ProcRecord /\ proc'.at = "return" /\ proc'.code = 0 /\ proc'.skipped = TRUE
        /\ proc'.opt = proc.opt /\ proc'.first = proc.first /\ proc'.try = proc.try
        /\ proc'.meta = proc.meta /\ proc'.body = proc.body
    BY <1>1, <2>1 DEF ProcRecord, UrlSteps, UrlCodes
  <2>3. UNCHANGED <<serves, disk, hook, runs, left>>
    BY DEF Stamp
  <2>4. /\ disk.time \in Nat /\ proc.meta.time \in Nat /\ (disk.is \in Versions => disk.is \in Nat)
        /\ proc.first # 0
    <3>1. /\ disk.time \in {0} \cup Versions /\ proc.meta.time \in {0} \cup Versions
          /\ proc.first \in Urls
      BY <1>1 DEF DiskRecord, ProcRecord
    <3>2. 0 \notin Urls
      BY DEF Urls
    <3>3. QED
      BY ONLY <3>1, <3>2, UrlNumbers
  <2>5. disk.time >= proc.meta.time /\ proc.meta.time # 0
    BY <1>3, <2>4 DEF CheckTimestamp
  <2>6. UrlTypeOK'
    BY <2>2, <2>3, UrlTypes DEF UrlInv, UrlTypeOK, ProcRecord, UrlCodes
  <2>7. CodesTrue'
    BY <1>1, <2>2, <2>3 DEF UrlInv, CodesTrue
  <2>8. HooksTrue'
    BY <1>1, <2>2, <2>3 DEF UrlInv, HooksTrue
  <2>9. FileTrue' /\ BytesTrue'
    BY <2>2, <2>3 DEF UrlInv, DatesTrue, FileTrue, BytesTrue
  <2>10. disk.from = proc.first => disk.is >= proc.meta.time
    BY <1>1, <2>4, <2>5 DEF UrlInv, DatesTrue, FileTrue, SkipTrue
  <2>11. SkipTrue'
    BY <2>2, <2>3, <2>10 DEF SkipTrue
  <2>12. QED
    BY <2>6, <2>7, <2>8, <2>9, <2>11 DEF UrlInv, DatesTrue
<1>4. QED
  BY <1>2, <1>3

LEMMA OpenedIsFile ==
  ASSUME UrlTypeOK, NEW file \in Opened
  PROVE  file \in DiskRecord /\ file.from = 0
<1>1. disk \in DiskRecord /\ serves[1] \in Versions
  BY UrlTypes, UrlNumbers
<1>2. PICK whole \in {disk.whole, TRUE}, time \in {0} \cup Versions,
           is \in {NoFile, Part, Mixed} \cup Versions :
        file = [is |-> is, whole |-> whole, time |-> time, from |-> 0]
  <2>1. /\ disk.is \in {NoFile, Part, Mixed} \cup Versions /\ disk.time \in {0} \cup Versions
        /\ {serves[1]} \cup (IF disk.is = NoFile THEN {} ELSE {disk.time}) \subseteq {0} \cup Versions
    BY <1>1 DEF DiskRecord
  <2>2. PICK is \in {Part, disk.is} \ {NoFile}, whole \in {disk.whole, TRUE},
             time \in {serves[1]} \cup (IF disk.is = NoFile THEN {} ELSE {disk.time}) :
          file = [is |-> is, whole |-> whole, time |-> time, from |-> 0]
    BY DEF Opened
  <2>3. QED
    BY ONLY <2>1, <2>2
<1>3. whole \in BOOLEAN
  BY <1>1, <1>2 DEF DiskRecord
<1>4. QED
  BY <1>2, <1>3 DEF DiskRecord

(* A download begins: of what it will add to the file nothing is there. *)
LEMMA BeginKeeps == ASSUME UrlInv, Begin PROVE UrlInv'
<1>1. /\ proc \in ProcRecord /\ proc.at = "get" /\ left \in LeftRecord
      /\ UNCHANGED <<serves, hook, runs, left>>
  BY UrlTypes DEF UrlInv, Begin, AtStep
<1>2. PICK kept \in {proc.kept, {}, left.of} :
        proc' = [proc EXCEPT !.at = "body", !.kept = kept, !.body = {}]
  BY DEF Begin
<1>3. kept \in SUBSET Versions
  BY <1>1 DEF ProcRecord, LeftRecord
<1>4. /\ proc' \in ProcRecord /\ proc'.at = "body" /\ proc'.body = {}
      /\ proc'.opt = proc.opt /\ proc'.first = proc.first /\ proc'.try = proc.try
      /\ proc'.cancelled = proc.cancelled /\ proc'.skipped = proc.skipped
      /\ proc'.code = proc.code /\ proc'.meta = proc.meta /\ proc'.expected = proc.expected
  BY <1>1, <1>2, <1>3 DEF ProcRecord, UrlSteps
<1>5. disk' \in DiskRecord /\ disk'.from = 0
  BY OpenedIsFile DEF Begin, UrlInv
<1>6. UrlTypeOK'
  BY <1>1, <1>4, <1>5, UrlTypes DEF UrlInv, UrlTypeOK, ProcRecord, DiskRecord, UrlCodes
<1>7. CodesTrue'
  BY <1>1, <1>4 DEF UrlInv, CodesTrue
<1>8. HooksTrue'
  BY <1>1, <1>4 DEF UrlInv, HooksTrue
<1>9. FileTrue' /\ BytesTrue'
  BY <1>1, <1>4, <1>5 DEF UrlInv, DatesTrue, FileTrue, BytesTrue
<1>10. SkipTrue'
  BY <1>1, <1>4 DEF UrlInv, SkipTrue, CodesTrue
<1>11. QED
  BY <1>6, <1>7, <1>8, <1>9, <1>10 DEF UrlInv, DatesTrue

LEMMA ReceiveKeeps == ASSUME UrlInv, ReceiveBytes PROVE UrlInv'
<1>1. /\ proc \in ProcRecord /\ proc.at = "body" /\ proc.try \in Urls /\ proc.first \in Urls
      /\ serves \in [Urls -> Versions] /\ disk \in DiskRecord
      /\ UNCHANGED <<serves, hook, runs, left>>
  BY UrlTypes DEF UrlInv, ReceiveBytes, AtStep, ProcRecord
<1>2. PICK v \in Versions : v = serves[proc.try]
  BY <1>1
<1>3. proc' = [proc EXCEPT !.body = @ \cup {v}]
  BY <1>2 DEF ReceiveBytes
<1>4. /\ proc' \in ProcRecord /\ proc'.at = "body" /\ proc'.body = proc.body \cup {v}
      /\ proc'.opt = proc.opt /\ proc'.first = proc.first /\ proc'.try = proc.try
      /\ proc'.cancelled = proc.cancelled /\ proc'.skipped = proc.skipped
      /\ proc'.code = proc.code /\ proc'.meta = proc.meta /\ proc'.expected = proc.expected
  BY <1>1, <1>3 DEF ProcRecord
<1>5. disk' \in DiskRecord /\ disk'.from = disk.from /\ disk'.is = Part
  <2>1. serves[1] \in Versions
    BY <1>1, UrlNumbers
  <2>2. QED
    BY <1>1, <2>1 DEF ReceiveBytes, DiskRecord
<1>6. UrlTypeOK'
  BY <1>1, <1>4, <1>5, UrlTypes DEF UrlInv, UrlTypeOK, ProcRecord, DiskRecord, UrlCodes
<1>7. CodesTrue'
  BY <1>1, <1>4 DEF UrlInv, CodesTrue
<1>8. HooksTrue'
  BY <1>1, <1>4 DEF UrlInv, HooksTrue
<1>9. FileTrue' /\ BytesTrue'
  <2>1. disk.from = 0 /\ serves[proc.first] \in Nat
    BY <1>1, UrlNumbers DEF UrlInv, DatesTrue, BytesTrue
  <2>2. QED
    BY <1>1, <1>2, <1>4, <1>5, <2>1 DEF UrlInv, DatesTrue, FileTrue, BytesTrue
<1>10. SkipTrue'
  BY <1>1, <1>4 DEF UrlInv, SkipTrue, CodesTrue
<1>11. QED
  BY <1>6, <1>7, <1>8, <1>9, <1>10 DEF UrlInv, DatesTrue

(* Bytes of two versions came when the second was there: the date is that of
   the first, or earlier.                                                  *)
LEMMA TwoVersions ==
  ASSUME NEW body \in SUBSET Versions, NEW time \in Nat, NEW last \in Nat,
         \A v \in body : time <= v /\ v <= last,
         body # {}, ~\E v \in Versions : body \subseteq {v}
  PROVE  time < last
<1>1. \A v \in Versions : v \in Nat
  BY UrlNumbers
<1>2. PICK v \in body : TRUE
  OBVIOUS
<1>3. PICK w \in body : w # v
  BY <1>2
<1>4. QED
  BY <1>1, <1>2, <1>3

LEMMA DownloadedKeeps == ASSUME UrlInv, Downloaded PROVE UrlInv'
<1>1. /\ proc \in ProcRecord /\ proc.at = "body" /\ proc.try \in Urls /\ proc.first \in Urls
      /\ proc.kept \in SUBSET Versions /\ proc.body \in SUBSET Versions
      /\ serves \in [Urls -> Versions] /\ disk \in DiskRecord /\ UNCHANGED <<serves, hook, runs>>
  BY UrlTypes DEF UrlInv, Downloaded, AtStep, ProcRecord
<1>2. PICK is \in Fetched, whole \in {disk.whole, TRUE}, time \in {disk.time, serves[1]} :
        disk' = [is |-> is, whole |-> whole \/ is \in Versions, time |-> time, from |-> 0]
  BY DEF Downloaded
<1>3. disk' \in DiskRecord /\ disk'.is = is /\ disk'.from = 0
  <2>1. is \in {NoFile, Part, Mixed} \cup Versions
    BY <1>1 DEF Fetched, DiskRecord
  <2>2. time \in {0} \cup Versions
    BY <1>1, UrlNumbers DEF DiskRecord
  <2>3. (whole \/ is \in Versions) \in BOOLEAN
    OBVIOUS
  <2>4. QED
    BY <1>2, <2>1, <2>2, <2>3 DEF DiskRecord
<1>4. left' \in LeftRecord
  BY <1>1 DEF Downloaded, LeftRecord, NoLeft, VersionsCounted
<1>5. PICK at \in {"fetch", "verify"} :
        /\ Go(at)
        /\ at = "fetch" => proc.expected = 0
  BY DEF Downloaded
<1>6. Moves(at, proc.code) /\ proc'.kept = proc.kept /\ proc'.body = proc.body
  BY <1>1, <1>5, GoMoves DEF UrlSteps
<1>7. UrlTypeOK'
  BY <1>1, <1>3, <1>4, <1>6, UrlTypes
  DEF UrlInv, Moves, UrlTypeOK, ProcRecord, DiskRecord, LeftRecord, UrlCodes
<1>8. CodesTrue'
  <2>1. proc.opt.sum = 0 \/ proc.expected = proc.opt.sum
    BY <1>1 DEF UrlInv, CodesTrue
  <2>2. at = "fetch" => proc.opt.sum = 0
    BY <1>5, <2>1
  <2>3. QED
    BY <1>1, <1>5, <1>6, <2>2 DEF UrlInv, Moves, ProcKeeps, CodesTrue
<1>9. HooksTrue'
  BY <1>1, <1>6 DEF UrlInv, Moves, ProcKeeps, HooksTrue
<1>10. FileTrue' /\ SkipTrue'
  BY <1>1, <1>3, <1>6 DEF UrlInv, Moves, ProcKeeps, FileTrue, SkipTrue, CodesTrue, Urls
<1>11. BytesTrue'
  <2>1. /\ proc.meta.time \in Nat /\ serves[proc.first] \in Nat
        /\ proc.try = proc.first =>
             \A v \in proc.body : proc.meta.time <= v /\ v <= serves[proc.first]
        /\ proc.body # {} => disk.is = Part
    BY <1>1, UrlNumbers DEF UrlInv, DatesTrue, BytesTrue, ProcRecord
  <2>2. ASSUME Entire'
        PROVE  \/ is \in Versions /\ proc.meta.time <= is
               \/ is = Mixed /\ proc.meta.time < serves[proc.first]
    <3>1. proc.kept = {} /\ proc.body # {} /\ proc.try = proc.first /\ is # Part
      BY <1>3, <1>6, <2>2 DEF Entire, Moves, ProcKeeps
    <3>2. \/ is \in Versions /\ proc.body = {is}
          \/ is = Mixed /\ ~\E v \in Versions : proc.body \subseteq {v}
      BY <1>2, <2>1, <3>1 DEF Fetched, VersionsCounted
    <3>3. CASE is \in Versions /\ proc.body = {is}
      BY <2>1, <3>1, <3>3
    <3>4. CASE is = Mixed /\ ~\E v \in Versions : proc.body \subseteq {v}
      BY <1>1, <2>1, <3>1, <3>4, TwoVersions
    <3>5. QED
      BY <3>2, <3>3, <3>4
  <2>3. QED
    BY <1>1, <1>3, <1>5, <1>6, <2>2 DEF UrlInv, Moves, ProcKeeps, DatesTrue, BytesTrue
<1>12. QED
  BY <1>7, <1>8, <1>9, <1>10, <1>11 DEF UrlInv, DatesTrue

(* After an error, the next mirror, if there is one. *)
LEMMA NextTry ==
  ASSUME UrlInv, NEW kept \in SUBSET Versions, TryNext(kept), proc.at \in {"get", "body"},
         disk' \in DiskRecord, disk' = disk \/ disk'.from = 0, left' \in LeftRecord,
         UNCHANGED <<serves, hook, runs>>
  PROVE  UrlInv'
<1>1. proc \in ProcRecord /\ proc.try \in Urls /\ proc.first \in Urls
  BY UrlTypes DEF UrlInv, ProcRecord
<1>2. /\ proc' \in ProcRecord /\ proc'.at \in {"get", "failed"} /\ proc'.body = {}
      /\ proc'.opt = proc.opt /\ proc'.first = proc.first
      /\ proc'.meta = proc.meta /\ proc'.skipped = proc.skipped
      /\ proc'.code = proc.code /\ proc'.cancelled = proc.cancelled
      /\ proc'.expected = proc.expected
      /\ proc.opt.cmd = "metalink" => proc'.try = proc.try
  <2>1. CASE proc.try = LastTry \/ proc.cancelled
    <3>1. proc' = [proc EXCEPT !.at = "failed", !.kept = {}, !.body = {}]
      BY <2>1 DEF TryNext
    <3>2. QED
      BY <1>1, <3>1 DEF ProcRecord, UrlSteps
  <2>2. CASE ~(proc.try = LastTry \/ proc.cancelled)
    <3>1. proc' = [proc EXCEPT !.at = "get", !.try = @ + 1, !.kept = kept, !.body = {}]
      BY <2>2 DEF TryNext
    <3>2. proc.opt.cmd = "url" /\ proc.try # NumUrls
      BY <1>1, <2>2 DEF LastTry, UrlInv, CodesTrue, ProcRecord, Options
    <3>3. proc.try + 1 \in Urls
      BY <1>1, <3>2, UrlAssumption DEF Urls
    <3>4. QED
      BY <1>1, <3>1, <3>2, <3>3 DEF ProcRecord, UrlSteps
  <2>3. QED
    BY <2>1, <2>2
<1>3. UrlTypeOK'
  BY <1>2, UrlTypes DEF UrlInv, UrlTypeOK, ProcRecord, DiskRecord, LeftRecord, UrlCodes
<1>4. CodesTrue'
  BY <1>2 DEF UrlInv, CodesTrue
<1>5. HooksTrue'
  BY <1>2 DEF UrlInv, HooksTrue
<1>6. FileTrue' /\ BytesTrue'
  BY <1>2 DEF UrlInv, DatesTrue, FileTrue, BytesTrue
<1>7. SkipTrue'
  BY <1>2 DEF UrlInv, SkipTrue, CodesTrue
<1>8. QED
  BY <1>3, <1>4, <1>5, <1>6, <1>7 DEF UrlInv, DatesTrue

LEMMA BeginFailsKeeps == ASSUME UrlInv, BeginFails PROVE UrlInv'
<1>1. proc.at = "get" /\ proc.kept \in SUBSET Versions /\ disk \in DiskRecord /\ left \in LeftRecord
  BY UrlTypes DEF UrlInv, BeginFails, AtStep, ProcRecord
<1>2. disk' \in DiskRecord /\ (disk' = disk \/ disk'.from = 0)
  BY <1>1, OpenedIsFile DEF BeginFails, UrlInv
<1>3. TryNext(proc.kept) /\ left' \in LeftRecord /\ UNCHANGED <<serves, hook, runs>>
  BY <1>1 DEF BeginFails
<1>4. QED
  BY <1>1, <1>2, <1>3, NextTry

LEMMA DownloadFailsKeeps == ASSUME UrlInv, DownloadFails PROVE UrlInv'
<1>1. /\ proc.at = "body" /\ proc.try \in Urls /\ disk \in DiskRecord /\ left \in LeftRecord
      /\ VersionsCounted \in SUBSET Versions
  BY UrlTypes DEF UrlInv, DownloadFails, AtStep, ProcRecord, VersionsCounted
<1>2. UNCHANGED <<serves, disk, hook, runs>>
  BY DEF DownloadFails
<1>3. \E kept \in SUBSET Versions : TryNext(kept) /\ left' \in LeftRecord
  <2>1. CASE TryNext({}) /\ left' = [url |-> proc.try, of |-> VersionsCounted]
    BY <1>1, <2>1 DEF LeftRecord
  <2>2. CASE TryNext(VersionsCounted) /\ UNCHANGED left
    BY <1>1, <2>2
  <2>3. QED
    BY <2>1, <2>2 DEF DownloadFails
<1>4. QED
  BY <1>1, <1>2, <1>3, NextTry

LEMMA ErrorHooksKeeps == ASSUME UrlInv, ErrorHooks PROVE UrlInv'
<1>1. proc \in ProcRecord /\ proc.at = "failed" /\ proc.first \in Urls /\ hook \in [Urls -> HookRecord]
  BY UrlTypes DEF UrlInv, ErrorHooks, AtStep, ProcRecord
<1>2. Moves("report", proc.code) /\ UNCHANGED <<serves, disk, runs, left>>
  BY <1>1, GoMoves DEF ErrorHooks, UrlSteps
<1>3. /\ hook' \in [Urls -> HookRecord]
      /\ hook'[proc.first] = hook[proc.first] \/ hook'[proc.first].event = "error"
      /\ \A u \in Urls \ {proc.first} : hook'[u] = hook[u]
  BY <1>1 DEF ErrorHooks, ExecuteAsync, HookRecord
<1>4. UrlTypeOK'
  BY <1>2, <1>3, UrlTypes DEF UrlInv, Moves, UrlTypeOK, ProcRecord, HookRecord, UrlCodes
<1>5. CodesTrue'
  BY <1>1, <1>2 DEF UrlInv, Moves, ProcKeeps, CodesTrue
<1>6. HooksTrue'
  BY <1>1, <1>2, <1>3 DEF UrlInv, Moves, ProcKeeps, HooksTrue, CodesTrue
<1>7. DatesTrue'
  BY <1>1, <1>2, DatesMove DEF Moves
<1>8. QED
  BY <1>4, <1>5, <1>6, <1>7 DEF UrlInv

LEMMA FetchChecksumKeeps == ASSUME UrlInv, FetchChecksum PROVE UrlInv'
<1>1. proc \in ProcRecord /\ proc.at = "fetch" /\ proc.first \in Urls /\ serves \in [Urls -> Versions]
  BY UrlTypes DEF UrlInv, FetchChecksum, AtStep, ProcRecord
<1>2. PICK sum \in {0, serves[proc.first], Junk} :
        proc' = [proc EXCEPT !.at = "verify", !.expected = sum]
  BY DEF FetchChecksum
<1>3. sum \in {0, Junk} \cup Versions
  BY <1>1
<1>4. /\ proc' \in ProcRecord /\ proc'.at = "verify"
      /\ proc'.opt = proc.opt /\ proc'.first = proc.first /\ proc'.try = proc.try
      /\ proc'.cancelled = proc.cancelled /\ proc'.skipped = proc.skipped
      /\ proc'.code = proc.code /\ proc'.meta = proc.meta
      /\ proc'.kept = proc.kept /\ proc'.body = proc.body
  BY <1>1, <1>2, <1>3 DEF ProcRecord, UrlSteps
<1>5. proc.meta.time <= serves[proc.first]
  BY DEF UrlInv, DatesTrue, BytesTrue
<1>6. QED
  BY <1>1, <1>4, <1>5, MovedOn DEF FetchChecksum

LEMMA VerifyKeeps == ASSUME UrlInv, Verify PROVE UrlInv'
<1>1. proc \in ProcRecord /\ proc.at = "verify"
  BY UrlTypes DEF UrlInv, Verify, AtStep
<1>2. CASE proc.expected \in {0, disk.is}
  <2>1. Moves("complete", proc.code) /\ proc'.kept = proc.kept /\ proc'.body = proc.body
    BY <1>1, <1>2, GoMoves DEF Verify, UrlSteps
  <2>2. proc.meta.time <= serves[proc.first]
    BY DEF UrlInv, DatesTrue, BytesTrue
  <2>3. QED
    BY <1>1, <1>2, <2>1, <2>2, MovedOn DEF Moves, ProcKeeps, Verify
<1>3. CASE proc.expected \notin {0, disk.is}
  BY <1>1, <1>3, ErrorReturned DEF Verify
<1>4. QED
  BY <1>2, <1>3

LEMMA CompleteKeeps == ASSUME UrlInv, Complete PROVE UrlInv'
<1>1. /\ proc \in ProcRecord /\ proc.at = "complete" /\ proc.first \in Urls
      /\ proc.meta.time \in {0} \cup Versions
      /\ hook \in [Urls -> HookRecord] /\ disk \in DiskRecord
  BY UrlTypes DEF UrlInv, Complete, AtStep, ProcRecord
<1>2. Moves("return", 0) /\ UNCHANGED <<serves, runs, left>>
  BY <1>1, ReturnMoves DEF Complete, UrlCodes
<1>3. PICK time \in {disk.time, proc.meta.time}, from \in {0} \cup Urls :
        /\ disk' = [disk EXCEPT !.time = time, !.from = from]
        /\ \/ time = disk.time /\ from = disk.from
           \/ from = 0
           \/ time = proc.meta.time /\ from = proc.first /\ Entire
  <2>1. CASE UNCHANGED disk
    BY <1>1, <2>1 DEF DiskRecord
  <2>2. CASE disk' = [disk EXCEPT !.time = proc.meta.time, !.from = IF Entire THEN proc.first ELSE 0]
    BY <1>1, <2>2
  <2>3. QED
    BY <2>1, <2>2 DEF Complete
<1>4. disk' \in DiskRecord /\ disk'.is = disk.is /\ disk'.time = time /\ disk'.from = from
  BY <1>1, <1>3 DEF DiskRecord
<1>5. /\ hook' \in [Urls -> HookRecord]
      /\ hook'[proc.first] = hook[proc.first] \/ hook'[proc.first].event = "complete"
      /\ \A u \in Urls \ {proc.first} : hook'[u] = hook[u]
  BY <1>1 DEF Complete, ExecuteAsync, HookRecord
<1>6. UrlTypeOK'
  BY <1>2, <1>4, <1>5, UrlTypes
  DEF UrlInv, Moves, UrlTypeOK, ProcRecord, DiskRecord, HookRecord, UrlCodes
<1>7. CodesTrue'
  BY <1>1, <1>2, <1>4 DEF UrlInv, Moves, ProcKeeps, CodesTrue
<1>8. HooksTrue'
  BY <1>1, <1>2, <1>5 DEF UrlInv, Moves, ProcKeeps, HooksTrue, CodesTrue
<1>9. FileTrue'
  <2>1. CASE time = disk.time /\ from = disk.from
    BY <1>2, <1>4, <2>1 DEF UrlInv, DatesTrue, FileTrue
  <2>2. CASE from = 0
    BY <1>4, <2>2 DEF FileTrue
  <2>3. CASE time = proc.meta.time /\ from = proc.first /\ Entire
    <3>1. \/ disk.is \in Versions /\ proc.meta.time <= disk.is
          \/ disk.is = Mixed /\ proc.meta.time < serves[proc.first]
      BY <1>1, <2>3 DEF UrlInv, DatesTrue, BytesTrue
    <3>2. QED
      BY <1>2, <1>4, <2>3, <3>1 DEF FileTrue
  <2>4. QED
    BY <1>3, <2>1, <2>2, <2>3
<1>10. BytesTrue'
  <2>1. proc'.body \subseteq proc.body
    BY <1>2 DEF Moves, ProcKeeps
  <2>2. QED
    BY <1>2, <2>1 DEF UrlInv, Moves, ProcKeeps, DatesTrue, BytesTrue
<1>11. SkipTrue'
  BY <1>1, <1>2 DEF UrlInv, Moves, ProcKeeps, SkipTrue, CodesTrue
<1>12. QED
  BY <1>6, <1>7, <1>8, <1>9, <1>10, <1>11 DEF UrlInv, DatesTrue

LEMMA NextUrlKeeps == ASSUME UrlInv, NextUrl PROVE UrlInv'
<1>1. proc \in ProcRecord /\ proc.first \in Urls /\ proc.opt \in Options /\ runs \in 0 .. MaxProcesses
  BY UrlTypes DEF UrlInv, ProcRecord
<1>2. proc.first + 1 \in Urls
  BY <1>1, UrlAssumption DEF NextUrl, Urls
<1>3. QED
  BY <1>1, <1>2, Started DEF NextUrl

LEMMA StartKeeps == ASSUME UrlInv, Start PROVE UrlInv'
<1>1. PICK opt \in Options : proc' = Starting(opt, 1)
  BY DEF Start
<1>2. runs \in 0 .. MaxProcesses
  BY UrlTypes DEF UrlInv
<1>3. runs' \in 0 .. MaxProcesses
  BY <1>2, UrlNumbers DEF Start
<1>4. QED
  BY <1>1, <1>3, Started, UrlNumbers DEF Start

(* The end of a process, by its code or by a kill. *)
LEMMA Exited ==
  ASSUME UrlInv, NEW code \in UrlCodes, Moves("exited", code),
         left' \in LeftRecord, UNCHANGED <<serves, disk, runs>>,
         hook' = hook \/ HooksDie,
         \/ code = -1
         \/ proc.at = "return" /\ code = proc.code /\ (proc.opt.cmd = "url" \/ code = 0)
         \/ proc.opt.cmd = "metalink" /\ code \in {2, 3}
  PROVE  UrlInv'
<1>1. proc \in ProcRecord /\ hook \in [Urls -> HookRecord]
  BY UrlTypes DEF UrlInv
<1>2. /\ hook' \in [Urls -> HookRecord]
      /\ \A u \in Urls : /\ hook'[u].event = hook[u].event
                         /\ hook[u] = NoHook => hook'[u] = NoHook
  BY <1>1, HooksDieKeeps
<1>3. UrlTypeOK'
  BY <1>2, UrlTypes
  DEF UrlInv, Moves, UrlTypeOK, ProcRecord, DiskRecord, HookRecord, LeftRecord, UrlCodes
<1>4. CodesTrue'
  BY <1>1 DEF UrlInv, Moves, ProcKeeps, CodesTrue
<1>5. HooksTrue'
  BY <1>2, UrlNumbers DEF UrlInv, Moves, ProcKeeps, HooksTrue
<1>6. DatesTrue'
  BY DatesMove DEF Moves
<1>7. QED
  BY <1>3, <1>4, <1>5, <1>6 DEF UrlInv

LEMMA ExitMoves ==
  ASSUME proc \in ProcRecord, NEW code \in UrlCodes,
         proc' = [proc EXCEPT !.at = "exited", !.code = code]
  PROVE  Moves("exited", code)
  BY DEF Moves, ProcKeeps, ProcRecord, UrlSteps

LEMMA ExitKeeps == ASSUME UrlInv, Exit PROVE UrlInv'
<1>1. /\ proc \in ProcRecord /\ proc.code \in UrlCodes /\ proc.opt.cmd \in {"url", "metalink"}
      /\ left \in LeftRecord
  BY UrlTypes DEF UrlInv, ProcRecord, Options
<1>2. PICK code \in UrlCodes :
        /\ proc' = [proc EXCEPT !.at = "exited", !.code = code]
        /\ \/ code = proc.code /\ (proc.opt.cmd = "url" \/ code = 0)
           \/ proc.opt.cmd = "metalink" /\ code = 3
  BY <1>1 DEF Exit, UrlCodes
<1>3. Moves("exited", code)
  BY <1>1, <1>2, ExitMoves
<1>4. QED
  BY <1>1, <1>2, <1>3, Exited DEF Exit, AtStep

LEMMA KillKeeps == ASSUME UrlInv, Kill PROVE UrlInv'
<1>1. proc \in ProcRecord /\ left \in LeftRecord
  BY UrlTypes DEF UrlInv
<1>2. Moves("exited", -1)
  <2>1. proc' = [proc EXCEPT !.at = "exited", !.code = -1, !.kept = {}, !.body = {}]
    BY DEF Kill, Ends
  <2>2. proc' \in ProcRecord
    BY <1>1, <2>1 DEF ProcRecord, UrlSteps, UrlCodes
  <2>3. QED
    BY <1>1, <2>1, <2>2 DEF Moves, ProcKeeps, ProcRecord
<1>3. left' \in LeftRecord
  BY <1>1 DEF Kill, LeftRecord, ProcRecord
<1>4. QED
  BY <1>2, <1>3, Exited DEF Kill, UrlCodes

LEMMA InterruptKeeps == ASSUME UrlInv, Interrupt PROVE UrlInv'
<1>1. proc \in ProcRecord
  BY UrlTypes DEF UrlInv
<1>2. /\ proc' \in ProcRecord /\ proc'.at = proc.at /\ proc'.code = proc.code
      /\ proc'.opt = proc.opt /\ proc'.first = proc.first /\ proc'.try = proc.try
      /\ proc'.cancelled = TRUE /\ proc'.expected = proc.expected
      /\ proc'.meta = proc.meta /\ proc'.skipped = proc.skipped
      /\ proc'.kept = proc.kept /\ proc'.body = proc.body
  BY <1>1 DEF Interrupt, ProcRecord
<1>3. UrlTypeOK'
  BY <1>2, UrlTypes DEF UrlInv, Interrupt, UrlTypeOK, ProcRecord, UrlCodes
<1>4. CodesTrue'
  BY <1>2 DEF UrlInv, Interrupt, CodesTrue
<1>5. HooksTrue' /\ DatesTrue'
  BY <1>2 DEF UrlInv, Interrupt, HooksTrue, DatesTrue, FileTrue, BytesTrue, SkipTrue, Entire
<1>6. QED
  BY <1>3, <1>4, <1>5 DEF UrlInv

LEMMA PublishKeeps == ASSUME UrlInv, Publish PROVE UrlInv'
<1>1. /\ serves \in [Urls -> Versions] /\ proc.meta.time \in {0} \cup Versions
      /\ proc.first \in Urls /\ disk \in DiskRecord /\ proc.body \in SUBSET Versions
  BY UrlTypes DEF UrlInv, ProcRecord
<1>2. /\ serves' \in [Urls -> Versions]
      /\ \A u \in Urls : serves[u] <= serves'[u]
  BY <1>1, UrlAssumption DEF Publish, Versions, Urls
<1>3. UrlTypeOK'
  BY <1>2, UrlTypes DEF UrlInv, Publish, UrlTypeOK
<1>4. CodesTrue' /\ HooksTrue'
  BY DEF UrlInv, Publish, CodesTrue, HooksTrue
<1>5. \A u \in Urls : serves[u] \in Nat /\ serves'[u] \in Nat
  BY <1>1, <1>2, UrlNumbers
<1>6. proc.meta.time \in Nat /\ disk.time \in Nat /\ (disk.from # 0 => disk.from \in Urls)
  BY <1>1, UrlNumbers DEF DiskRecord
<1>7. FileTrue'
  BY <1>2, <1>5, <1>6 DEF UrlInv, Publish, DatesTrue, FileTrue
<1>8. BytesTrue'
  <2>1. \A v \in proc.body : v \in Nat
    BY <1>1, UrlNumbers
  <2>2. PICK old \in Nat, new \in Nat :
          old = serves[proc.first] /\ new = serves'[proc.first] /\ old <= new
    BY <1>1, <1>2, <1>5
  <2>3. Entire' = Entire
    BY DEF Publish, Entire
  <2>4. QED
    BY <1>6, <2>1, <2>2, <2>3 DEF UrlInv, Publish, DatesTrue, BytesTrue
<1>9. SkipTrue'
  BY DEF UrlInv, Publish, DatesTrue, SkipTrue
<1>10. QED
  BY <1>3, <1>4, <1>7, <1>8, <1>9 DEF UrlInv, DatesTrue

LEMMA UrlInvStep == UrlInv /\ [UrlNext]_urlVars => UrlInv'
<1> SUFFICES ASSUME UrlInv, [UrlNext]_urlVars PROVE UrlInv'
  OBVIOUS
<1>1. CASE HeadFails \/ StampFails \/ VerifyFails
  BY <1>1, ErrorReturned DEF HeadFails, StampFails, VerifyFails, AtStep
<1>2. CASE Report
  <2>1. proc.cancelled \in BOOLEAN
    BY UrlTypes DEF UrlInv, ProcRecord
  <2>2. Return(3) \/ (Return(8) /\ WasCancelled)
    BY <1>2, <2>1 DEF Report, WasCancelled
  <2>3. proc.at = "report" /\ UNCHANGED <<serves, disk, hook, runs, left>>
    BY <1>2 DEF Report, AtStep
  <2>4. CASE Return(3)
    BY <2>3, <2>4, ErrorReturned
  <2>5. CASE Return(8) /\ WasCancelled
    BY <2>3, <2>5, ErrorReturned
  <2>6. QED
    BY <2>2, <2>4, <2>5
<1>3. CASE \E u \in Urls : HookStarts(u) \/ HookRefused(u)
  BY <1>3, HookMoves DEF HookStarts, HookRefused
<1>4. CASE ParseFails
  <2>1. proc \in ProcRecord /\ left \in LeftRecord /\ 2 \in UrlCodes
    BY UrlTypes DEF UrlInv, UrlCodes
  <2>2. Moves("exited", 2)
    BY <1>4, <2>1, ExitMoves DEF ParseFails
  <2>3. QED
    BY <1>4, <2>1, <2>2, Exited DEF ParseFails
<1>5. CASE UNCHANGED urlVars
  BY <1>5 DEF urlVars, UrlInv, UrlTypeOK, CodesTrue, HooksTrue, DatesTrue, FileTrue, BytesTrue,
              SkipTrue, Entire
<1>6. QED
  BY <1>1, <1>2, <1>3, <1>4, <1>5, PrepareKeeps, FetchMetadataKeeps, StampKeeps, BeginKeeps,
     BeginFailsKeeps, ReceiveKeeps, DownloadedKeeps, DownloadFailsKeeps, ErrorHooksKeeps,
     FetchChecksumKeeps, VerifyKeeps, CompleteKeeps, NextUrlKeeps, StartKeeps, ExitKeeps,
     KillKeeps, InterruptKeeps, PublishKeeps
  DEF UrlNext, UrlStep

LEMMA UrlAlways == UrlSpec => []UrlInv
  BY UrlInvInit, UrlInvStep, PTL DEF UrlSpec

(* The state of a url command, its file and its hooks stays in its types, with
   any number of processes one after another.                              *)
THEOREM UrlTypeCorrect == UrlSpec => []UrlTypeOK
<1>1. UrlInv => UrlTypeOK
  BY DEF UrlInv
<1>2. QED  BY <1>1, UrlAlways, PTL

(* A checksum asked for is that of the file a successful download leaves, over
   mirrors, metalinks, resumed files, versions published meanwhile, bodies that
   end early, kills and interrupts.                                        *)
THEOREM VerifiedIsAlwaysRight == UrlSpec => []VerifiedMeansRight
<1>1. UrlInv => VerifiedMeansRight
  <2> SUFFICES ASSUME UrlInv PROVE VerifiedMeansRight
    OBVIOUS
  <2>1. proc.skipped \in BOOLEAN
    BY UrlTypes DEF UrlInv, ProcRecord
  <2>2. QED
    BY <2>1 DEF UrlInv, CodesTrue, VerifiedMeansRight, Ended
<1>2. QED  BY <1>1, UrlAlways, PTL

(* With -N, a file that was dated by a download of all its bytes from the url is
   skipped only when it is of one version, as new as what the server has, also
   when versions are published between the HEAD request, the bytes and the
   next process.                                                           *)
THEOREM UpToDateIsAlwaysCurrent == UrlSpec => []UpToDateIsCurrent
<1>1. UrlInv => UpToDateIsCurrent
  <2> SUFFICES ASSUME UrlInv PROVE UpToDateIsCurrent
    OBVIOUS
  <2>1. proc.skipped \in BOOLEAN
    BY UrlTypes DEF UrlInv, ProcRecord
  <2>2. QED
    BY <2>1 DEF UrlInv, DatesTrue, SkipTrue, UpToDateIsCurrent, Ended
<1>2. QED  BY <1>1, UrlAlways, PTL

(* The exit code and the hooks of a url agree with what happened to it,
   wherever the interrupt comes.                                           *)
THEOREM OutcomeIsAlwaysTold == UrlSpec => []OutcomeIsTold
<1>1. UrlInv => OutcomeIsTold
  <2> SUFFICES ASSUME UrlInv PROVE OutcomeIsTold
    OBVIOUS
  <2>1. proc.cancelled \in BOOLEAN /\ proc.opt.cmd \in {"url", "metalink"}
    BY UrlTypes DEF UrlInv, ProcRecord, Options
  <2>2. ExitCodeHasCause
    BY <2>1 DEF UrlInv, CodesTrue, ExitCodeHasCause, Ended
  <2>3. HookMatchesExit
    BY <2>1 DEF UrlInv, HooksTrue, HookMatchesExit, NoHook
  <2>4. QED
    BY <2>2, <2>3 DEF OutcomeIsTold
<1>2. QED  BY <1>1, UrlAlways, PTL

-----------------------------------------------------------------------------
(* A batch: the queue, item by item. *)
Statuses == {"pending", "downloading", "completed", "failed"}
Sums == {line.sum : line \in BatchLines}
QueueItem == [url : BatchUrls, path : BatchPaths, sum : Sums, status : Statuses]

BatchRecord ==
  [at : {"load", "next", "download", "verify", "exited"}, item : Nat, completed : Nat,
   failed : Nat, cancelled : BOOLEAN, code : {-1, 0, 1, 2, 8}]

BatchTypes ==
  /\ queue \in Seq(QueueItem)
  /\ files = [p \in BatchPaths |-> files[p]]
  /\ batch \in BatchRecord

(* The items before the one in hand are done, those after it are pending. *)
InOrder ==
  /\ batch.item >= 1 /\ batch.item <= Len(queue) + 1
  /\ \A i \in DOMAIN queue :
       /\ i < batch.item => queue[i].status \in {"completed", "failed"}
       /\ i > batch.item => queue[i].status = "pending"
       /\ i = batch.item => queue[i].status = IF batch.at \in {"download", "verify"}
                                              THEN "downloading" ELSE "pending"
  /\ batch.at \in {"download", "verify"} => batch.item <= Len(queue)
  /\ batch.at = "load" => batch.item = 1 /\ batch.failed = 0 /\ batch.completed = 0

Counted == Count("completed") = batch.completed /\ Count("failed") = batch.failed

CodesFollow ==
  /\ batch.at # "exited" => batch.code = -1
  /\ batch.at \in {"next", "download", "verify"} => queue # <<>>
  /\ batch.code = 0 => batch.item = Len(queue) + 1 /\ batch.failed = 0 /\ queue # <<>>
  /\ batch.code = 1 => batch.item = Len(queue) + 1 /\ batch.failed > 0
  /\ batch.code = 8 => batch.item <= Len(queue) /\ batch.cancelled = TRUE
  /\ batch.code = 2 => batch.item = 1

FilesFollow ==
  /\ CompletedIsRight
  /\ batch.at = "verify" => files[queue[batch.item].path] = queue[batch.item].url

BatchInv == BatchTypes /\ InOrder /\ Counted /\ CodesFollow /\ FilesFollow

(* Boolean fields apart, a record in hand has its fields in their types. *)
LEMMA BatchFields ==
  ASSUME BatchTypes
  PROVE  /\ batch.item \in Nat /\ batch.completed \in Nat /\ batch.failed \in Nat
         /\ batch.code \in {-1, 0, 1, 2, 8} /\ Len(queue) \in Nat
         /\ DOMAIN queue = 1 .. Len(queue)
         /\ \A i \in DOMAIN queue : queue[i] \in QueueItem
  BY DEF BatchTypes, BatchRecord

WithStatus(status) == {i \in DOMAIN queue : queue[i].status = status}

LEMMA CountIsCardinality ==
  ASSUME BatchTypes, NEW status
  PROVE  /\ Count(status) = Cardinality(WithStatus(status))
         /\ IsFiniteSet(WithStatus(status)) /\ Count(status) \in Nat
<1>1. IsFiniteSet(DOMAIN queue)
  BY BatchFields, FS_Interval
<1>2. WithStatus(status) \subseteq DOMAIN queue
  BY DEF WithStatus
<1>3. IsFiniteSet(WithStatus(status))
  BY <1>1, <1>2, FS_Subset
<1>4. QED
  BY <1>3, FS_CardinalityType DEF Count, WithStatus

(* What UpdateStatus changes. *)
LEMMA StatusUpdated ==
  ASSUME BatchTypes, NEW i \in DOMAIN queue, NEW status \in Statuses, UpdateStatus(i, status)
  PROVE  /\ queue' \in Seq(QueueItem) /\ Len(queue') = Len(queue)
         /\ DOMAIN queue' = DOMAIN queue /\ queue'[i].status = status
         /\ \A j \in DOMAIN queue \ {i} : queue'[j] = queue[j]
         /\ \A j \in DOMAIN queue : /\ queue'[j].url = queue[j].url
                                     /\ queue'[j].path = queue[j].path
                                     /\ queue'[j].sum = queue[j].sum
<1>1. queue \in Seq(QueueItem) /\ queue[i] \in QueueItem
  BY BatchFields DEF BatchTypes
<1>2. queue' = [queue EXCEPT ![i] = [queue[i] EXCEPT !.status = status]]
  BY DEF UpdateStatus
<1>3. [queue[i] EXCEPT !.status = status] \in QueueItem
  BY <1>1 DEF QueueItem
<1>4. /\ queue' \in Seq(QueueItem) /\ Len(queue') = Len(queue) /\ DOMAIN queue' = DOMAIN queue
      /\ queue'[i] = [queue[i] EXCEPT !.status = status]
      /\ \A j \in DOMAIN queue \ {i} : queue'[j] = queue[j]
  BY <1>1, <1>2, <1>3
<1>5. /\ queue'[i].status = status /\ queue'[i].url = queue[i].url
      /\ queue'[i].path = queue[i].path /\ queue'[i].sum = queue[i].sum
  BY <1>1, <1>4 DEF QueueItem
<1>6. QED
  BY <1>4, <1>5

(* The item leaves one count and enters another. *)
LEMMA CountsMove ==
  ASSUME BatchTypes, NEW i \in DOMAIN queue, NEW status \in Statuses, UpdateStatus(i, status),
         queue[i].status # status
  PROVE  /\ Count(status)' = Count(status) + 1
         /\ \A other \in Statuses \ {status, queue[i].status} : Count(other)' = Count(other)
<1>1. /\ DOMAIN queue' = DOMAIN queue /\ queue'[i].status = status
      /\ \A j \in DOMAIN queue \ {i} : queue'[j] = queue[j]
  BY StatusUpdated
<1>2. WithStatus(status)' = WithStatus(status) \cup {i} /\ i \notin WithStatus(status)
  BY <1>1 DEF WithStatus
<1>3. Count(status)' = Cardinality(WithStatus(status)')
  BY DEF Count, WithStatus
<1>4. Count(status)' = Count(status) + 1
  BY <1>2, <1>3, CountIsCardinality, FS_AddElement
<1>5. ASSUME NEW other \in Statuses \ {status, queue[i].status}
      PROVE  Count(other)' = Count(other)
  <2>1. {j \in DOMAIN queue' : queue'[j].status = other} = {j \in DOMAIN queue : queue[j].status = other}
    BY <1>1
  <2>2. QED
    BY <2>1 DEF Count
<1>6. QED
  BY <1>4, <1>5

LEMMA BatchInvInit == BatchInit => BatchInv
<1> SUFFICES ASSUME BatchInit PROVE BatchInv
  OBVIOUS
<1>1. batch \in BatchRecord
  BY DEF BatchInit, BatchRecord
<1>2. queue \in Seq(QueueItem) /\ files = [p \in BatchPaths |-> files[p]] /\ queue = <<>>
  BY DEF BatchInit
<1>3. BatchTypes
  BY <1>1, <1>2 DEF BatchTypes
<1>4. /\ batch.at = "load" /\ batch.item = 1 /\ batch.completed = 0 /\ batch.failed = 0
      /\ batch.code = -1
  BY DEF BatchInit
<1>5. DOMAIN queue = {} /\ Len(queue) = 0
  BY <1>2
<1>6. InOrder /\ CodesFollow /\ FilesFollow
  BY <1>4, <1>5 DEF InOrder, CodesFollow, FilesFollow, CompletedIsRight
<1>7. Counted
  <2>1. \A status : WithStatus(status) = {}
    BY <1>5 DEF WithStatus
  <2>2. QED
    BY <1>3, <1>4, <2>1, CountIsCardinality, FS_EmptySet DEF Counted
<1>8. QED
  BY <1>3, <1>6, <1>7 DEF BatchInv

LEMMA BatchEndsSets ==
  ASSUME BatchTypes, NEW code \in {0, 1, 2, 8}, BatchEnds(code)
  PROVE  /\ batch' \in BatchRecord /\ batch'.at = "exited" /\ batch'.code = code
         /\ batch'.item = batch.item /\ batch'.completed = batch.completed
         /\ batch'.failed = batch.failed /\ batch'.cancelled = batch.cancelled
  BY DEF BatchTypes, BatchRecord, BatchEnds

(* The batch ends with a code that follows from how far it came. *)
LEMMA EndKeeps ==
  ASSUME BatchInv, NEW code \in {0, 1, 2, 8}, BatchEnds(code), UNCHANGED <<queue, files>>,
         batch.at \in {"load", "next"},
         code = 0 => batch.item = Len(queue) + 1 /\ batch.failed = 0 /\ queue # <<>>,
         code = 1 => batch.item = Len(queue) + 1 /\ batch.failed > 0,
         code = 8 => batch.item <= Len(queue) /\ batch.cancelled,
         code = 2 => batch.item = 1
  PROVE  BatchInv'
<1>1. /\ batch' \in BatchRecord /\ batch'.at = "exited" /\ batch'.code = code
      /\ batch'.item = batch.item /\ batch'.completed = batch.completed
      /\ batch'.failed = batch.failed /\ batch'.cancelled = batch.cancelled
  BY BatchEndsSets DEF BatchInv
<1>2. batch.cancelled \in BOOLEAN
  BY DEF BatchInv, BatchTypes, BatchRecord
<1>3. BatchTypes'
  BY <1>1 DEF BatchInv, BatchTypes
<1>4. InOrder' /\ FilesFollow'
  BY <1>1 DEF BatchInv, InOrder, FilesFollow, CompletedIsRight
<1>5. Counted'
  BY <1>1 DEF BatchInv, Counted, Count
<1>6. CodesFollow'
  BY <1>1, <1>2 DEF BatchInv, CodesFollow
<1>7. QED
  BY <1>3, <1>4, <1>5, <1>6 DEF BatchInv

LEMMA ItemIsQueueItem ==
  ASSUME NEW line \in BatchLines, line.kind = "item"
  PROVE  /\ Item(line) \in QueueItem /\ Item(line).status = "pending"
<1>1. line.url \in BatchUrls /\ line.out \in BatchPaths \cup {""} /\ line.sum \in Sums
  BY BatchAssumption DEF Sums
<1>2. (IF line.out = "" THEN Name[line.url] ELSE line.out) \in BatchPaths
  BY <1>1, BatchAssumption
<1>3. QED
  BY <1>1, <1>2 DEF Item, QueueItem, Statuses

(* Another line: one item more, and pending. *)
LEMMA LoadFromFileKeeps == ASSUME BatchInv, LoadFromFile PROVE BatchInv'
<1>1. PICK line \in BatchLines :
        \/ line.kind = "bad" /\ BatchEnds(2) /\ UNCHANGED queue
        \/ line.kind = "item" /\ queue' = Append(queue, Item(line)) /\ UNCHANGED batch
  BY DEF LoadFromFile
<1>2. batch.at = "load" /\ files' = files
  BY DEF LoadFromFile
<1>3. CASE BatchEnds(2) /\ UNCHANGED queue
  BY <1>2, <1>3, EndKeeps DEF BatchInv, InOrder
<1>4. CASE line.kind = "item" /\ queue' = Append(queue, Item(line)) /\ UNCHANGED batch
  <2> DEFINE item == Item(line)
  <2>1. item \in QueueItem /\ item.status = "pending"
    BY <1>4, ItemIsQueueItem
  <2> HIDE DEF item
  <2>2. queue \in Seq(QueueItem) /\ queue' = Append(queue, item) /\ batch' = batch
    BY <1>4 DEF BatchInv, BatchTypes, item
  <2>3. /\ queue' \in Seq(QueueItem) /\ Len(queue') = Len(queue) + 1
        /\ DOMAIN queue = 1 .. Len(queue) /\ DOMAIN queue' = 1 .. Len(queue) + 1
        /\ \A i \in DOMAIN queue : queue'[i] = queue[i]
        /\ queue'[Len(queue) + 1] = item /\ Len(queue) \in Nat /\ queue' # <<>>
    BY <2>1, <2>2
  <2>4. BatchTypes'
    BY <1>2, <2>2, <2>3 DEF BatchInv, BatchTypes
  <2>5. /\ batch.item = 1 /\ \A i \in DOMAIN queue : queue[i].status = "pending"
    BY <1>2, BatchFields DEF BatchInv, InOrder
  <2>6. \A i \in DOMAIN queue' : queue'[i].status = "pending"
    BY <2>1, <2>3, <2>5
  <2>7. InOrder'
    BY <1>2, <2>2, <2>3, <2>5, <2>6 DEF BatchInv, InOrder
  <2>8. Counted'
    <3>1. \A status \in {"completed", "failed"} : WithStatus(status)' = WithStatus(status)
      BY <2>5, <2>6 DEF WithStatus
    <3>2. QED
      BY <2>2, <3>1 DEF BatchInv, Counted, Count, WithStatus
  <2>9. CodesFollow'
    BY <1>2, <2>2 DEF BatchInv, CodesFollow
  <2>10. FilesFollow'
    BY <1>2, <2>2, <2>6 DEF FilesFollow, CompletedIsRight
  <2>11. QED
    BY <2>4, <2>7, <2>8, <2>9, <2>10 DEF BatchInv
<1>5. QED
  BY <1>1, <1>3, <1>4

(* The process moves on within the batch, or is interrupted. *)
LEMMA BatchMoves ==
  ASSUME BatchInv, UNCHANGED <<queue, files>>, batch' \in BatchRecord,
         batch'.item = batch.item, batch'.completed = batch.completed,
         batch'.failed = batch.failed, batch'.code = batch.code,
         \/ batch'.at = batch.at
         \/ batch.at = "load" /\ batch'.at = "next" /\ queue # <<>>,
         batch'.cancelled = batch.cancelled \/ batch'.cancelled = TRUE
  PROVE  BatchInv'
<1>1. BatchTypes'
  BY DEF BatchInv, BatchTypes
<1>2. InOrder' /\ FilesFollow'
  BY DEF BatchInv, InOrder, FilesFollow, CompletedIsRight
<1>3. Counted'
  BY DEF BatchInv, Counted, Count
<1>4. CodesFollow'
  BY DEF BatchInv, CodesFollow
<1>5. QED
  BY <1>1, <1>2, <1>3, <1>4 DEF BatchInv

LEMMA BatchLoadedKeeps == ASSUME BatchInv, BatchLoaded PROVE BatchInv'
<1>1. batch.at = "load" /\ UNCHANGED <<queue, files>> /\ batch \in BatchRecord /\ batch.item = 1
  BY DEF BatchLoaded, BatchInv, BatchTypes, InOrder
<1>2. CASE queue = <<>>
  BY <1>1, <1>2, EndKeeps DEF BatchLoaded
<1>3. CASE queue # <<>>
  <2>1. batch' = [batch EXCEPT !.at = "next"]
    BY <1>3 DEF BatchLoaded
  <2>2. /\ batch' \in BatchRecord /\ batch'.item = batch.item /\ batch'.at = "next"
        /\ batch'.completed = batch.completed /\ batch'.failed = batch.failed
        /\ batch'.code = batch.code /\ batch'.cancelled = batch.cancelled
    BY <1>1, <2>1 DEF BatchRecord
  <2>3. QED
    BY <1>1, <1>3, <2>2, BatchMoves
<1>4. QED
  BY <1>2, <1>3

LEMMA NextItemKeeps == ASSUME BatchInv, NextItem PROVE BatchInv'
<1>1. /\ batch.at = "next" /\ files' = files /\ batch \in BatchRecord /\ queue # <<>>
      /\ batch.item \in Nat /\ Len(queue) \in Nat /\ batch.failed \in Nat
      /\ batch.item <= Len(queue) + 1
  BY BatchFields DEF NextItem, BatchInv, BatchTypes, InOrder, CodesFollow
<1>2. CASE batch.item > Len(queue)
  <2>1. BatchEnds(IF batch.failed > 0 THEN 1 ELSE 0) /\ UNCHANGED queue
    BY <1>1, <1>2 DEF NextItem
  <2>2. CASE batch.failed > 0
    <3>1. BatchEnds(1)
      BY <2>1, <2>2
    <3>2. QED
      BY <1>1, <1>2, <2>1, <2>2, <3>1, EndKeeps
  <2>3. CASE ~(batch.failed > 0)
    <3>1. BatchEnds(0) /\ batch.failed = 0
      BY <1>1, <2>1, <2>3
    <3>2. QED
      BY <1>1, <1>2, <2>1, <3>1, EndKeeps
  <2>4. QED
    BY <2>2, <2>3
<1>3. CASE batch.item <= Len(queue) /\ batch.cancelled
  <2>1. BatchEnds(8) /\ UNCHANGED queue
    BY <1>1, <1>3 DEF NextItem
  <2>2. QED
    BY <1>1, <1>3, <2>1, EndKeeps
<1>4. CASE batch.item <= Len(queue) /\ ~batch.cancelled
  <2>1. /\ UpdateStatus(batch.item, "downloading")
        /\ batch' = [batch EXCEPT !.at = "download"]
    BY <1>1, <1>4 DEF NextItem
  <2>2. batch.item \in DOMAIN queue
    BY <1>1, <1>4, BatchFields DEF BatchInv, InOrder
  <2>3. queue[batch.item].status = "pending"
    BY <1>1, <2>2 DEF BatchInv, InOrder
  <2>4. /\ batch' \in BatchRecord /\ batch'.at = "download" /\ batch'.item = batch.item
        /\ batch'.completed = batch.completed /\ batch'.failed = batch.failed
        /\ batch'.code = batch.code /\ batch'.cancelled = batch.cancelled
    BY <1>1, <2>1 DEF BatchRecord
  <2>5. /\ queue' \in Seq(QueueItem) /\ Len(queue') = Len(queue)
        /\ DOMAIN queue' = DOMAIN queue /\ queue'[batch.item].status = "downloading"
        /\ \A j \in DOMAIN queue \ {batch.item} : queue'[j] = queue[j]
        /\ \A j \in DOMAIN queue : /\ queue'[j].url = queue[j].url
                                    /\ queue'[j].path = queue[j].path
                                    /\ queue'[j].sum = queue[j].sum
    BY <2>1, <2>2, StatusUpdated DEF BatchInv, Statuses
  <2>6. BatchTypes'
    BY <1>1, <2>4, <2>5 DEF BatchInv, BatchTypes
  <2>7. InOrder'
    BY <1>1, <1>4, <2>2, <2>4, <2>5 DEF BatchInv, InOrder
  <2>8. Counted'
    BY <2>1, <2>2, <2>3, <2>4, CountsMove DEF BatchInv, Counted, Statuses
  <2>9. CodesFollow'
    BY <1>1, <1>4, <2>4, <2>5 DEF BatchInv, CodesFollow
  <2>10. FilesFollow'
    BY <1>1, <2>4, <2>5 DEF BatchInv, FilesFollow, CompletedIsRight
  <2>11. QED
    BY <2>6, <2>7, <2>8, <2>9, <2>10 DEF BatchInv
<1>5. QED
  BY <1>1, <1>2, <1>3, <1>4

(* The item in hand is done: it leaves the downloading ones for those of its
   result, which is counted, and its path alone may have another file.      *)
LEMMA ItemEnds ==
  ASSUME BatchInv, batch.at \in {"download", "verify"}, NEW status \in {"completed", "failed"},
         UpdateStatus(batch.item, status), batch' \in BatchRecord, batch'.at = "next",
         batch'.item = batch.item + 1, batch'.code = batch.code,
         batch'.completed = batch.completed + (IF status = "completed" THEN 1 ELSE 0),
         batch'.failed = batch.failed + (IF status = "failed" THEN 1 ELSE 0),
         files' = [p \in BatchPaths |-> files'[p]],
         \A p \in BatchPaths \ {queue[batch.item].path} : files'[p] = files[p],
         status = "completed" =>
           /\ files' = files /\ files[queue[batch.item].path] = queue[batch.item].url
           /\ queue[batch.item].sum \in {"none", "bad", queue[batch.item].url}
  PROVE  BatchInv'
<1> DEFINE k == batch.item
<1>1. /\ k \in DOMAIN queue /\ k \in Nat /\ Len(queue) \in Nat /\ k >= 1 /\ k <= Len(queue)
      /\ DOMAIN queue = 1 .. Len(queue)
      /\ batch.completed \in Nat /\ batch.failed \in Nat
  BY BatchFields DEF BatchInv, InOrder
<1>2. queue[k].status = "downloading"
  BY <1>1 DEF BatchInv, InOrder
<1>3. /\ queue' \in Seq(QueueItem) /\ Len(queue') = Len(queue) /\ DOMAIN queue' = DOMAIN queue
      /\ queue'[k].status = status
      /\ \A j \in DOMAIN queue \ {k} : queue'[j] = queue[j]
      /\ \A j \in DOMAIN queue : /\ queue'[j].url = queue[j].url
                                  /\ queue'[j].path = queue[j].path
                                  /\ queue'[j].sum = queue[j].sum
  BY <1>1, StatusUpdated DEF BatchInv, Statuses
<1>4. BatchTypes'
  BY <1>3 DEF BatchTypes
<1>5. InOrder'
  BY <1>1, <1>3 DEF BatchInv, InOrder
<1>6. Counted'
  <2>1. /\ Count(status)' = Count(status) + 1
        /\ \A other \in Statuses \ {status, "downloading"} : Count(other)' = Count(other)
    BY <1>1, <1>2, CountsMove DEF BatchInv, Statuses
  <2>2. CASE status = "completed"
    BY <1>1, <2>1, <2>2 DEF BatchInv, Counted, Statuses
  <2>3. CASE status = "failed"
    BY <1>1, <2>1, <2>3 DEF BatchInv, Counted, Statuses
  <2>4. QED
    BY <2>2, <2>3
<1>7. CodesFollow'
  BY <1>1, <1>3 DEF BatchInv, CodesFollow
<1>8. FilesFollow'
  <2>1. ASSUME NEW i \in DOMAIN queue', queue'[i].status = "completed",
               \A j \in DOMAIN queue' \ {i} : queue'[j].path # queue'[i].path
        PROVE  /\ files'[queue'[i].path] = queue'[i].url
               /\ queue'[i].sum \in {"none", "bad", queue'[i].url}
    <3>1. i \in DOMAIN queue /\ \A j \in DOMAIN queue \ {i} : queue[j].path # queue[i].path
      BY <1>3, <2>1
    <3>2. CASE i = k
      BY <1>3, <2>1, <3>2
    <3>3. CASE i # k
      <4>1. queue'[i] = queue[i] /\ queue[i].path # queue[k].path
        BY <1>1, <1>3, <3>1, <3>3
      <4>2. queue[i].path \in BatchPaths
        BY <3>1, BatchFields DEF BatchInv, QueueItem
      <4>3. files'[queue[i].path] = files[queue[i].path]
        BY <4>1, <4>2
      <4>4. QED
        BY <2>1, <3>1, <4>1, <4>3 DEF BatchInv, FilesFollow, CompletedIsRight
    <3>4. QED
      BY <3>2, <3>3
  <2>2. QED
    BY <2>1 DEF FilesFollow, CompletedIsRight
<1>9. QED
  BY <1>4, <1>5, <1>6, <1>7, <1>8 DEF BatchInv

LEMMA ItemFailsSets ==
  ASSUME BatchTypes, ItemFails
  PROVE  /\ UpdateStatus(batch.item, "failed")
         /\ batch' \in BatchRecord /\ batch'.at = "next" /\ batch'.item = batch.item + 1
         /\ batch'.code = batch.code /\ batch'.completed = batch.completed + 0
         /\ batch'.failed = batch.failed + 1
<1>1. batch.item + 1 \in Nat /\ batch.failed + 1 \in Nat /\ batch.completed + 0 = batch.completed
  BY BatchFields
<1>2. batch' = [batch EXCEPT !.at = "next", !.item = @ + 1, !.failed = @ + 1]
  BY DEF ItemFails
<1>3. QED
  BY <1>1, <1>2 DEF BatchTypes, BatchRecord, ItemFails

LEMMA ItemVerifiedKeeps == ASSUME BatchInv, ItemVerified PROVE BatchInv'
<1>1. /\ batch.at = "verify" /\ files' = files /\ batch \in BatchRecord
      /\ files = [p \in BatchPaths |-> files[p]]
      /\ files[queue[batch.item].path] = queue[batch.item].url
  BY DEF ItemVerified, BatchInv, BatchTypes, FilesFollow
<1>2. CASE queue[batch.item].sum \in {"none", "bad", queue[batch.item].url}
  <2>1. /\ UpdateStatus(batch.item, "completed")
        /\ batch' = [batch EXCEPT !.at = "next", !.item = @ + 1, !.completed = @ + 1]
    BY <1>2 DEF ItemVerified
  <2>2. /\ batch' \in BatchRecord /\ batch'.at = "next" /\ batch'.item = batch.item + 1
        /\ batch'.code = batch.code /\ batch'.completed = batch.completed + 1
        /\ batch'.failed = batch.failed + 0
    <3>1. batch.item + 1 \in Nat /\ batch.completed + 1 \in Nat
      BY BatchFields DEF BatchInv
    <3>2. batch.failed + 0 = batch.failed
      BY BatchFields DEF BatchInv
    <3>3. QED
      BY <1>1, <2>1, <3>1, <3>2 DEF BatchRecord
  <2>3. QED
    BY <1>1, <1>2, <2>1, <2>2, ItemEnds
<1>3. CASE queue[batch.item].sum \notin {"none", "bad", queue[batch.item].url}
  <2>1. ItemFails
    BY <1>3 DEF ItemVerified
  <2>2. QED
    BY <1>1, <2>1, ItemFailsSets, ItemEnds DEF BatchInv
<1>4. QED
  BY <1>2, <1>3

LEMMA ItemDownloadedKeeps == ASSUME BatchInv, ItemDownloaded PROVE BatchInv'
<1> DEFINE k == batch.item
<1>1. /\ batch.at = "download" /\ queue' = queue /\ batch \in BatchRecord
      /\ files' = [files EXCEPT ![queue[k].path] = queue[k].url]
      /\ batch' = [batch EXCEPT !.at = "verify"]
  BY DEF ItemDownloaded, BatchInv, BatchTypes
<1>2. k \in DOMAIN queue /\ queue[k].path \in BatchPaths /\ queue[k].status = "downloading"
  BY <1>1, BatchFields DEF BatchInv, InOrder, QueueItem
<1>3. /\ batch' \in BatchRecord /\ batch'.at = "verify" /\ batch'.item = batch.item
      /\ batch'.completed = batch.completed /\ batch'.failed = batch.failed
      /\ batch'.code = batch.code
  BY <1>1 DEF BatchRecord
<1>4. /\ files' = [p \in BatchPaths |-> files'[p]] /\ files'[queue[k].path] = queue[k].url
      /\ \A p \in BatchPaths \ {queue[k].path} : files'[p] = files[p]
  BY <1>1, <1>2 DEF BatchInv, BatchTypes
<1>5. BatchTypes'
  BY <1>1, <1>3, <1>4 DEF BatchInv, BatchTypes
<1>6. InOrder' /\ CodesFollow'
  BY <1>1, <1>3 DEF BatchInv, InOrder, CodesFollow
<1>7. Counted'
  BY <1>1, <1>3 DEF BatchInv, Counted, Count
<1>8. FilesFollow'
  <2>1. ASSUME NEW i \in DOMAIN queue, queue[i].status = "completed",
               \A j \in DOMAIN queue \ {i} : queue[j].path # queue[i].path
        PROVE  /\ files'[queue[i].path] = queue[i].url
               /\ queue[i].sum \in {"none", "bad", queue[i].url}
    <3>1. i # k /\ queue[i].path # queue[k].path
      BY <1>2, <2>1
    <3>2. queue[i].path \in BatchPaths
      BY BatchFields DEF BatchInv, QueueItem
    <3>3. QED
      BY <1>4, <2>1, <3>1, <3>2 DEF BatchInv, FilesFollow, CompletedIsRight
  <2>2. QED
    BY <1>1, <1>3, <1>4, <2>1 DEF FilesFollow, CompletedIsRight
<1>9. QED
  BY <1>5, <1>6, <1>7, <1>8 DEF BatchInv

LEMMA ItemDownloadFailsKeeps == ASSUME BatchInv, ItemDownloadFails PROVE BatchInv'
<1> DEFINE k == batch.item
<1>1. PICK rest \in {files[queue[k].path], "part"} : files' = [files EXCEPT ![queue[k].path] = rest]
  BY DEF ItemDownloadFails
<1>2. /\ files' = [p \in BatchPaths |-> files'[p]]
      /\ \A p \in BatchPaths \ {queue[k].path} : files'[p] = files[p]
  BY <1>1 DEF BatchInv, BatchTypes
<1>3. batch.at = "download" /\ ItemFails
  BY DEF ItemDownloadFails
<1>4. QED
  BY <1>2, <1>3, ItemFailsSets, ItemEnds DEF BatchInv

LEMMA ItemVerifyFailsKeeps == ASSUME BatchInv, ItemVerifyFails PROVE BatchInv'
<1>1. /\ batch.at = "verify" /\ ItemFails /\ files' = files
      /\ files = [p \in BatchPaths |-> files[p]]
  BY DEF ItemVerifyFails, BatchInv, BatchTypes
<1>2. QED
  BY <1>1, ItemFailsSets, ItemEnds DEF BatchInv

LEMMA BatchInterruptKeeps == ASSUME BatchInv, BatchInterrupt PROVE BatchInv'
<1>1. batch \in BatchRecord
  BY DEF BatchInv, BatchTypes
<1>2. /\ batch' \in BatchRecord /\ batch'.item = batch.item /\ batch'.at = batch.at
      /\ batch'.completed = batch.completed /\ batch'.failed = batch.failed
      /\ batch'.code = batch.code /\ batch'.cancelled = TRUE
  BY <1>1 DEF BatchInterrupt, BatchRecord
<1>3. QED
  BY <1>2, BatchMoves DEF BatchInterrupt

LEMMA BatchInvStep == BatchInv /\ [BatchNext]_batchVars => BatchInv'
<1> SUFFICES ASSUME BatchInv, [BatchNext]_batchVars PROVE BatchInv'
  OBVIOUS
<1>1. CASE BatchRefused
  BY <1>1, EndKeeps DEF BatchRefused, BatchInv, InOrder
<1>2. CASE UNCHANGED batchVars
  BY <1>2 DEF batchVars, BatchInv, BatchTypes, InOrder, Counted, Count, CodesFollow, FilesFollow,
              CompletedIsRight
<1>3. QED
  BY <1>1, <1>2, LoadFromFileKeeps, BatchLoadedKeeps, NextItemKeeps, ItemDownloadFailsKeeps,
     ItemDownloadedKeeps, ItemVerifiedKeeps, ItemVerifyFailsKeeps, BatchInterruptKeeps
  DEF BatchNext

(* All the items of a queue have the status, or none has. *)
LEMMA CountOfAll ==
  ASSUME BatchTypes, NEW status
  PROVE  /\ (\A i \in DOMAIN queue : queue[i].status = status) => Count(status) = Len(queue)
         /\ Count(status) = 0 <=> \A i \in DOMAIN queue : queue[i].status # status
<1>1. /\ Count(status) = Cardinality(WithStatus(status)) /\ IsFiniteSet(WithStatus(status))
  BY CountIsCardinality
<1>2. ASSUME \A i \in DOMAIN queue : queue[i].status = status PROVE Count(status) = Len(queue)
  <2>1. WithStatus(status) = 1 .. Len(queue)
    BY <1>2, BatchFields DEF WithStatus
  <2>2. QED
    <3>1. Len(queue) \in Nat
      BY BatchFields
    <3>2. \A n \in Nat : Cardinality(1 .. n) = n
      BY FS_Interval
    <3>3. QED
      BY <1>1, <2>1, <3>1, <3>2
<1>3. Count(status) = 0 <=> WithStatus(status) = {}
  BY <1>1, FS_EmptySet
<1>4. QED
  BY <1>2, <1>3 DEF WithStatus

(* The counters, the statistics, the exit code and the files of a batch agree,
   for a file of any number of lines, whichever items fail and wherever it is
   interrupted (runBatchDownload).                                         *)
THEOREM BatchIsAlwaysTrue == BatchSpec => []BatchIsTrue
<1>1. BatchInv => BatchIsTrue
  <2> SUFFICES ASSUME BatchInv PROVE BatchIsTrue
    OBVIOUS
  <2>0. /\ BatchTypes /\ InOrder /\ Counted /\ CodesFollow /\ batch.cancelled \in BOOLEAN
        /\ batch.item \in Nat /\ Len(queue) \in Nat /\ DOMAIN queue = 1 .. Len(queue)
    BY BatchFields DEF BatchInv, BatchTypes, BatchRecord
  <2>1. Count("downloading") = IF batch.at \in {"download", "verify"} THEN 1 ELSE 0
    <3>1. CASE batch.at \in {"download", "verify"}
      <4>1. WithStatus("downloading") = {batch.item}
        BY <2>0, <3>1 DEF WithStatus, InOrder
      <4>2. QED
        BY <2>0, <3>1, <4>1, CountIsCardinality, FS_Singleton
    <3>2. CASE batch.at \notin {"download", "verify"}
      <4>1. \A i \in DOMAIN queue : queue[i].status # "downloading"
        BY <2>0, <3>2 DEF InOrder
      <4>2. QED
        BY <2>0, <3>2, <4>1, CountOfAll
    <3>3. QED
      BY <3>1, <3>2
  <2>2. SummaryAgrees
    BY <2>0, <2>1 DEF SummaryAgrees, Counted
  <2>3. batch.code = 0 => Count("completed") = Len(queue) /\ queue # <<>>
    <3> SUFFICES ASSUME batch.code = 0 PROVE Count("completed") = Len(queue) /\ queue # <<>>
      OBVIOUS
    <3>1. batch.item = Len(queue) + 1 /\ Count("failed") = 0 /\ queue # <<>>
      BY <2>0 DEF CodesFollow, Counted
    <3>2. \A i \in DOMAIN queue : queue[i].status = "completed"
      BY <2>0, <3>1, CountOfAll DEF InOrder
    <3>3. QED
      BY <2>0, <3>1, <3>2, CountOfAll
  <2>4. batch.code = 1 => Count("failed") > 0 /\ Count("pending") = 0
    <3> SUFFICES ASSUME batch.code = 1 PROVE Count("failed") > 0 /\ Count("pending") = 0
      OBVIOUS
    <3>1. batch.item = Len(queue) + 1 /\ Count("failed") > 0
      BY <2>0 DEF CodesFollow, Counted
    <3>2. \A i \in DOMAIN queue : queue[i].status # "pending"
      BY <2>0, <3>1 DEF InOrder
    <3>3. QED
      BY <2>0, <3>1, <3>2, CountOfAll
  <2>5. batch.code = 8 => Count("pending") > 0 /\ batch.cancelled
    <3> SUFFICES ASSUME batch.code = 8 PROVE Count("pending") > 0 /\ batch.cancelled
      OBVIOUS
    <3>1. batch.item \in DOMAIN queue /\ queue[batch.item].status = "pending" /\ batch.cancelled
      BY <2>0 DEF CodesFollow, InOrder
    <3>2. Count("pending") # 0
      BY <2>0, <3>1, CountOfAll
    <3>3. QED
      BY <2>0, <3>1, <3>2, CountIsCardinality
  <2>6. batch.code = 2 => Count("pending") = Len(queue)
    <3> SUFFICES ASSUME batch.code = 2 PROVE Count("pending") = Len(queue)
      OBVIOUS
    <3>1. batch.item = 1 /\ batch.at \notin {"download", "verify"}
      BY <2>0 DEF CodesFollow
    <3>2. \A i \in DOMAIN queue : queue[i].status = "pending"
      BY <2>0, <3>1 DEF InOrder
    <3>3. QED
      BY <2>0, <3>2, CountOfAll
  <2>7. QED
    BY <2>2, <2>3, <2>4, <2>5, <2>6 DEF BatchIsTrue, BatchCodeTells, BatchInv, FilesFollow
<1>2. QED
  BY <1>1, BatchInvInit, BatchInvStep, PTL DEF BatchSpec

-----------------------------------------------------------------------------
(* The terminal UI: each message under way is true by what was sent, what is
   shown by what has come.                                                 *)
Succeeded == fetch.at = "returned" /\ fetch.err = FALSE

ModelState ==
  [state : {"connecting", "downloading", "paused", "completed", "error", "verifying"},
   downloaded : Nat, quitting : BOOLEAN, valid : BOOLEAN]

RunnerState ==
  [program : {"nil", "running", "over"}, paused : BOOLEAN, cancelled : BOOLEAN,
   stopped : BOOLEAN]

FetchState == [at : {"none", "run", "returned"}, bytes : 0 .. TuiSize, err : BOOLEAN]

Message == [kind : {"none", "progress", "complete", "error", "verifying", "valid", "invalid"},
            bytes : Nat]

MainState == [at : {"prepare", "start", "loop", "result", "exited"},
              sum : {"none", "bad", "right", "wrong"}, signalled : BOOLEAN,
              code : {-1, 0, 1, 2, 3}]

TuiState ==
  /\ model \in ModelState /\ runner \in RunnerState /\ fetch \in FetchState
  /\ mail \in [Senders -> Message]
  /\ finisher \in {"wait", "verifying", "verified", "sleep", "done"}
  /\ tuiMain \in MainState

(* What the download has told of itself, in its fields and to the finisher. *)
DownloadTold ==
  /\ fetch.err = TRUE => fetch.at = "returned"
  /\ finisher # "wait" => fetch.at = "returned"
  /\ finisher \in {"verifying", "verified"} => Succeeded

(* A message says nothing that is not so by the time it is taken. *)
MessagesTrue ==
  \A s \in Senders :
    /\ mail[s].kind = "none" => mail[s] = NoMail
    /\ mail[s].kind = "progress" => mail[s].bytes <= fetch.bytes /\ mail[s].bytes <= TuiSize
    /\ mail[s].kind = "complete" => Succeeded /\ mail[s].bytes = TuiSize
    /\ mail[s].kind \in {"verifying", "valid", "invalid"} => Succeeded
    /\ mail[s].kind = "error" => fetch.err = TRUE

ShownTrue ==
  /\ model.downloaded <= TuiSize
  /\ model.state \in {"connecting", "downloading", "paused"} => model.downloaded <= fetch.bytes
  /\ model.state \in {"completed", "verifying"} => Succeeded
  /\ model.state = "error" => fetch.err = TRUE

(* Who ended the loop, and what the exit code was made of. *)
EndsTrue ==
  /\ runner.stopped = TRUE => model.quitting = TRUE \/ fetch.at = "returned"
  /\ tuiMain.at = "prepare" => fetch.at = "none"
  /\ tuiMain.at = "result" =>
       model.quitting = TRUE \/ tuiMain.signalled = TRUE \/ fetch.at = "returned"
  /\ tuiMain.at # "exited" => tuiMain.code = -1
  /\ tuiMain.code = 0 => model.quitting = TRUE \/ tuiMain.signalled = TRUE \/ Succeeded
  /\ tuiMain.code = 3 => fetch.err = TRUE \/ fetch.at = "none"

TuiInv == TuiState /\ DownloadTold /\ MessagesTrue /\ ShownTrue /\ EndsTrue

LEMMA TuiInvInit == TuiInit => TuiInv
<1> SUFFICES ASSUME TuiInit PROVE TuiInv
  OBVIOUS
<1> USE TuiAssumption DEF TuiInit
<1>1. TuiState
  BY DEF TuiState, ModelState, RunnerState, FetchState, Message, MainState, NoMail
<1>2. DownloadTold /\ MessagesTrue /\ ShownTrue /\ EndsTrue
  BY DEF DownloadTold, MessagesTrue, ShownTrue, EndsTrue, NoMail, Succeeded
<1>3. QED  BY <1>1, <1>2 DEF TuiInv

LEMMA TuiInvStep == TuiInv /\ [TuiNext]_tuiVars => TuiInv'
<1> SUFFICES ASSUME TuiInv, [TuiNext]_tuiVars PROVE TuiInv'
  OBVIOUS
<1> USE TuiAssumption DEF TuiInv, TuiState, ModelState, RunnerState, FetchState, Message, MainState, DownloadTold, MessagesTrue, ShownTrue, EndsTrue, Succeeded
<1>0. CASE UNCHANGED tuiVars
  BY <1>0 DEF tuiVars
<1>1. CASE TuiPrepare
  <2>1. TuiState'
    <3>1. \A at \in {"start", "exited"}, code \in {2, 3, tuiMain.code} :
            [tuiMain EXCEPT !.at = at, !.code = code] \in MainState
      OBVIOUS
    <3>2. [tuiMain EXCEPT !.at = "start"] \in MainState
      OBVIOUS
    <3>3. tuiMain' \in MainState
      <4>1. \/ \E code \in {2, 3} : tuiMain' = [tuiMain EXCEPT !.at = "exited", !.code = code]
            \/ tuiMain' = [tuiMain EXCEPT !.at = "start"]
        BY ONLY <1>1 DEF TuiPrepare
      <4>2. QED
        BY ONLY <3>1, <3>2, <4>1
    <3>4. [fetch EXCEPT !.at = "run"] \in FetchState
      BY ONLY fetch \in FetchState, SMTT(30) DEF FetchState
    <3>5. fetch' \in FetchState
      BY ONLY <1>1, <3>4, TuiInv DEF TuiPrepare, TuiInv, TuiState
    <3>6. QED
      BY ONLY <1>1, <3>3, <3>5, TuiInv DEF TuiPrepare, TuiInv, TuiState
  <2>2. DownloadTold'
    BY <1>1 DEF TuiPrepare
  <2>3. MessagesTrue'
    BY <1>1 DEF TuiPrepare
  <2>4. ShownTrue'
    BY <1>1 DEF TuiPrepare
  <2>5. EndsTrue'
    <3>1. ASSUME NEW code \in {2, 3}, fetch' = fetch,
                 tuiMain' = [tuiMain EXCEPT !.at = "exited", !.code = code]
          PROVE  EndsTrue'
      <4>1. tuiMain'.at = "exited" /\ tuiMain'.code # 0 /\ fetch'.at = "none"
        BY <1>1, <3>1 DEF TuiPrepare
      <4>2. runner' = runner /\ model' = model
        BY <1>1 DEF TuiPrepare
      <4>3. QED
        BY <3>1, <4>1, <4>2
    <3>2. CASE /\ tuiMain' = [tuiMain EXCEPT !.at = "start"]
               /\ fetch' = [fetch EXCEPT !.at = "run"]
      BY <1>1, <3>2 DEF TuiPrepare
    <3>3. QED
      BY <1>1, <3>1, <3>2 DEF TuiPrepare
  <2>6. QED  BY <2>1, <2>2, <2>3, <2>4, <2>5
<1>2. CASE RunnerStart
  <2>1. TuiState'
    <3>1. \A at \in {"loop", "exited"}, code \in {1, tuiMain.code} :
            [tuiMain EXCEPT !.at = at, !.code = code] \in MainState
      OBVIOUS
    <3>2. [tuiMain EXCEPT !.at = "loop"] \in MainState
      OBVIOUS
    <3>3. tuiMain' \in MainState
      BY <1>2, <3>1, <3>2 DEF RunnerStart
    <3>4. \A p \in {"running", "over"} : [runner EXCEPT !.program = p] \in RunnerState
      OBVIOUS
    <3>5. runner' \in RunnerState
      BY <1>2, <3>4 DEF RunnerStart
    <3>6. QED
      BY <1>2, <3>3, <3>5 DEF RunnerStart
  <2>2. DownloadTold'
    BY <1>2 DEF RunnerStart
  <2>3. MessagesTrue'
    BY <1>2 DEF RunnerStart
  <2>4. ShownTrue'
    BY <1>2 DEF RunnerStart
  <2>5. EndsTrue'
    <3>1. CASE tuiMain' = [tuiMain EXCEPT !.at = "loop"]
      BY <1>2, <3>1 DEF RunnerStart
    <3>2. CASE /\ tuiMain' = [tuiMain EXCEPT !.at = "exited", !.code = 1]
               /\ runner' = [runner EXCEPT !.program = "over"]
      BY <1>2, <3>2 DEF RunnerStart
    <3>3. QED
      BY <1>2, <3>1, <3>2 DEF RunnerStart
  <2>6. QED  BY <2>1, <2>2, <2>3, <2>4, <2>5
<1>3. CASE PauseKey
  <2>1. TuiState'
    <3>1. model' \in ModelState
      BY <1>3 DEF PauseKey
    <3>2. \A b \in BOOLEAN : [runner EXCEPT !.paused = b] \in RunnerState
      OBVIOUS
    <3>3. \E b \in BOOLEAN : runner' = [runner EXCEPT !.paused = b] \/ runner' = runner
      BY ONLY <1>3 DEF PauseKey
    <3>4. runner' \in RunnerState
      BY ONLY <3>2, <3>3, TuiInv DEF TuiInv, TuiState
    <3>5. QED
      BY <1>3, <3>1, <3>4 DEF PauseKey
  <2>2. DownloadTold'
    BY <1>3 DEF PauseKey
  <2>3. MessagesTrue'
    BY <1>3 DEF PauseKey
  <2>4. ShownTrue'
    BY <1>3 DEF PauseKey
  <2>5. EndsTrue'
    BY <1>3 DEF PauseKey
  <2>6. QED  BY <2>1, <2>2, <2>3, <2>4, <2>5
<1>4. CASE QuitKey
  <2>1. TuiState'
    <3>1. [model EXCEPT !.quitting = TRUE] \in ModelState
      OBVIOUS
    <3>2. [runner EXCEPT !.cancelled = TRUE, !.stopped = TRUE] \in RunnerState
      OBVIOUS
    <3>3. QED
      BY ONLY <1>4, <3>1, <3>2, TuiInv DEF QuitKey, TuiInv, TuiState
  <2>2. DownloadTold' /\ MessagesTrue'
    BY <1>4 DEF QuitKey
  <2>3. ShownTrue'
    BY <1>4 DEF QuitKey
  <2>4. EndsTrue'
    BY <1>4 DEF QuitKey
  <2>5. QED  BY <2>1, <2>2, <2>3, <2>4
<1>5. CASE LoopEnds
  BY <1>5 DEF LoopEnds
<1>18. CASE SignalEnds
  <2>1. /\ tuiMain.at = "loop"
        /\ \/ tuiMain' = [tuiMain EXCEPT !.at = "result", !.signalled = TRUE]
           \/ tuiMain' = [tuiMain EXCEPT !.at = "exited", !.signalled = TRUE, !.code = 1]
    BY <1>18 DEF SignalEnds
  <2>2. tuiMain \in MainState
    OBVIOUS
  <2>3. /\ tuiMain' \in MainState /\ tuiMain'.signalled = TRUE
        /\ \/ tuiMain'.at = "result" /\ tuiMain'.code = tuiMain.code
           \/ tuiMain'.at = "exited" /\ tuiMain'.code = 1
    BY ONLY <2>1, <2>2 DEF MainState
  <2>4. runner' \in RunnerState /\ runner'.stopped = runner.stopped
    BY <1>18 DEF SignalEnds
  <2>5. model' = model /\ fetch' = fetch /\ mail' = mail /\ finisher' = finisher
    BY <1>18 DEF SignalEnds
  <2>6. TuiState' /\ DownloadTold' /\ MessagesTrue' /\ ShownTrue'
    BY <2>3, <2>4, <2>5
  <2>7. EndsTrue'
    <3>1. tuiMain.code = -1
      BY <2>1
    <3>2. QED
      BY <2>3, <2>4, <2>5, <3>1
  <2>8. QED  BY <2>6, <2>7
<1>6. CASE TuiResult
  <2>1. TuiState'
    <3>1. \A code \in {0, 3} : [tuiMain EXCEPT !.at = "exited", !.code = code] \in MainState
      OBVIOUS
    <3>2. tuiMain' \in MainState
      BY <1>6, <3>1 DEF TuiResult
    <3>3. QED
      BY <1>6, <3>2 DEF TuiResult
  <2>2. DownloadTold'
    BY <1>6 DEF TuiResult
  <2>3. MessagesTrue'
    BY <1>6 DEF TuiResult
  <2>4. ShownTrue'
    BY <1>6 DEF TuiResult
  <2>5. EndsTrue'
    BY <1>6 DEF TuiResult
  <2>6. QED  BY <2>1, <2>2, <2>3, <2>4, <2>5
<1>7. CASE FetchMore
  BY <1>7 DEF FetchMore
<1>8. CASE FetchDone
  BY <1>8 DEF FetchDone
<1>9. CASE FetchFails
  <2>1. TuiState'
    <3>1. [fetch EXCEPT !.at = "returned", !.err = TRUE] \in FetchState
      OBVIOUS
    <3>2. fetch' \in FetchState
      BY <1>9, <3>1 DEF FetchFails
    <3>3. QED
      BY <1>9, <3>2 DEF FetchFails
  <2>2. DownloadTold'
    BY <1>9 DEF FetchFails
  <2>3. MessagesTrue'
    BY <1>9 DEF FetchFails
  <2>4. ShownTrue'
    BY <1>9 DEF FetchFails
  <2>5. EndsTrue'
    BY <1>9 DEF FetchFails
  <2>6. QED  BY <2>1, <2>2, <2>3, <2>4, <2>5
<1>10. CASE UpdateProgress
  BY <1>10 DEF UpdateProgress, Send, Msg, Senders
<1>11. CASE FinishError
  BY <1>11 DEF FinishError, Send, Msg, Senders
<1>12. CASE FinishComplete
  BY <1>12 DEF FinishComplete, Send, Msg, Senders
<1>13. CASE FinishVerifying
  BY <1>13 DEF FinishVerifying, Send, Msg, Senders
<1>14. CASE FinishVerified
  BY <1>14 DEF FinishVerified, Send, Msg, Senders
<1>15. CASE RunnerStop
  <2>1. TuiState'
    <3>1. [runner EXCEPT !.cancelled = TRUE, !.stopped = TRUE] \in RunnerState
      OBVIOUS
    <3>2. runner' \in RunnerState
      BY <1>15, <3>1 DEF RunnerStop
    <3>3. QED
      BY <1>15, <3>2 DEF RunnerStop
  <2>2. DownloadTold'
    BY <1>15 DEF RunnerStop
  <2>3. MessagesTrue'
    BY <1>15 DEF RunnerStop
  <2>4. ShownTrue'
    BY <1>15 DEF RunnerStop
  <2>5. EndsTrue'
    BY <1>15 DEF RunnerStop
  <2>6. QED  BY <2>1, <2>2, <2>3, <2>4, <2>5
<1>16. CASE \E s \in Senders : Receive(s)
  <2>1. PICK s \in Senders : Receive(s)
    BY <1>16
  <2> DEFINE msg == mail[s]
  <2>2. msg \in Message /\ msg.kind # "none"
    BY <2>1 DEF Receive
  <2>3. /\ mail' = [mail EXCEPT ![s] = NoMail] /\ model' = Received(msg)
        /\ runner' = runner /\ fetch' = fetch /\ tuiMain' = tuiMain /\ finisher' = finisher
    BY <2>1 DEF Receive
  <2>4. /\ model' \in ModelState /\ model'.quitting = model.quitting
        /\ model'.downloaded <= TuiSize
        /\ model'.state \in {"connecting", "downloading", "paused"} =>
             model'.downloaded <= fetch.bytes
        /\ model'.state \in {"completed", "verifying"} => Succeeded
        /\ model'.state = "error" => fetch.err = TRUE
    <3>1. CASE msg.kind = "progress"
      <4>1. model' = [model EXCEPT !.state = "downloading", !.downloaded = msg.bytes]
        BY <2>3, <3>1 DEF Received
      <4>2. QED  BY <2>2, <3>1, <4>1
    <3>2. CASE msg.kind = "complete"
      <4>1. model' = [model EXCEPT !.state = "completed", !.downloaded = msg.bytes]
        BY <2>3, <3>2 DEF Received
      <4>2. Succeeded /\ msg.bytes = TuiSize
        BY <3>2
      <4>3. msg.bytes \in Nat /\ TuiSize \in Nat
        BY <2>2
      <4>4. model' \in ModelState /\ model'.quitting = model.quitting
        BY <4>1, <4>3
      <4>5. model'.downloaded = msg.bytes /\ model'.state = "completed"
        BY <4>1
      <4>6. QED  BY <4>2, <4>3, <4>4, <4>5
    <3>3. CASE msg.kind = "error"
      BY <2>2, <2>3, <3>3 DEF Received
    <3>4. CASE msg.kind = "verifying"
      BY <2>2, <2>3, <3>4 DEF Received
    <3>5. CASE msg.kind = "valid"
      BY <2>2, <2>3, <3>5 DEF Received
    <3>6. CASE msg.kind = "invalid"
      BY <2>2, <2>3, <3>6 DEF Received
    <3>7. QED
      BY <2>2, <3>1, <3>2, <3>3, <3>4, <3>5, <3>6
  <2>5. MessagesTrue' /\ mail' \in [Senders -> Message]
    BY <2>3 DEF NoMail
  <2>6. DownloadTold' /\ EndsTrue'
    BY <2>3, <2>4
  <2>7. QED
    BY <2>3, <2>4, <2>5, <2>6
<1>17. QED
  BY <1>0, <1>1, <1>2, <1>3, <1>4, <1>5, <1>6, <1>7, <1>8, <1>9, <1>10, <1>11,
     <1>12, <1>13, <1>14, <1>15, <1>16, <1>18 DEF TuiNext

LEMMA TuiAlways == TuiSpec => []TuiInv
  BY TuiInvInit, TuiInvStep, PTL DEF TuiSpec

(* Nothing is shown that is ahead of the download, whatever order the four
   goroutines and the keys come in: no progress that is not made, no end that
   Download has not come to, no error that it has not returned.            *)
THEOREM ShownIsAlwaysTrue == TuiSpec => []ShownIsTrue
<1>1. TuiInv => ShownIsTrue
  BY DEF TuiInv, TuiState, FetchState, ShownTrue, ShownIsTrue, Succeeded
<1>2. QED  BY <1>1, TuiAlways, PTL

(* Unless the user quits or a signal ends the loop, the exit code is the
   download's, although main reads its error with no lock and no wait.      *)
THEOREM CodeIsAlwaysTrue == TuiSpec => []UnquitCodeIsTrue
<1>1. TuiInv => UnquitCodeIsTrue
  BY DEF TuiInv, TuiState, FetchState, ModelState, MainState, EndsTrue, UnquitCodeIsTrue, Succeeded
<1>2. QED  BY <1>1, TuiAlways, PTL

(* The types of the four goroutines' state; no progress passes the size. *)
THEOREM TuiTypeCorrect == TuiSpec => []TuiTypeOK
<1>1. TuiInv => TuiTypeOK
  <2> SUFFICES ASSUME TuiInv PROVE TuiTypeOK
    OBVIOUS
  <2>1. /\ model.state \in {"connecting", "downloading", "paused", "completed", "error", "verifying"}
        /\ model.downloaded \in Nat /\ model.downloaded <= TuiSize
    BY DEF TuiInv, TuiState, ModelState, ShownTrue
  <2>2. fetch.bytes \in 0 .. TuiSize
    BY DEF TuiInv, TuiState, FetchState
  <2>3. runner.program \in {"nil", "running", "over"} /\ tuiMain.code \in {-1, 0, 1, 2, 3}
    BY DEF TuiInv, TuiState, RunnerState, MainState
  <2>4. model.downloaded \in 0 .. TuiSize
    BY <2>1, <2>2, TuiAssumption
  <2>5. QED
    BY <2>1, <2>2, <2>3, <2>4 DEF TuiTypeOK
<1>2. QED  BY <1>1, TuiAlways, PTL

(* For any size of the file and any order of the goroutines, keys, signals and
   messages: what Download has returned is what the screen shows of it and,
   without a quit or a signal, what the exit code says; a pause is shown while
   the download goes on, and an announced size as complete that did not come. *)
THEOREM TuiIsTrue == TuiSpec => []TuiTellsTruth
<1>1. ShownIsTrue /\ UnquitCodeIsTrue => TuiTellsTruth
  BY DEF TuiTellsTruth
<1>2. QED
  BY <1>1, ShownIsAlwaysTrue, CodeIsAlwaysTrue, PTL

-----------------------------------------------------------------------------
(* A behaviour of the module for TLC is one of each command: the others stand
   still.                                                                  *)
LEMMA PartsStandStill ==
  MCSpec => UrlSpec /\ BatchSpec /\ FtpSpec /\ TorrentSpec /\ TuiSpec
<1>1. MCInit => UrlInit /\ BatchInit /\ FtpInit /\ TorrentInit /\ TuiInit
  BY DEF MCInit
<1>2. [MCNext]_mcVars => /\ [UrlNext]_urlVars /\ [BatchNext]_batchVars /\ [FtpNext]_ftp
                         /\ [TorrentNext]_torrentVars /\ [TuiNext]_tuiVars
  BY DEF MCNext, MCUrlNext, mcVars, parts
<1>3. QED
  BY <1>1, <1>2, PTL DEF MCSpec, UrlSpec, BatchSpec, FtpSpec, TorrentSpec, TuiSpec

(* The types of the url command and of the terminal UI, in every behaviour
   that is model-checked.                                                  *)
THEOREM TypesAlwaysOK == MCSpec => []TypesOK
<1>1. UrlTypeOK /\ TuiTypeOK => TypesOK
  BY DEF TypesOK
<1>2. QED
  BY <1>1, PartsStandStill, UrlTypeCorrect, TuiTypeCorrect, PTL
=============================================================================
