------------------------------ MODULE FtpCommand ------------------------------
(***************************************************************************)
(* burkut ftp://...: runFTPDownload of cmd/burkut/main.go with FTPClient   *)
(* of internal/protocol/ftp.go.  The bytes of a file are only counted: the *)
(* remote file has FtpSize, and what is received is its beginning.         *)
(***************************************************************************)
EXTENDS Integers

CONSTANT FtpSize

ASSUME FtpAssumption == FtpSize \in Nat

VARIABLE ftp   \* at, sum, file (bytes at the output path), old, cancelled, code

-----------------------------------------------------------------------------
FtpReturns(code) == ftp' = [ftp EXCEPT !.at = "exited", !.code = code]

(* Head logs in, asks for the size and hangs up. *)
FtpHead ==
  /\ ftp.at = "head"
  /\ FtpReturns(3) \/ ftp' = [ftp EXCEPT !.at = "get"]

(* Get logs in again. *)
FtpGet ==
  /\ ftp.at = "get"
  /\ FtpReturns(3) \/ ftp' = [ftp EXCEPT !.at = "create"]

(* Mutant: an existing file is opened as it is. *)
FtpOpen ==
  /\ ftp.at = "create"
  /\ FtpReturns(1) \/ ftp' = [ftp EXCEPT !.at = "read"]

(* os.Create empties an existing file: nothing is resumed. *)
FtpCreate ==
  /\ ftp.at = "create"
  /\ FtpReturns(1) \/ ftp' = [ftp EXCEPT !.at = "read", !.file = 0]

FtpCancelled == ftp.at = "read" /\ ftp.cancelled /\ FtpReturns(8)

(* Read gives bytes, with or without an end of file or an error. *)
FtpRead ==
  /\ ftp.at = "read" /\ ~ftp.cancelled
  /\ \E n \in 0 .. FtpSize - ftp.file :
       \E next \in {"read", "verify", "error"} :
         ftp' = [ftp EXCEPT !.file = @ + n,
                            !.at = IF next = "error" THEN "exited" ELSE next,
                            !.code = IF next = "error" THEN 3 ELSE @]

FtpWriteFails == ftp.at = "read" /\ ~ftp.cancelled /\ ftp.file < FtpSize /\ FtpReturns(1)

(* The checksum is parsed after the download only; what cannot be parsed or
   read is a mismatch.                                                     *)
FtpVerify ==
  /\ ftp.at = "verify"
  /\ CASE ftp.sum = "none"  -> FtpReturns(0)
       [] ftp.sum = "bad"   -> FtpReturns(6)
       [] ftp.sum = "given" -> \/ FtpReturns(IF ftp.file = FtpSize THEN 0 ELSE 6)
                               \/ FtpReturns(6)

FtpInterrupt ==
  /\ ftp.at # "exited" /\ ~ftp.cancelled /\ ftp' = [ftp EXCEPT !.cancelled = TRUE]

FtpInit ==
  \E sum \in {"none", "bad", "given"}, old \in 0 .. FtpSize + 1 :
    ftp = [at |-> "head", sum |-> sum, file |-> old, old |-> old, cancelled |-> FALSE, code |-> -1]

FtpNext ==
  FtpHead \/ FtpGet \/ FtpCreate \/ FtpCancelled \/ FtpRead \/ FtpWriteFails \/ FtpVerify
    \/ FtpInterrupt

FtpSpec == FtpInit /\ [][FtpNext]_ftp

-----------------------------------------------------------------------------
(* With a checksum, success means the whole file and nothing of an older one,
   also when the server ends the transfer early.                           *)
FtpVerified == (ftp.code = 0 /\ ftp.sum # "none") => ftp.file = FtpSize

(* Whatever the result, the output path has no more than the remote file, or
   what was there before the transfer could begin.                         *)
FtpNoOldTail ==
  ftp.at = "exited" => ftp.file <= FtpSize \/ (ftp.file = ftp.old /\ ftp.code \in {1, 3})

(* What an FTP download leaves behind, whenever the server ends it. *)
FtpLeavesFile == FtpVerified /\ FtpNoOldTail
=============================================================================
