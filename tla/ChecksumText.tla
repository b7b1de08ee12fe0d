----------------------------- MODULE ChecksumText -----------------------------
(***************************************************************************)
(* The texts a checksum is read from (internal/engine/checksum.go): the    *)
(* argument of --checksum, and the checksum files --auto-verify looks for. *)
(* A checksum is the algorithm written before it, "" if none, and the      *)
(* algorithm that made it, or "none" when it is no hexadecimal number; its *)
(* length tells the latter, except that blake3 has the length of sha256.   *)
(***************************************************************************)
EXTENDS Integers, SequencesExt

Algorithms == {"md5", "sha1", "sha256", "sha512", "blake3"}

HexLength ==
  [a \in Algorithms |-> CASE a = "md5" -> 32 [] a = "sha1" -> 40 [] a = "sha512" -> 128
                          [] OTHER -> 64]

DetectAlgorithmFromLength(length) ==
  CASE length = 32 -> "md5" [] length = 40 -> "sha1" [] length = 64 -> "sha256"
    [] length = 128 -> "sha512" [] OTHER -> "sha256"

(* ParseChecksum and ParseChecksumAuto: the algorithm, or "error". *)
ParseChecksumAuto(sum) ==
  IF sum.of = "none" THEN "error"
  ELSE IF sum.prefix = "" THEN DetectAlgorithmFromLength(HexLength[sum.of])
  ELSE IF sum.prefix \in Algorithms THEN sum.prefix ELSE "error"

-----------------------------------------------------------------------------
(* A line of a checksum file is blank or a comment, a sum alone, or a sum and
   a path, as a sequence of names.                                         *)

(* Mutant: the target may be any name of the path. *)
NamesLoosely(line, target) == line.kind = "named" /\ Contains(line.path, target)

NamesTarget(line, target) == line.kind = "named" /\ Last(line.path) = target

(* ParseChecksumFile: the sum of the first line that is alone or names the
   target, as its number; 0 when there is none.                            *)
ParseChecksumFile(lines, target) ==
  LET fit == {i \in DOMAIN lines : lines[i].kind = "alone" \/ NamesTarget(lines[i], target)}
  IN IF fit = {} THEN 0 ELSE Min(fit)

(* The words a url is searched for, in order. *)
SumsNames == <<"sha256", "sha512", "md5", "sha1">>

(* FetchAndParseChecksumURL: the algorithm by the words of the whole url. *)
AlgorithmOfURL(words) ==
  LET i == SelectInSeq(SumsNames, LAMBDA w : w \in words)
  IN IF i = 0 THEN "sha256" ELSE SumsNames[i]

(* The files runDownload tries. *)
Extensions == <<"sha256", "sha256", "sha512", "md5", "md5">>

(* --auto-verify: the first file that has a sum.  served[i] is what is found
   under the url with the i-th extension, <<>> when nothing is; words are
   those in the url itself.  The file, the line, and the algorithm.        *)
AutoVerify(served, words, target) ==
  LET hits == {i \in DOMAIN served : ParseChecksumFile(served[i], target) # 0}
  IN IF hits = {} THEN [file |-> 0, line |-> 0, algorithm |-> "none"]
     ELSE LET i == Min(hits)
          IN [file |-> i, line |-> ParseChecksumFile(served[i], target),
              algorithm |-> AlgorithmOfURL(words \cup {Extensions[i]})]
=============================================================================
