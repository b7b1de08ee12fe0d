----------------------------- MODULE MetalinkFile -----------------------------
(***************************************************************************)
(* A file of a metalink: the order of its urls, the choice of its checksum *)
(* (internal/metalink/metalink.go and runMetalinkDownload) and the         *)
(* verification of its pieces (internal/metalink/verify.go).  A url is its *)
(* place in the metalink and a priority; the bytes of a piece are their    *)
(* own hash.                                                               *)
(***************************************************************************)
EXTENDS ChunkPlan, FiniteSets, SequencesExt

SwapIfGreater(urls, j) ==
  IF urls[j].priority > urls[j + 1].priority
  THEN [urls EXCEPT ![j] = urls[j + 1], ![j + 1] = urls[j]] ELSE urls

(* SortedURLs: a bubble sort, the smallest priority first. *)
SortedURLs(urls) ==
  LET pass(u, i) == FoldLeft(SwapIfGreater, u, [j \in 1 .. Len(u) - i |-> j])
  IN FoldLeft(pass, urls, [i \in 1 .. Len(urls) - 1 |-> i])

(* Metalink 3: of 1 to 100 the highest preference comes first. *)
PriorityOf(preference) == IF 100 - preference + 1 < 1 THEN 1 ELSE 100 - preference + 1

convertV3ToV4(resources) ==
  [i \in DOMAIN resources |-> [place |-> i, priority |-> PriorityOf(resources[i])]]

-----------------------------------------------------------------------------
Preferences == <<"sha-512", "sha-384", "sha-256", "sha-1", "md5">>

(* GetPreferredChecksum: the first type that has a value, or "". *)
GetPreferredChecksum(types) ==
  LET i == SelectInSeq(Preferences, LAMBDA t : t \in types)
  IN IF i = 0 THEN "" ELSE Preferences[i]

(* What runMetalinkDownload asks runDownload to verify: it has no name for
   sha-384, and does not ask for the next best.                            *)
MetalinkChecksum(types) ==
  LET t == GetPreferredChecksum(types) IN IF t = "sha-384" THEN "" ELSE t

-----------------------------------------------------------------------------
(* A verifier is the size of the file, the length of a piece, and the hashes
   by the number of the piece.                                             *)
PieceCount(v) == v.size \div v.length + (IF v.size % v.length # 0 THEN 1 ELSE 0)

(* Mutant: the last piece is as long as the others. *)
PieceRangeUnclamped(v, i) == NewChunk(i * v.length, (i + 1) * v.length - 1)

GetPieceRange(v, i) ==
  NewChunk(i * v.length,
           IF (i + 1) * v.length - 1 >= v.size THEN v.size - 1 ELSE (i + 1) * v.length - 1)

PieceOf(v, file, i) ==
  LET r == GetPieceRange(v, i)
      end == IF r.end >= Len(file) THEN Len(file) - 1 ELSE r.end
  IN SubSeq(file, r.start + 1, end + 1)

VerifyPiece(v, file, i) == i \in DOMAIN v.hashes /\ PieceOf(v, file, i) = v.hashes[i]

(* VerifyFilePieces: an error for a file of another size. *)
VerifyFilePieces(v, file) ==
  Len(file) = v.size /\ \A i \in 0 .. PieceCount(v) - 1 : VerifyPiece(v, file, i)

(* GetInvalidPieces of its results. *)
GetInvalidPieces(v, file) == {i \in 0 .. PieceCount(v) - 1 : ~VerifyPiece(v, file, i)}
=============================================================================
