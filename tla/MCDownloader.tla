---------------------------- MODULE MCDownloader -----------------------------
(***************************************************************************)
(* Instances of Downloader for TLC.  Servers are named after what they do:  *)
(* a file of n bytes with Content-Length and ranges, one without a length,  *)
(* one without ranges.                                                     *)
(***************************************************************************)
EXTENDS DownloaderInvariant

CONSTANTS a, b, x, y   \* two URLs, two contents

Serves(c, n, known, ranges) ==
  [content |-> c, length |-> n, known |-> known, ranges |-> ranges]

Ranged2      == [u \in Urls |-> Serves(x, 2, TRUE, TRUE)]
Ranged3      == [u \in Urls |-> Serves(x, 3, TRUE, TRUE)]
LengthOnly   == [u \in Urls |-> Serves(x, 2, TRUE, FALSE)]
NoLength     == [u \in Urls |-> Serves(x, 2, FALSE, FALSE)]
LongAndShort == [u \in Urls |-> IF u = a THEN Serves(x, 2, TRUE, TRUE)
                                         ELSE Serves(y, 1, TRUE, TRUE)]
=============================================================================
