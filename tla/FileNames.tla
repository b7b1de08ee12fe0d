------------------------------ MODULE FileNames ------------------------------
(***************************************************************************)
(* The name of the file for a url: extractFilename of internal/protocol/   *)
(* http.go, of http3.go and of internal/download/queue.go.  The path of a  *)
(* url, as url.Parse returns it with its escapes decoded, is a sequence of *)
(* characters, in which "%2F" and "%2E" are escapes that are there still,  *)
(* since the url had their % escaped too, and "%" begins none.             *)
(***************************************************************************)
EXTENDS Integers, FiniteSetsExt, SequencesExt

(* What follows the last slash. *)
BaseName(path) ==
  SubSeq(path, SelectLastInSeq(path, LAMBDA c : c = "/") + 1, Len(path))

BeforeQuery(name) ==
  LET i == SelectInSeq(name, LAMBDA c : c = "?")
  IN IF i = 0 THEN name ELSE SubSeq(name, 1, i - 1)

Decoded(c) ==
  IF c = "+" THEN " " ELSE IF c = "%2F" THEN "/" ELSE IF c = "%2E" THEN "." ELSE c

(* url.QueryUnescape: a plus is a blank; an error leaves all as it is. *)
QueryUnescape(name) ==
  IF Contains(name, "%") THEN name
  ELSE [i \in DOMAIN name |-> Decoded(name[i])]

OrDownload(name) == IF name = <<>> THEN <<"download">> ELSE name

HttpName(path) == OrDownload(QueryUnescape(BeforeQuery(BaseName(path))))

Http3Name(path) == OrDownload(BaseName(path))

QueueName(path) == OrDownload(QueryUnescape(BaseName(path)))

-----------------------------------------------------------------------------
Trim(name, c) ==
  LET kept == {i \in DOMAIN name : name[i] # c}
  IN IF kept = {} THEN <<>> ELSE SubSeq(name, Min(kept), Max(kept))

(* Mutant: the dots stay. *)
TrimBlanks(name) == Trim(name, " ")

(* strings.TrimSpace, then the dots at both ends. *)
TrimEnds(name) == Trim(Trim(name, " "), ".")

(* sanitizeFilename; every other character it replaces is like the colon. *)
sanitizeFilename(name) ==
  LET whole == TrimEnds([i \in DOMAIN name |-> IF name[i] \in {"/", "\\"} THEN "_" ELSE name[i]])
  IN [i \in DOMAIN whole |-> IF whole[i] = ":" THEN "_" ELSE whole[i]]

(* parseContentDisposition: the last filename* if it has a value, else the
   last filename; <<>> when there is none.                                 *)
parseContentDisposition(parts) ==
  LET last(key) == LET i == SelectLastInSeq(parts, LAMBDA p : p.key = key)
                   IN IF i = 0 THEN <<>> ELSE parts[i].value
  IN sanitizeFilename(IF last("filename*") # <<>> THEN last("filename*") ELSE last("filename"))

(* extractFilename: the header, or the url. *)
extractFilename(parts, path) ==
  LET name == parseContentDisposition(parts) IN IF name # <<>> THEN name ELSE HttpName(path)
=============================================================================
