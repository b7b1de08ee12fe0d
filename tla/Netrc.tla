-------------------------------- MODULE Netrc --------------------------------
(***************************************************************************)
(* The logins of ~/.netrc (internal/config/netrc.go): a file is a sequence *)
(* of lines, a line a sequence of words.  A keyword takes the next word of *)
(* its line; what is known of an entry is its login.                       *)
(***************************************************************************)
EXTENDS Integers, SequencesExt

(* The parser: the entries by machine, where "" is the default, the entry
   being read, the keyword that waits for its word, and whether the lines of
   a macro are skipped.                                                    *)
NoEntry == "no entry"
ParserInit == [entries |-> <<>>, current |-> NoEntry, keyword |-> "", macro |-> FALSE]

(* Mutant: a login belongs to every entry so far. *)
SetLoginOfAll(p, word) == [p EXCEPT !.entries = [h \in DOMAIN @ |-> word], !.keyword = ""]

SetLogin(p, word) == [p EXCEPT !.entries[p.current] = word, !.keyword = ""]

Enter(p, machine) ==
  [p EXCEPT !.entries = [h \in DOMAIN @ \cup {machine} |-> IF h = machine THEN "" ELSE @[h]],
            !.current = machine, !.keyword = ""]

(* One word; a login before the first entry is no keyword. *)
ParseWord(p, word) ==
  CASE p.keyword = "machine" -> Enter(p, word)
    [] p.keyword = "login"   -> SetLogin(p, word)
    [] p.keyword = "" /\ word = "machine" -> [p EXCEPT !.keyword = word]
    [] p.keyword = "" /\ word = "login" /\ p.current # NoEntry -> [p EXCEPT !.keyword = word]
    [] p.keyword = "" /\ word = "default" -> Enter(p, "")
    [] p.keyword = "" /\ word = "macdef" -> [p EXCEPT !.macro = TRUE]
    [] OTHER -> p

(* The end of a line ends what its last keyword waited for; an empty line ends
   a macro.                                                                *)
ParseNetrcLine(p, line) ==
  IF p.macro THEN [p EXCEPT !.macro = line # <<>>]
  ELSE [FoldLeft(ParseWord, p, line) EXCEPT !.keyword = ""]

ParseNetrc(lines) == FoldLeft(ParseNetrcLine, ParserInit, lines).entries

(* The login for a host: that of its entry, or of the default. *)
FindEntry(entries, host) ==
  IF host \in DOMAIN entries THEN entries[host]
  ELSE IF "" \in DOMAIN entries THEN entries[""] ELSE NoEntry
=============================================================================
