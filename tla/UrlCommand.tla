------------------------------ MODULE UrlCommand ------------------------------
(***************************************************************************)
(* burkut URL and burkut FILE.metalink: runDownload and runMetalinkDownload *)
(* of cmd/burkut/main.go around the downloader, and the hooks they start   *)
(* (internal/hooks/hooks.go).  Processes are run one after another over    *)
(* one output path, with any options, and may be interrupted or killed     *)
(* between any two steps.  Of a transfer only the versions of the bytes    *)
(* that came are told, of the state file it leaves the versions it counts. *)
(*                                                                         *)
(* Url 1 is published by its owner in versions 1, 2, ..., also while its   *)
(* bytes are being read; the version is its Last-Modified too, and the     *)
(* clock: a file written now is as young as the last version.  Another url *)
(* is a mirror with a version of its own that keeps the date.  All         *)
(* versions have one length and dates of their own.                        *)
(***************************************************************************)
EXTENDS Conditional

CONSTANTS
  NumUrls,       \* the url and its mirrors, or those of the metalink
  MaxVersion,    \* bound: the versions of the file
  MaxProcesses   \* bound: the processes run

ASSUME UrlAssumption ==
  /\ NumUrls \in Nat \ {0}
  /\ MaxVersion \in Nat \ {0} /\ MaxProcesses \in Nat

VARIABLES
  serves,      \* per url: the version it serves
  disk,        \* the file at the output path
  proc,        \* the process: its options, where it is, what it returned
  hook,        \* per run of runDownload: the hooks it started
  runs,        \* the processes so far
  left         \* the state file: its url and the versions of the bytes it counts

urlVars == <<serves, disk, proc, hook, runs, left>>

-----------------------------------------------------------------------------
Urls == 1 .. NumUrls

(* What the file is: nothing, one with bytes that never came, one with bytes
   of two versions, or a version of the url's.  No checksum is that of Junk. *)
NoFile == 0
Part   == -1
Mixed  == -2
Junk   == -3
Versions == 1 .. MaxVersion

NoLeft == [url |-> 0, of |-> {}]

(* The arguments of a process.  sum is the checksum asked for, by the version
   it belongs to; "bad" arguments are those loadConfig, ParseBandwidth or
   ParseChecksumAuto refuses.                                              *)
Options == [cmd   : {"url", "metalink"},
            args  : {"ok", "bad"},
            sum   : {0} \cup Versions,
            auto  : BOOLEAN,
            stamp : BOOLEAN,
            hooks : BOOLEAN]

(* runDownload is run once for a url, and for one metalink url after another. *)
Starting(opt, first) ==
  [opt |-> opt, at |-> "prepare", first |-> first, try |-> first,
   cancelled |-> FALSE, expected |-> 0, meta |-> [time |-> 0, known |-> TRUE],
   kept |-> {}, body |-> {}, skipped |-> FALSE, code |-> -1]

(* The urls one runDownload tries: the mirrors are those of --mirrors. *)
LastTry == IF proc.opt.cmd = "url" THEN NumUrls ELSE proc.first

Go(at)       == proc' = [proc EXCEPT !.at = at]
Ends(at, code) == proc' = [proc EXCEPT !.at = at, !.code = code, !.kept = {}, !.body = {}]
Return(code) == Ends("return", code)
AtStep(at)   == proc.at = at

-----------------------------------------------------------------------------
(* hooks.go.  A hook is a goroutine; its command or request starts unless its
   context is done, and the context is cancelled when runDownload returns. *)
NoHook == [event |-> "none", at |-> "none"]

(* ExecuteAsync, with the hooks of --on-complete, --on-error or --webhook. *)
ExecuteAsync(event) ==
  hook' = IF proc.opt.hooks
          THEN [hook EXCEPT ![proc.first] = [event |-> event, at |-> "spawned"]]
          ELSE hook

HookStarts(u) ==
  /\ hook[u].at = "spawned" /\ u = proc.first /\ ~proc.cancelled
  /\ hook' = [hook EXCEPT ![u].at = "started"]
  /\ UNCHANGED <<serves, disk, proc, runs, left>>

HookRefused(u) ==
  /\ hook[u].at = "spawned" /\ (proc.cancelled \/ u # proc.first)
  /\ hook' = [hook EXCEPT ![u].at = "lost"]
  /\ UNCHANGED <<serves, disk, proc, runs, left>>

(* The goroutines go with the process. *)
HooksDie ==
  hook' = [u \in Urls |-> IF hook[u].at = "spawned" THEN [hook[u] EXCEPT !.at = "lost"]
                          ELSE hook[u]]

-----------------------------------------------------------------------------
Start ==
  /\ proc.at = "exited" /\ runs < MaxProcesses
  /\ \E opt \in Options : proc' = Starting(opt, 1)
  /\ hook' = [u \in Urls |-> NoHook]
  /\ runs' = runs + 1
  /\ UNCHANGED <<serves, disk, left>>

(* The configuration, the rate limit and the checksum. *)
Prepare ==
  /\ AtStep("prepare")
  /\ IF proc.opt.args = "bad" THEN Return(2)
     ELSE proc' = [proc EXCEPT !.at = "head", !.expected = proc.opt.sum]
  /\ UNCHANGED <<serves, disk, hook, runs, left>>

HeadFails ==
  /\ AtStep("head") /\ Return(3)
  /\ UNCHANGED <<serves, disk, hook, runs, left>>

(* The server may leave out the date, and the length, which -N alone asks for. *)
FetchMetadata ==
  /\ AtStep("head") /\ ~proc.cancelled
  /\ \E time \in {0, serves[proc.first]}, known \in IF proc.opt.stamp THEN BOOLEAN ELSE {TRUE} :
       proc' = [proc EXCEPT !.at = IF proc.opt.stamp THEN "stamp" ELSE "get",
                            !.meta = [time |-> time, known |-> known]]
  /\ UNCHANGED <<serves, disk, hook, runs, left>>

Stamp ==
  /\ AtStep("stamp")
  /\ IF CheckTimestamp(disk.is # NoFile, disk, proc.meta) THEN Go("get")
     ELSE proc' = [proc EXCEPT !.at = "return", !.code = 0, !.skipped = TRUE]
  /\ UNCHANGED <<serves, disk, hook, runs, left>>

(* os.Stat fails, and not because there is no file. *)
StampFails ==
  /\ AtStep("stamp") /\ Return(1)
  /\ UNCHANGED <<serves, disk, hook, runs, left>>

(* The file once the writer has opened it: not truncated, and in its full
   length at once, with a zero for its last byte, if that is known.        *)
Opened ==
  {[is |-> is, whole |-> whole, time |-> time, from |-> 0] :
     is \in {Part, disk.is} \ {NoFile},
     whole \in {disk.whole, TRUE},
     time \in {serves[1]} \cup (IF disk.is = NoFile THEN {} ELSE {disk.time})}

(* Download up to its chunks.  A state file of another url is not used, nor one
   of another length or that cannot be read; without one, a state that an
   earlier mirror could not save is still in memory.                       *)
Begin ==
  /\ AtStep("get")
  /\ \E kept \in IF left = NoLeft THEN {proc.kept}
                 ELSE {{}} \cup (IF left.url = proc.try THEN {left.of} ELSE {}) :
       proc' = [proc EXCEPT !.at = "body", !.kept = kept, !.body = {}]
  /\ disk' \in Opened
  /\ UNCHANGED <<serves, hook, runs, left>>

(* The versions of the bytes the state in memory counts. *)
VersionsCounted == proc.kept \cup proc.body

(* Bytes of the version the url serves by now: WriteAt. *)
ReceiveBytes ==
  /\ AtStep("body")
  /\ proc' = [proc EXCEPT !.body = @ \cup {serves[proc.try]}]
  /\ disk' = [disk EXCEPT !.is = Part, !.time = serves[1]]
  /\ UNCHANGED <<serves, hook, runs, left>>

(* Every chunk ended cleanly, if perhaps early, and what it lacks is as before. *)
Fetched ==
  {disk.is} \cup {v \in Versions : VersionsCounted = {v}}
    \cup (IF proc.kept = {} /\ \E v \in Versions : VersionsCounted \subseteq {v} THEN {} ELSE {Mixed})

(* Download returns nil.  The state file is deleted; a Save still under way
   writes it again.                                                        *)
Downloaded ==
  /\ AtStep("body")
  /\ \E is \in Fetched, whole \in {disk.whole, TRUE}, time \in {disk.time, serves[1]} :
       disk' = [is |-> is, whole |-> whole \/ is \in Versions, time |-> time, from |-> 0]
  /\ left' \in {NoLeft, [url |-> proc.try, of |-> VersionsCounted]}
  /\ Go(IF proc.expected = 0 /\ proc.opt.auto THEN "fetch" ELSE "verify")
  /\ UNCHANGED <<serves, hook, runs>>

(* Download returns an error: the next mirror, unless there is none or the
   context is done.                                                        *)
TryNext(kept) ==
  proc' = IF proc.try = LastTry \/ proc.cancelled THEN [proc EXCEPT !.at = "failed", !.kept = {}, !.body = {}]
          ELSE [proc EXCEPT !.at = "get", !.try = @ + 1, !.kept = kept, !.body = {}]

(* Its HEAD request fails, or the file cannot be opened. *)
BeginFails ==
  /\ AtStep("get") /\ TryNext(proc.kept)
  /\ disk' \in {disk} \cup Opened
  /\ UNCHANGED <<serves, hook, runs, left>>

(* A chunk fails: the state is saved, if it can be. *)
DownloadFails ==
  /\ AtStep("body")
  /\ \/ TryNext({}) /\ left' = [url |-> proc.try, of |-> VersionsCounted]
     \/ TryNext(VersionsCounted) /\ UNCHANGED left
  /\ UNCHANGED <<serves, disk, hook, runs>>

ErrorHooks ==
  /\ AtStep("failed") /\ ExecuteAsync("error") /\ Go("report")
  /\ UNCHANGED <<serves, disk, runs, left>>

Report ==
  /\ AtStep("report") /\ Return(IF proc.cancelled THEN 8 ELSE 3)
  /\ UNCHANGED <<serves, disk, hook, runs, left>>

(* The checksum file beside the url, of the version it has now, or whatever
   else is found there; a failure is a warning.                            *)
FetchChecksum ==
  /\ AtStep("fetch")
  /\ \E sum \in {0} \cup (IF proc.cancelled THEN {} ELSE {serves[proc.first], Junk}) :
       proc' = [proc EXCEPT !.at = "verify", !.expected = sum]
  /\ UNCHANGED <<serves, disk, hook, runs, left>>

(* Mutant: the checksum asked for is not compared once the file was fetched
   from the first url.                                                     *)
VerifyMirrorsOnly ==
  /\ AtStep("verify")
  /\ IF proc.try = proc.first \/ proc.expected \in {0, disk.is} THEN Go("complete") ELSE Return(6)
  /\ UNCHANGED <<serves, disk, hook, runs, left>>

Verify ==
  /\ AtStep("verify")
  /\ IF proc.expected \in {0, disk.is} THEN Go("complete") ELSE Return(6)
  /\ UNCHANGED <<serves, disk, hook, runs, left>>

VerifyFails ==
  /\ AtStep("verify") /\ proc.expected # 0 /\ Return(1)
  /\ UNCHANGED <<serves, disk, hook, runs, left>>

(* All bytes of the file came from the first url in this transfer. *)
Entire == proc.kept = {} /\ proc.body # {} /\ proc.try = proc.first /\ disk.is # Part

(* SetFileModTime, if the server gave a date, and the completion hooks. *)
Complete ==
  /\ AtStep("complete")
  /\ \/ UNCHANGED disk
     \/ /\ proc.meta.time # 0
        /\ disk' = [disk EXCEPT !.time = proc.meta.time, !.from = IF Entire THEN proc.first ELSE 0]
  /\ ExecuteAsync("complete")
  /\ Return(0)
  /\ UNCHANGED <<serves, runs, left>>

(* runMetalinkDownload: success, or the next url with a context of its own. *)
NextUrl ==
  /\ AtStep("return") /\ proc.opt.cmd = "metalink" /\ proc.code # 0
  /\ proc.first # NumUrls
  /\ proc' = Starting(proc.opt, proc.first + 1)
  /\ UNCHANGED <<serves, disk, hook, runs, left>>

(* Mutant: a metalink process exits with the code of its last url. *)
ExitAsIs ==
  /\ AtStep("return")
  /\ proc.opt.cmd = "url" \/ proc.code = 0 \/ proc.first = NumUrls
  /\ Go("exited") /\ HooksDie
  /\ UNCHANGED <<serves, disk, runs, left>>

(* cancel is deferred, then os.Exit. *)
Exit ==
  /\ AtStep("return")
  /\ proc.opt.cmd = "url" \/ proc.code = 0 \/ proc.first = NumUrls
  /\ proc' = [proc EXCEPT !.at = "exited",
                          !.code = IF proc.opt.cmd = "url" \/ proc.code = 0 THEN @ ELSE 3]
  /\ HooksDie
  /\ UNCHANGED <<serves, disk, runs, left>>

(* The metalink file cannot be read, or names no file or no url. *)
ParseFails ==
  /\ AtStep("prepare") /\ proc.opt.cmd = "metalink" /\ proc.first = 1
  /\ proc' = [proc EXCEPT !.at = "exited", !.code = 2]
  /\ UNCHANGED <<serves, disk, hook, runs, left>>

-----------------------------------------------------------------------------
(* Ctrl+C or SIGTERM; the goroutine that waits for it takes one only. *)
Interrupt ==
  /\ proc.at # "exited" /\ ~proc.cancelled
  /\ proc' = [proc EXCEPT !.cancelled = TRUE]
  /\ UNCHANGED <<serves, disk, hook, runs, left>>

(* A killed process leaves the state its last Save wrote. *)
Kill ==
  /\ proc.at # "exited"
  /\ Ends("exited", -1)
  /\ HooksDie
  /\ left' \in {left} \cup (IF proc.at # "body" THEN {}
                           ELSE {[url |-> proc.try, of |-> proc.kept \cup of] : of \in SUBSET proc.body})
  /\ UNCHANGED <<serves, disk, runs>>

(* The owner publishes the next version; mirrors keep theirs. *)
Publish ==
  /\ serves[1] < MaxVersion
  /\ serves' = [serves EXCEPT ![1] = @ + 1]
  /\ UNCHANGED <<disk, proc, hook, runs, left>>

UrlInit ==
  /\ serves \in [Urls -> {1}]
  /\ disk = [is |-> NoFile, whole |-> FALSE, time |-> 0, from |-> 0]
  /\ proc = [Starting([cmd |-> "url", args |-> "ok", sum |-> 0, auto |-> FALSE,
                       stamp |-> FALSE, hooks |-> FALSE], 1)
               EXCEPT !.at = "exited"]
  /\ hook = [u \in Urls |-> NoHook]
  /\ runs = 0 /\ left = NoLeft

UrlStep ==
  \/ Prepare \/ HeadFails \/ FetchMetadata \/ Stamp \/ StampFails
  \/ Begin \/ BeginFails \/ ReceiveBytes \/ Downloaded \/ DownloadFails
  \/ ErrorHooks \/ Report \/ FetchChecksum \/ Verify \/ VerifyFails \/ Complete
  \/ NextUrl \/ Exit \/ ParseFails
  \/ \E u \in Urls : HookStarts(u) \/ HookRefused(u)

UrlNext == UrlStep \/ Start \/ Interrupt \/ Kill \/ Publish

UrlSpec == UrlInit /\ [][UrlNext]_urlVars

-----------------------------------------------------------------------------
UrlSteps == {"prepare", "head", "stamp", "get", "body", "failed", "report", "fetch",
             "verify", "complete", "return", "exited"}

(* The type invariant of the command. *)
UrlTypeOK ==
  /\ serves \in [Urls -> Versions]
  /\ disk \in [is : {NoFile, Part, Mixed} \cup Versions, whole : BOOLEAN, time : {0} \cup Versions,
               from : {0} \cup Urls]
  /\ proc \in [opt : Options, at : UrlSteps, first : Urls, try : Urls, cancelled : BOOLEAN,
               expected : {0, Junk} \cup Versions,
               meta : [time : {0} \cup Versions, known : BOOLEAN],
               kept : SUBSET Versions, body : SUBSET Versions,
               skipped : BOOLEAN, code : {-1, 0, 1, 2, 3, 6, 8}]
  /\ hook \in [Urls -> [event : {"none", "complete", "error"},
                        at : {"none", "spawned", "started", "lost"}]]
  /\ runs \in 0 .. MaxProcesses /\ left \in [url : {0} \cup Urls, of : SUBSET Versions]

Ended(code) == proc.at = "exited" /\ proc.code = code

(* A checksum asked for is that of the file a download leaves when it
   succeeds, whatever was left by earlier processes, whichever mirror or url of
   a metalink it comes from, published meanwhile or ended early; nor is it
   replaced by one found beside the url, which counts if none was asked for
   (main.go:642-714).  A skipped download checks nothing.                   *)
VerifiedMeansRight ==
  (Ended(0) /\ ~proc.skipped) =>
    /\ proc.opt.sum # 0 => disk.is = proc.opt.sum
    /\ proc.expected # 0 => disk.is = proc.expected

(* With -N, a file is not skipped that is older than what the server has, or
   mixed: if it was dated by a download that fetched all its bytes from that
   url.  The date is that of a HEAD request before the first byte, so that a
   version published while they come is dated too old (main.go:488,717).
   Nothing is said of a file left by a mismatch, a kill or an interrupt before
   it was dated, by a resumed download, a mirror, a body that ended early or a
   server that gave no date: such a file may be skipped (SkippedIsWhole).   *)
UpToDateIsCurrent ==
  (Ended(0) /\ proc.skipped /\ disk.from = proc.first) => disk.is >= proc.meta.time

(* The exit code tells what happened, as the usage text says; a metalink only
   ever ends with 0, 2 or 3, also when interrupted.                        *)
ExitCodeHasCause ==
  /\ Ended(8) => proc.cancelled /\ proc.opt.cmd = "url"
  /\ Ended(6) => proc.expected \notin {0, disk.is}
  /\ Ended(2) => proc.opt.args = "bad" \/ proc.opt.cmd = "metalink"
  /\ (proc.at = "exited" /\ runs > 0 /\ proc.opt.cmd = "metalink") => proc.code \in {-1, 0, 2, 3}

(* The hooks that ran tell the truth about a url: "complete" only before exit
   code 0, "error" only before 3 or 8, never both.                         *)
HookMatchesExit ==
  (proc.at = "exited" /\ proc.opt.cmd = "url" /\ proc.code # -1) =>
    /\ hook[1].at = "started" =>
         IF hook[1].event = "complete" THEN proc.code = 0 ELSE proc.code \in {3, 8}
    /\ \A u \in Urls \ {1} : hook[u] = NoHook

(* What a script that runs burkut learns: the exit code and the hooks agree
   with what happened, wherever an interrupt came.                         *)
OutcomeIsTold == ExitCodeHasCause /\ HookMatchesExit

(* "--on-complete CMD Run command after successful download": main.go:865. *)
CompleteHookRuns ==
  (Ended(0) /\ ~proc.skipped /\ proc.opt.hooks) =>
    \E u \in Urls : hook[u] = [event |-> "complete", at |-> "started"]

(* "Returns ... false if local file is up-to-date": conditional.go:25. *)
SkippedIsWhole == (Ended(0) /\ proc.skipped) => disk.is \notin {NoFile, Part}
=============================================================================
