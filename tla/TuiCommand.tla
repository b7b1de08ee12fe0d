------------------------------ MODULE TuiCommand ------------------------------
(***************************************************************************)
(* burkut --tui URL: runDownloadTUI of cmd/burkut/main.go with the Runner  *)
(* and the Model of internal/tui.  Four goroutines: main, which runs the   *)
(* event loop; the download; its progress reporter; and the finisher,      *)
(* which waits for the download, reports its result and stops the program. *)
(* Send blocks its goroutine until the loop takes the message, so that     *)
(* every sender has one message under way at most.  Of the library's event *)
(* loop, which is not part of the repository, messages and the end of the  *)
(* loop are modelled, and its own handler of signals.                      *)
(***************************************************************************)
EXTENDS Integers

CONSTANT TuiSize   \* the bytes of the file

ASSUME TuiAssumption == TuiSize \in Nat \ {0}

VARIABLES
  model,     \* Model: state, downloaded, quitting, and the checksum's result
  runner,    \* Runner: program ("nil", "running" or "over"), paused, cancelled
  fetch,     \* the download: at, bytes, and downloadErr
  mail,      \* the message each sender waits to hand over
  finisher,  \* where the finisher is
  tuiMain    \* where main is, the checksum asked for, a signal seen, the exit code

tuiVars == <<model, runner, fetch, mail, finisher, tuiMain>>

-----------------------------------------------------------------------------
NoMail == [kind |-> "none", bytes |-> 0]
Msg(kind, bytes) == [kind |-> kind, bytes |-> bytes]
Senders == {"reporter", "finisher"}

(* program.Send: nothing before Start has made the program, nor after it. *)
Send(sender, msg) ==
  mail' = IF runner.program = "running" THEN [mail EXCEPT ![sender] = msg] ELSE mail

Free(sender) == mail[sender] = NoMail \/ runner.program = "over"

(* Update for the messages of the download. *)
Received(msg) ==
  CASE msg.kind = "progress"  -> [model EXCEPT !.state = "downloading", !.downloaded = msg.bytes]
    [] msg.kind = "complete"  -> [model EXCEPT !.state = "completed", !.downloaded = msg.bytes]
    [] msg.kind = "error"     -> [model EXCEPT !.state = "error"]
    [] msg.kind = "verifying" -> [model EXCEPT !.state = "verifying"]
    [] msg.kind = "valid"     -> [model EXCEPT !.valid = TRUE]
    [] msg.kind = "invalid"   -> [model EXCEPT !.valid = FALSE]

-----------------------------------------------------------------------------
(* Main up to the two goroutines: the configuration, the metadata. *)
TuiPrepare ==
  /\ tuiMain.at = "prepare"
  /\ \/ \E code \in {2, 3} : /\ tuiMain' = [tuiMain EXCEPT !.at = "exited", !.code = code]
                             /\ UNCHANGED fetch
     \/ /\ tuiMain' = [tuiMain EXCEPT !.at = "start"]
        /\ fetch' = [fetch EXCEPT !.at = "run"]
  /\ UNCHANGED <<model, runner, mail, finisher>>

(* Runner.Start makes the program and runs its loop, or cannot. *)
RunnerStart ==
  /\ tuiMain.at = "start"
  /\ \/ /\ tuiMain' = [tuiMain EXCEPT !.at = "loop"]
        /\ runner' = [runner EXCEPT !.program = "running"]
     \/ /\ tuiMain' = [tuiMain EXCEPT !.at = "exited", !.code = 1]
        /\ runner' = [runner EXCEPT !.program = "over"]
  /\ UNCHANGED <<model, fetch, mail, finisher>>

Receive(sender) ==
  /\ tuiMain.at = "loop" /\ mail[sender] # NoMail
  /\ model' = Received(mail[sender])
  /\ mail' = [mail EXCEPT ![sender] = NoMail]
  /\ UNCHANGED <<runner, fetch, finisher, tuiMain>>

(* The key p: onPause or onResume, which nothing waits for. *)
PauseKey ==
  /\ tuiMain.at = "loop" /\ model.state \in {"downloading", "paused"}
  /\ IF model.state = "downloading"
     THEN model' = [model EXCEPT !.state = "paused"] /\ runner' = [runner EXCEPT !.paused = TRUE]
     ELSE /\ model' = [model EXCEPT !.state = "downloading"]
          /\ runner' = [runner EXCEPT !.paused = FALSE]
  /\ UNCHANGED <<fetch, mail, finisher, tuiMain>>

(* The keys q and ctrl+c: onCancel, and a message that ends the loop. *)
QuitKey ==
  /\ tuiMain.at = "loop" /\ ~model.quitting
  /\ model' = [model EXCEPT !.quitting = TRUE]
  /\ runner' = [runner EXCEPT !.cancelled = TRUE, !.stopped = TRUE]
  /\ UNCHANGED <<fetch, mail, finisher, tuiMain>>

(* The loop takes the quit message. *)
LoopEnds ==
  /\ tuiMain.at = "loop" /\ runner.stopped
  /\ runner' = [runner EXCEPT !.program = "over"]
  /\ tuiMain' = [tuiMain EXCEPT !.at = "result"]
  /\ UNCHANGED <<model, fetch, mail, finisher>>

(* The library's handler: SIGTERM ends the loop without an error, SIGINT with
   one, which main reports.  Neither is a key, and the context stays.       *)
SignalEnds ==
  /\ tuiMain.at = "loop"
  /\ runner' = [runner EXCEPT !.program = "over"]
  /\ \/ tuiMain' = [tuiMain EXCEPT !.at = "result", !.signalled = TRUE]
     \/ tuiMain' = [tuiMain EXCEPT !.at = "exited", !.signalled = TRUE, !.code = 1]
  /\ UNCHANGED <<model, fetch, mail, finisher>>

(* downloadErr, whether the download has set it or not. *)
TuiResult ==
  /\ tuiMain.at = "result"
  /\ tuiMain' = [tuiMain EXCEPT !.at = "exited", !.code = IF fetch.err THEN 3 ELSE 0]
  /\ UNCHANGED <<model, runner, fetch, mail, finisher>>

-----------------------------------------------------------------------------
(* Mutant: the server sends more than it announced. *)
FetchMoreThanSize ==
  /\ fetch.at = "run" /\ fetch.bytes <= TuiSize
  /\ fetch' = [fetch EXCEPT !.bytes = @ + 1]
  /\ UNCHANGED <<model, runner, mail, finisher, tuiMain>>

(* The download neither knows nor asks whether it is paused. *)
FetchMore ==
  /\ fetch.at = "run" /\ fetch.bytes < TuiSize
  /\ fetch' = [fetch EXCEPT !.bytes = @ + 1]
  /\ UNCHANGED <<model, runner, mail, finisher, tuiMain>>

(* Download returns nil, also after a body that ended early but cleanly. *)
FetchDone ==
  /\ fetch.at = "run"
  /\ fetch' = [fetch EXCEPT !.at = "returned"]
  /\ UNCHANGED <<model, runner, mail, finisher, tuiMain>>

FetchFails ==
  /\ fetch.at = "run"
  /\ fetch' = [fetch EXCEPT !.at = "returned", !.err = TRUE]
  /\ UNCHANGED <<model, runner, mail, finisher, tuiMain>>

(* UpdateProgress, from the ticker of the reporter. *)
UpdateProgress ==
  /\ fetch.at = "run" /\ Free("reporter") /\ runner.program = "running"
  /\ Send("reporter", Msg("progress", fetch.bytes))
  /\ UNCHANGED <<model, runner, fetch, finisher, tuiMain>>

(* The finisher: SetError, or SetComplete with the size that was announced,
   whatever came of it, SetVerifying and SetVerified.                      *)
FinishError ==
  /\ finisher = "wait" /\ fetch.at = "returned" /\ fetch.err
  /\ Send("finisher", Msg("error", 0)) /\ finisher' = "sleep"
  /\ UNCHANGED <<model, runner, fetch, tuiMain>>

(* Mutant: the finisher does not wait for the download to return. *)
FinishCompleteEarly ==
  /\ finisher = "wait" /\ fetch.at # "none" /\ ~fetch.err
  /\ Send("finisher", Msg("complete", TuiSize))
  /\ finisher' = IF tuiMain.sum = "none" THEN "sleep" ELSE "verifying"
  /\ UNCHANGED <<model, runner, fetch, tuiMain>>

FinishComplete ==
  /\ finisher = "wait" /\ fetch.at = "returned" /\ ~fetch.err
  /\ Send("finisher", Msg("complete", TuiSize))
  /\ finisher' = IF tuiMain.sum = "none" THEN "sleep" ELSE "verifying"
  /\ UNCHANGED <<model, runner, fetch, tuiMain>>

(* A checksum that cannot be parsed is not compared. *)
FinishVerifying ==
  /\ finisher = "verifying" /\ Free("finisher")
  /\ Send("finisher", Msg("verifying", 0))
  /\ finisher' = IF tuiMain.sum = "bad" THEN "sleep" ELSE "verified"
  /\ UNCHANGED <<model, runner, fetch, tuiMain>>

FinishVerified ==
  /\ finisher = "verified" /\ Free("finisher")
  /\ \E kind \in IF tuiMain.sum = "right" THEN {"valid", "invalid"} ELSE {"invalid"} :
       Send("finisher", Msg(kind, 0))
  /\ finisher' = "sleep"
  /\ UNCHANGED <<model, runner, fetch, tuiMain>>

(* Mutant: the context is cancelled, the program goes on. *)
RunnerCancelOnly ==
  /\ finisher = "sleep" /\ Free("finisher") /\ runner.program # "nil"
  /\ finisher' = "done"
  /\ runner' = [runner EXCEPT !.cancelled = TRUE]
  /\ UNCHANGED <<model, fetch, mail, tuiMain>>

(* Stop, two seconds later; main has reached Start by then. *)
RunnerStop ==
  /\ finisher = "sleep" /\ Free("finisher") /\ runner.program # "nil"
  /\ finisher' = "done"
  /\ runner' = [runner EXCEPT !.cancelled = TRUE, !.stopped = TRUE]
  /\ UNCHANGED <<model, fetch, mail, tuiMain>>

TuiInit ==
  /\ model = [state |-> "connecting", downloaded |-> 0, quitting |-> FALSE, valid |-> FALSE]
  /\ runner = [program |-> "nil", paused |-> FALSE, cancelled |-> FALSE, stopped |-> FALSE]
  /\ fetch = [at |-> "none", bytes |-> 0, err |-> FALSE]
  /\ mail = [s \in Senders |-> NoMail]
  /\ finisher = "wait"
  /\ \E sum \in {"none", "bad", "right", "wrong"} :
       tuiMain = [at |-> "prepare", sum |-> sum, signalled |-> FALSE, code |-> -1]

(* The process ends with main. *)
TuiNext ==
  /\ tuiMain.at # "exited"
  /\ \/ TuiPrepare \/ RunnerStart \/ PauseKey \/ QuitKey \/ LoopEnds
     \/ SignalEnds \/ TuiResult
     \/ FetchMore \/ FetchDone \/ FetchFails \/ UpdateProgress
     \/ FinishError \/ FinishComplete \/ FinishVerifying \/ FinishVerified \/ RunnerStop
     \/ \E s \in Senders : Receive(s)

(* Goroutines run, and every read of the download ends; the loop takes every
   message in the end, that of the finisher too while the reporter keeps it
   busy; the user owes nothing.                                            *)
TuiFairness ==
  /\ WF_tuiVars(RunnerStart) /\ WF_tuiVars(LoopEnds) /\ WF_tuiVars(TuiResult)
  /\ WF_tuiVars(FetchMore \/ FetchDone \/ FetchFails)
  /\ WF_tuiVars(FinishError) /\ WF_tuiVars(FinishComplete) /\ WF_tuiVars(FinishVerifying)
  /\ WF_tuiVars(FinishVerified) /\ WF_tuiVars(RunnerStop)
  /\ WF_tuiVars(Receive("finisher")) /\ WF_tuiVars(Receive("reporter"))

TuiSpec == TuiInit /\ [][TuiNext]_tuiVars /\ TuiFairness

-----------------------------------------------------------------------------
(* The type invariant of the model and the runner. *)
TuiTypeOK ==
  /\ model.state \in {"connecting", "downloading", "paused", "completed", "error", "verifying"}
  /\ model.downloaded \in 0 .. TuiSize /\ fetch.bytes \in 0 .. TuiSize
  /\ runner.program \in {"nil", "running", "over"}
  /\ tuiMain.code \in {-1, 0, 1, 2, 3}

(* Nothing is shown that is ahead of the download.  While it is shown under
   way, or paused, which is a mark on the screen and stops nothing, no progress
   is larger than the bytes there are; it is shown as complete when Download has
   returned without an error, with the size that was announced, which a body
   that ended early does not have; and as an error when there was one.       *)
ShownIsTrue ==
  /\ model.state \in {"connecting", "downloading", "paused"} => model.downloaded <= fetch.bytes
  /\ model.state \in {"completed", "verifying"} => fetch.at = "returned" /\ ~fetch.err
  /\ model.state = "error" => fetch.err

(* Unless the user quits or a signal ends the loop, success means that Download
   returned without an error, and a network error that there was one: main reads
   downloadErr without waiting for the download (main.go:1370).              *)
UnquitCodeIsTrue ==
  ~model.quitting /\ ~tuiMain.signalled =>
    /\ tuiMain.code = 0 => fetch.at = "returned" /\ ~fetch.err
    /\ tuiMain.code = 3 => fetch.err \/ fetch.at = "none"

(* What Download has returned is what the screen shows of it and, without a key
   or a signal that ends the loop early, what the exit code says, for all orders
   of the four goroutines, of keys and of messages.                          *)
TuiTellsTruth == ShownIsTrue /\ UnquitCodeIsTrue

(* The program ends by itself, whatever is pressed, paused or shown. *)
TuiEnds == (tuiMain.at # "prepare") ~> (tuiMain.at = "exited")
=============================================================================
