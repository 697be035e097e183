----------------------------- MODULE PesSession ------------------------------
(***************************************************************************)
(* PesOrchestrator::runPrintSession (src/src/pes_orchestrator.cpp): the    *)
(* gates a RIP passes to submit one job to the print engine and to see it  *)
(* printed.  Several RIP processes may run at once against one engine,     *)
(* one session each; they share nothing but the engine and its submission  *)
(* port.                                                                   *)
(*                                                                         *)
(* Every look at the engine and every command is a run of                  *)
(* thrift_controller_fullcycle.py in a process of its own.  So a probe and *)
(* the command decided on it are separate steps, with the engine free to   *)
(* move in between; probes whose answer is only logged are left out.       *)
(*                                                                         *)
(* LastPollLate, PollAgainUncounted, CompleteOrBetweenPages,               *)
(* IdleWhateverQueued, IdleOrUnknown, IdleOrComplete and                   *)
(* CleanupStreamAbortOnly are mistaken forms of the definitions after      *)
(* them; no specification uses them.                                       *)
(***************************************************************************)
EXTENDS PesEngine

CONSTANTS
  Polls,  \* how often each wait loop polls before it times out
  Envs    \* the environments (PES_..., JSL_... variables, engine build) to run in

Waits == {"wait_ready", "wait_init", "wait_queue", "wait_print_ready",
          "wait_complete", "wait_idle"}

Environments ==
  [bypass       : BOOLEAN,         \* PES_BYPASS_STATE_GATES
   allowUnknown : BOOLEAN,         \* PES_ALLOW_UNKNOWN_READY
   callFinish   : BOOLEAN,         \* PES_CALL_FINISH
   worker       : BOOLEAN,         \* pages are submitted by a worker thread
   report       : {"i32", "name"}] \* how the engine's API delivers its state

ASSUME PollsAssumption == Polls \in [Waits -> Nat \ {0}]
ASSUME EnvsAssumption  == Envs \subseteq Environments

VARIABLES
  env,         \* the environment, the same for every session
  pc,          \* how far each session has come
  phase,       \* phase_
  polls,       \* polls made by the wait loop a session is in
  known,       \* lastObservedStateAfter # "UNKNOWN" in that loop
  activeSeen,  \* activeSeen in that loop
  handleOpen,  \* handleOpen
  stream       \* the session's stream, as the submission library sees it

gateVars    == <<pc, polls, known, activeSeen>>
streamVars  == <<handleOpen, stream>>
sessionVars == <<gateVars, phase, streamVars>>
vars        == <<engineVars, sessionVars, env>>

Steps == Waits \cup
  {"recheck", "initialise", "align", "open", "submit", "close",
   "check_prepare", "guard_prepare", "prepare", "guard_start", "start",
   "give_up", "finishing", "cleanup", "cleanup_finish", "done"}

Phases == {"IDLE", "DATA_SUBMITTING", "TX_DONE", "WAITING_QUEUE", "PREPARING",
           "WAITING_PRINT_READY", "STARTING", "WAIT_PRINT_COMPLETE",
           "FINISHING", "WAIT_JOB_DONE", "SUCCESS", "FAILED"}

Streams == {"none", "open", "aborted", "closed"}

-----------------------------------------------------------------------------
(* What a probe of the engine reports: _status_to_json in the controller,  *)
(* then getStatus.                                                         *)

\* An API that delivers the state as a number: the controller's table gives
\* number n the name it has for n, the API another.  The numbers beyond the
\* table fall through to getStatus' search of the raw text, which always holds
\* the field name faultLocation.
NumberName ==
  [OFF |-> "INITIALISING", FAULT |-> "PRIMED_IDLE", TESTING |-> "PREPARING",
   INITIALISING |-> "PRE_JOB", DEPRIMED_IDLE |-> "PRE_JOB",
   PRIMED_IDLE |-> "PRINT_READY", SERVICING |-> "PRINTING",
   PRE_JOB |-> "MID_JOB", PRINT_READY |-> "PAUSED",
   PRINTING |-> "SESSION_COMPLETE", MID_JOB |-> "SHUTTING_DOWN",
   PAUSED |-> "FAULT", SESSION_COMPLETE |-> "FAULT", POST_JOB |-> "FAULT",
   SHUTTING_DOWN |-> "FAULT", PAUSING |-> "FAULT"]

\* An API that delivers it by name: the table's entries are searched for in
\* the name, so DEPRIMED_IDLE is taken for PRIMED_IDLE, and a name that is not
\* in the table ends in the same search of the raw text.
OwnName ==
  [e \in EngineState |->
    CASE e = "DEPRIMED_IDLE" -> "PRIMED_IDLE"
      [] e \in {"TESTING", "SERVICING", "POST_JOB", "PAUSING"} -> "FAULT"
      [] OTHER -> e]

Reported ==
  [state  |-> IF env.report = "i32" THEN NumberName[engine] ELSE OwnName[engine],
   queued |-> ~QueueEmpty,
   ready  |-> ReadyForPrintData]

\* The controller failed, printed nothing, or printed no JSON.
Unreadable == [state |-> "UNKNOWN", queued |-> FALSE, ready |-> FALSE]

Probe == {Reported, Unreadable}

-----------------------------------------------------------------------------
(* Control: where a session goes next.                                     *)

Goto(s, next) ==
  /\ pc'         = [pc EXCEPT ![s] = next]
  /\ polls'      = [polls EXCEPT ![s] = 0]
  /\ known'      = [known EXCEPT ![s] = FALSE]
  /\ activeSeen' = [activeSeen EXCEPT ![s] = FALSE]

SetPhase(s, p) == phase' = [phase EXCEPT ![s] = p]

LastPollLate(s, at) == polls[s] = Polls[at]

LastPoll(s, at) == polls[s] + 1 = Polls[at]

PollAgainUncounted(s, nowKnown, nowActive) ==
  /\ known'      = [known EXCEPT ![s] = nowKnown]
  /\ activeSeen' = [activeSeen EXCEPT ![s] = nowActive]
  /\ UNCHANGED <<pc, polls>>

PollAgain(s, nowKnown, nowActive) ==
  /\ polls'      = [polls EXCEPT ![s] = @ + 1]
  /\ known'      = [known EXCEPT ![s] = nowKnown]
  /\ activeSeen' = [activeSeen EXCEPT ![s] = nowActive]
  /\ UNCHANGED pc

\* One round of a wait loop that reads st: it passes, fails at once on FAULT,
\* fails for having polled long enough, or goes round again.
Wait(s, at, st, passes, active, next, nextPhase, failed) ==
  /\ pc[s] = at
  /\ \/ passes /\ Goto(s, next) /\ SetPhase(s, nextPhase)
     \/ /\ ~passes
        /\ st.state = "FAULT" \/ LastPoll(s, at)
        /\ Goto(s, failed)
        /\ UNCHANGED phase
     \/ /\ ~passes
        /\ st.state # "FAULT" /\ ~LastPoll(s, at)
        /\ PollAgain(s, known[s], active)
        /\ UNCHANGED phase
  /\ UNCHANGED <<engineVars, streamVars, env>>

-----------------------------------------------------------------------------
(* Gate 1: ensureEngineReady.                                              *)

ReadyForSubmit(st) == st.state \in {"PRIMED_IDLE", "PRINT_READY"} \/ st.ready

\* A session that never learns the engine's state goes on regardless.
WaitEngineReadyForSubmit(s, at, next) ==
  /\ pc[s] = at
  /\ \E st \in Probe :
       LET ready == ReadyForSubmit(st)
           seen  == known[s] \/ st.state # "UNKNOWN"
       IN
       \/ /\ ready \/ (LastPoll(s, at) /\ ~seen)
          /\ Goto(s, next)
       \/ /\ ~ready
          /\ st.state = "FAULT" \/ (LastPoll(s, at) /\ seen)
          /\ Goto(s, "done")
       \/ /\ ~ready
          /\ st.state # "FAULT" /\ ~LastPoll(s, at)
          /\ PollAgain(s, seen, activeSeen[s])
  /\ UNCHANGED <<engineVars, phase, streamVars, env>>

Recheck(s) ==
  /\ pc[s] = "recheck"
  /\ \E st \in Probe :
       Goto(s, IF st.state = "OFF" THEN "initialise" ELSE "align")
  /\ UNCHANGED <<engineVars, phase, streamVars, env>>

\* For every command: whether the engine took it and whether its output reads
\* like an error are independent.  The output of a retried or skipped command
\* holds the word "error", and a launcher that fails may print nothing.
CallInitialise(s) ==
  /\ pc[s] = "initialise"
  /\ InitialiseEngine \/ UNCHANGED engineVars
  /\ \E next \in {"wait_init", "done"} : Goto(s, next)
  /\ UNCHANGED <<phase, streamVars, env>>

EnsureEngineReady(s) ==
  \/ WaitEngineReadyForSubmit(s, "wait_ready", "recheck")
  \/ Recheck(s)
  \/ CallInitialise(s)
  \/ WaitEngineReadyForSubmit(s, "wait_init", "align")

-----------------------------------------------------------------------------
(* Gates 4 and 2: alignment settings, then the job's data.                 *)

\* There are no settings to apply, they are applied, or applying them fails.
Align(s) ==
  /\ pc[s] = "align"
  /\ \/ Goto(s, "open") /\ SetPhase(s, "DATA_SUBMITTING")
     \/ Goto(s, "cleanup") /\ UNCHANGED phase
  /\ UNCHANGED <<engineVars, streamVars, env>>

\* The library takes one stream at a time for a printhead.
OpenJob(s) ==
  /\ pc[s] = "open"
  /\ \/ /\ \A t \in Sessions : stream[t] \notin {"open", "aborted"}
        /\ stream'     = [stream EXCEPT ![s] = "open"]
        /\ handleOpen' = [handleOpen EXCEPT ![s] = TRUE]
        /\ Goto(s, "submit")
     \/ /\ Goto(s, "done")
        /\ UNCHANGED streamVars
  /\ UNCHANGED <<engineVars, phase, env>>

\* The library takes the last page of an open stream; the data are on their way
\* before the call that brought them returns.
PageTaken(s) ==
  /\ pc[s] = "submit" /\ stream[s] = "open" /\ fate[s] = "absent"
  /\ fate' = [fate EXCEPT ![s] = "sent"]
  /\ UNCHANGED <<engine, startPending, gateVars, phase, streamVars, env>>

\* The wrapper aborts the stream of a page it could not deliver; runPrintSession
\* one whose worker is late, which may have delivered it all the same.
StreamAborted(s) ==
  /\ pc[s] = "submit" /\ stream[s] = "open"
  /\ fate[s] = "absent" \/ env.worker
  /\ stream' = [stream EXCEPT ![s] = "aborted"]
  /\ UNCHANGED <<engineVars, gateVars, phase, handleOpen, env>>

\* The wrapper then closes it: on a worker left behind, at any time.
StreamClosed(s) ==
  /\ stream[s] = "aborted"
  /\ pc[s] = "submit" \/ (pc[s] = "cleanup" /\ env.worker)
  /\ stream' = [stream EXCEPT ![s] = "closed"]
  /\ UNCHANGED <<engineVars, gateVars, phase, handleOpen, env>>

SubmitSucceeds(s) ==
  /\ pc[s] = "submit" /\ stream[s] = "open" /\ fate[s] # "absent"
  /\ Goto(s, "close")
  /\ UNCHANGED <<engineVars, phase, streamVars, env>>

\* Given up by the wrapper, or by a main thread that aborted and left its worker.
SubmitFails(s) ==
  /\ pc[s] = "submit"
  /\ stream[s] = "closed" \/ (stream[s] = "aborted" /\ env.worker)
  /\ Goto(s, "cleanup")
  /\ UNCHANGED <<engineVars, phase, streamVars, env>>

AddPage(s) ==
  \/ PageTaken(s) \/ StreamAborted(s) \/ StreamClosed(s)
  \/ SubmitSucceeds(s) \/ SubmitFails(s)

\* On this thread, however long it takes.
SubmitInline(s) == ~env.worker /\ AddPage(s)

\* On a worker thread, with a deadline (module SessionThreads has the threads).
SubmitByWorker(s) == env.worker /\ AddPage(s)

CloseJob(s) ==
  /\ pc[s] = "close"
  /\ stream'     = [stream EXCEPT ![s] = "closed"]
  /\ handleOpen' = [handleOpen EXCEPT ![s] = FALSE]
  /\ Goto(s, "wait_queue") /\ SetPhase(s, "WAITING_QUEUE")
  /\ UNCHANGED <<engineVars, env>>

SubmitJob(s) == Align(s) \/ OpenJob(s) \/ SubmitByWorker(s) \/ CloseJob(s)

-----------------------------------------------------------------------------
(* Gates 3, 5 and 6: the queue, prepareToPrint, and the engine being ready *)
(* to print.                                                               *)

WaitJobQueuedAfterSubmit(s) ==
  \E st \in Probe :
    Wait(s, "wait_queue", st, st.queued, activeSeen[s],
         "check_prepare", "PREPARING", "cleanup")

CheckBeforePrepare(s) ==
  /\ pc[s] = "check_prepare"
  /\ \E st \in Probe :
       Goto(s, IF st.state \in {"PRIMED_IDLE", "PRINT_READY"} /\ st.queued
               THEN "guard_prepare" ELSE "cleanup")
  /\ UNCHANGED <<engineVars, phase, streamVars, env>>

PrepareAllowed(st) ==
  \/ st.state \in {"PRIMED_IDLE", "PAUSED", "PRINT_READY"}
  \/ env.allowUnknown /\ st.state = "UNKNOWN"

GuardPrepare(s) ==
  /\ pc[s] = "guard_prepare"
  /\ \E st \in Probe :
       Goto(s, IF PrepareAllowed(st) THEN "prepare" ELSE "cleanup")
  /\ UNCHANGED <<engineVars, phase, streamVars, env>>

CallPrepare(s) ==
  /\ pc[s] = "prepare"
  /\ PrepareToPrint \/ UNCHANGED engineVars
  /\ \/ Goto(s, "wait_print_ready") /\ SetPhase(s, "WAITING_PRINT_READY")
     \/ Goto(s, "cleanup") /\ UNCHANGED phase
  /\ UNCHANGED <<streamVars, env>>

\* A job is waiting to be started, whatever the engine calls that.
Startable(st) ==
  \/ st.state = "PRINT_READY"
  \/ st.state \in {"PAUSED", "MID_JOB"} /\ st.queued

WaitEnginePrintReadyAfterPrepare(s) ==
  \E st \in Probe :
    Wait(s, "wait_print_ready", st, Startable(st), activeSeen[s],
         "guard_start", "STARTING", "cleanup")

Prepare(s) ==
  \/ WaitJobQueuedAfterSubmit(s)
  \/ CheckBeforePrepare(s)
  \/ GuardPrepare(s)
  \/ CallPrepare(s)
  \/ WaitEnginePrintReadyAfterPrepare(s)

-----------------------------------------------------------------------------
(* Gates 7 and 8: startPrinting, and its completion.                       *)

StartAllowed(st) ==
  \/ env.bypass
  \/ Startable(st)
  \/ st.ready /\ st.state \in {"PRINT_READY", "PAUSED", "MID_JOB"}
  \/ st.ready /\ env.allowUnknown /\ st.state = "UNKNOWN"

GuardStart(s) ==
  /\ pc[s] = "guard_start"
  /\ \E st \in Probe :
       Goto(s, IF StartAllowed(st) THEN "start" ELSE "cleanup")
  /\ UNCHANGED <<engineVars, phase, streamVars, env>>

CallStart(s) ==
  /\ pc[s] = "start"
  /\ StartPrinting \/ UNCHANGED engineVars
  /\ \/ Goto(s, "wait_complete") /\ SetPhase(s, "WAIT_PRINT_COMPLETE")
     \/ Goto(s, "cleanup") /\ UNCHANGED phase
  /\ UNCHANGED <<streamVars, env>>

ShowsActivity(st) ==
  \/ st.state \in {"PRE_JOB", "PRINTING", "MID_JOB"}
  \/ st.state = "PAUSED" /\ st.queued

CompleteOrBetweenPages(st, active) ==
  active /\ st.state \in {"SESSION_COMPLETE", "MID_JOB"}

Complete(st, active) == active /\ st.state = "SESSION_COMPLETE"

WaitSessionCompleteAfterStart(s) ==
  \E st \in Probe :
    LET active == activeSeen[s] \/ ShowsActivity(st) IN
    Wait(s, "wait_complete", st, Complete(st, active), active,
         "finishing", "FINISHING", "give_up")

\* The print did not complete in time: finish it, and leave phase_ as it is.
GiveUp(s) ==
  /\ pc[s] = "give_up"
  /\ FinishPrinting \/ UNCHANGED engineVars
  /\ Goto(s, "done")
  /\ UNCHANGED <<phase, streamVars, env>>

PrintJob(s) ==
  \/ GuardStart(s)
  \/ CallStart(s)
  \/ WaitSessionCompleteAfterStart(s)
  \/ GiveUp(s)

-----------------------------------------------------------------------------
(* Gates 9 and 10: finishPrinting, and the engine being idle again.        *)

Finish(s) ==
  /\ pc[s] = "finishing"
  /\ (env.callFinish /\ FinishPrinting) \/ UNCHANGED engineVars
  /\ Goto(s, "wait_idle") /\ SetPhase(s, "WAIT_JOB_DONE")
  /\ UNCHANGED <<streamVars, env>>

IdleWhateverQueued(st) == st.state \in {"PRIMED_IDLE", "DEPRIMED_IDLE", "PRINT_READY"}

IdleOrUnknown(st) ==
  /\ st.state \in {"PRIMED_IDLE", "DEPRIMED_IDLE", "PRINT_READY", "UNKNOWN"}
  /\ ~st.queued

IdleOrComplete(st) ==
  /\ st.state \in {"PRIMED_IDLE", "DEPRIMED_IDLE", "PRINT_READY", "SESSION_COMPLETE"}
  /\ ~st.queued

Idle(st) ==
  /\ st.state \in {"PRIMED_IDLE", "DEPRIMED_IDLE", "PRINT_READY"}
  /\ ~st.queued

WaitIdleAfterFinish(s) ==
  \E st \in Probe :
    Wait(s, "wait_idle", st, Idle(st), activeSeen[s], "done", "SUCCESS", "cleanup")

\* cleanup, first half: abort and close the stream, if it is thought open.
CleanupStreamAbortOnly(s) ==
  /\ pc[s] = "cleanup"
  /\ stream'     = [stream EXCEPT ![s] = IF handleOpen[s] THEN "aborted" ELSE @]
  /\ handleOpen' = [handleOpen EXCEPT ![s] = FALSE]
  /\ Goto(s, "cleanup_finish")
  /\ UNCHANGED <<engineVars, phase, env>>

CleanupStream(s) ==
  /\ pc[s] = "cleanup"
  /\ stream'     = [stream EXCEPT ![s] = IF handleOpen[s] THEN "closed" ELSE @]
  /\ handleOpen' = [handleOpen EXCEPT ![s] = FALSE]
  /\ Goto(s, "cleanup_finish")
  /\ UNCHANGED <<engineVars, phase, env>>

\* cleanup, second half: finish whatever print session the engine is in.
CleanupFinish(s) ==
  /\ pc[s] = "cleanup_finish"
  /\ FinishPrinting \/ UNCHANGED engineVars
  /\ Goto(s, "done") /\ SetPhase(s, "FAILED")
  /\ UNCHANGED <<streamVars, env>>

Conclude(s) ==
  \/ Finish(s)
  \/ WaitIdleAfterFinish(s)
  \/ CleanupStream(s)
  \/ CleanupFinish(s)

-----------------------------------------------------------------------------
Init ==
  /\ EngineInit
  /\ env \in Envs
  /\ pc = [s \in Sessions |-> IF env.bypass THEN "align" ELSE "wait_ready"]
  /\ phase      = [s \in Sessions |-> "IDLE"]
  /\ polls      = [s \in Sessions |-> 0]
  /\ known      = [s \in Sessions |-> FALSE]
  /\ activeSeen = [s \in Sessions |-> FALSE]
  /\ handleOpen = [s \in Sessions |-> FALSE]
  /\ stream     = [s \in Sessions |-> "none"]

EngineMoves == EngineNext /\ UNCHANGED <<sessionVars, env>>

\* The steps a session takes in bounded time.
Proceed(s) ==
  EnsureEngineReady(s) \/ SubmitJob(s) \/ Prepare(s) \/ PrintJob(s) \/ Conclude(s)

AllDone == \A s \in Sessions : pc[s] = "done"

Ended == AllDone /\ UNCHANGED vars

Next ==
  \/ EngineMoves
  \/ \E s \in Sessions : Proceed(s) \/ SubmitInline(s)
  \/ Ended

Spec == Init /\ [][Next]_vars

\* A session's thread is scheduled and its controller processes return; the
\* engine owes it nothing, and neither does an addPage call on its own thread.
FairSpec == Spec /\ \A s \in Sessions : WF_vars(Proceed(s))

-----------------------------------------------------------------------------
(* Properties.                                                             *)

\* Every variable holds a value the code can give it; in particular no wait
\* loop polls more often than its timeout allows.
TypeOK ==
  /\ EngineTypeOK
  /\ env \in Environments
  /\ pc \in [Sessions -> Steps]
  /\ phase \in [Sessions -> Phases]
  /\ polls \in [Sessions -> Nat]
  /\ known \in [Sessions -> BOOLEAN]
  /\ activeSeen \in [Sessions -> BOOLEAN]
  /\ handleOpen \in [Sessions -> BOOLEAN]
  /\ stream \in [Sessions -> Streams]
  /\ \A s \in Sessions : pc[s] \in Waits => polls[s] < Polls[pc[s]]

\* "C6: Deterministic cleanup on ANY failure after openJob": by whatever path
\* a session ends, the stream it opened is closed, so the printhead is free
\* for the next one.
StreamClosedAtEnd ==
  \A s \in Sessions :
    pc[s] = "done" => stream[s] \in {"none", "closed"} /\ ~handleOpen[s]

\* A session that reports success saw some job in the queue and, later, an
\* empty queue: a job has left the engine, however often the probes failed and
\* whoever else used the engine.
SuccessMeansAJobRan ==
  \A s \in Sessions :
    phase[s] = "SUCCESS" => \E j \in Jobs : fate[j] \in Gone

\* A session that reports success had its own job taken off the queue: printed,
\* cancelled or lost.  (waitJobQueuedAfterSubmit, waitIdleAfterFinish)
SuccessMeansOwnJobRan ==
  \A s \in Sessions : phase[s] = "SUCCESS" => fate[s] \in Gone

\* runPrintSession reports success only at a moment when the engine's queue is
\* truly empty: a probe that failed, whose queue length reads 0, never counts.
SuccessOnlyWhenDrained ==
  [][\A s \in Sessions :
       phase[s] # "SUCCESS" /\ phase'[s] = "SUCCESS" => QueueEmpty]_vars

\* runPrintSession reports success only at a moment when the engine is truly
\* in one of the terminal states waitIdleAfterFinish names.
SuccessOnlyWhenIdle ==
  [][\A s \in Sessions :
       phase[s] # "SUCCESS" /\ phase'[s] = "SUCCESS"
         => engine \in {"PRIMED_IDLE", "DEPRIMED_IDLE", "PRINT_READY"}]_vars

\* The finishPrinting call of a session whose print completed (gate 9) never
\* cancels its own job in the middle of printing, the hazard gate 8 is for.
FinishSparesOwnJob ==
  [][\A s \in Sessions :
       pc[s] = "finishing" /\ pc'[s] # "finishing" /\ fate[s] = "printing"
         => fate'[s] # "cancelled"]_vars

\* With pages submitted by a worker, every session ends, whatever the engine
\* does: each gate gives up after its timeout.
Termination == env.worker ~> AllDone

-----------------------------------------------------------------------------
(* What the program that calls runPrintSession may rely on.                *)

Outcome(s) ==
  IF phase[s] = "SUCCESS" THEN "success" ELSE IF pc[s] = "done" THEN "failed" ELSE "pending"

Stage(j) ==
  CASE fate[j] \in {"absent", "sent"} -> fate[j]
    [] fate[j] \in InQueue -> "queued"
    [] fate[j] \in Gone -> "gone"

Service == INSTANCE PrintService WITH
  Queued  <- Leftover,
  outcome <- [s \in Sessions |-> Outcome(s)],
  port    <- stream,
  job     <- [j \in Jobs |-> Stage(j)]

\* Whatever the gates see and the engine does, runPrintSession reports once, with
\* its stream closed; it sends its job at most once, never into a stream that was
\* aborted, and reports success only of a job sent whole, over an empty queue.
ImplementsService == Service!Spec

-----------------------------------------------------------------------------
(* The inductive invariants behind the safety properties.                  *)

\* The steps before a session has a stream.
BeforeSubmit == {"wait_ready", "wait_init", "recheck", "initialise", "align", "open"}

\* The steps after the session saw a job in the queue, while it has hopes.
AfterQueue == {"check_prepare", "guard_prepare", "prepare", "wait_print_ready",
               "guard_start", "start", "wait_complete", "finishing", "wait_idle"}

\* The steps after it closed its stream on a job sent whole.
AfterClose == {"wait_queue"} \cup AfterQueue

\* A stream that is not closed is known to the session as open, and only
\* where it will still be closed.
HandleInv ==
  \A s \in Sessions :
    /\ stream[s] \in {"open", "aborted"} => handleOpen[s]
    /\ handleOpen[s] => pc[s] \in {"submit", "close", "cleanup"}
    /\ pc[s] \in {"submit", "close"} => handleOpen[s]
    /\ pc[s] \in BeforeSubmit => stream[s] = "none"
    /\ handleOpen[s] => stream[s] # "none"
    /\ pc[s] = "close" => stream[s] = "open"
    /\ pc[s] = "cleanup" => stream[s] # "open"
    /\ pc[s] \in AfterClose => stream[s] = "closed"

\* Some job has been in the queue; some job has left it.
JobSeen == \E j \in Jobs : fate[j] \in InQueue \cup Gone
JobGone == \E j \in Jobs : fate[j] \in Gone

\* The jobs a session relies on are where its step says.
JobInv ==
  \A s \in Sessions :
    /\ pc[s] \in BeforeSubmit => fate[s] = "absent"
    /\ pc[s] \in AfterQueue => JobSeen
    /\ pc[s] \in AfterClose \cup {"close"} => fate[s] # "absent"
    /\ phase[s] = "SUCCESS" => pc[s] = "done" /\ JobGone

\* The states an engine comes to only when it is told to prepare or to start.
ActiveStates == {"PRE_JOB", "PRINTING", "MID_JOB", "PAUSED", "PAUSING"}

\* The engine prints one job at a time, and none once a print session is complete.
OnePrints ==
  /\ \A i, j \in Jobs : fate[i] = "printing" /\ fate[j] = "printing" => i = j
  /\ engine = "SESSION_COMPLETE" => NothingPrinting

\* For a session alone that is told the engine's state by name: when it has seen
\* the print complete nothing prints, and without its commands nothing will.
CompletionInv ==
  /\ OnePrints
  /\ \A s \in Sessions :
       pc[s] = "finishing" => engine \notin ActiveStates /\ NothingPrinting

=============================================================================
