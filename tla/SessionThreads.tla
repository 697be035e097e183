---------------------------- MODULE SessionThreads ----------------------------
(***************************************************************************)
(* runPrintSession with the two threads of its submission: the session     *)
(* Self of PesSession, whose "submit" step is the main thread, worker and  *)
(* library of JslSubmit.  The threads share the stream and the job with    *)
(* the rest of the session and with the engine, which may take the job's   *)
(* data, print it or lose it while the main thread is still waiting for    *)
(* the worker; a worker left behind runs on through the cleanup and after. *)
(***************************************************************************)
EXTENDS PesSession

CONSTANTS
  Self,         \* the session that is followed into its threads
  MAX_RETRIES,  \* retries of a page
  JoinPolls     \* polls of a timedJoin before its deadline, at most

ASSUME SelfAssumption   == Self \in Sessions
ASSUME BoundsAssumption == MAX_RETRIES \in Nat /\ JoinPolls \in Nat \ {0}

VARIABLES
  main, joining, joinPolls, addPageOk, detached,  \* the main thread's submission
  worker, attempt, result, workerOk, dataDone,    \* the worker thread
  broken                                          \* jslibAddPage has failed

threadVars == <<main, joining, joinPolls, addPageOk, detached,
                worker, attempt, result, workerOk, dataDone, broken>>

allVars == <<vars, threadVars>>

\* The handle the threads will share is open when they start.
Handle == IF stream[Self] = "none" THEN "open" ELSE stream[Self]

Taken == fate[Self] # "absent"

Threads == INSTANCE JslSubmit WITH
  polls <- joinPolls, handle <- Handle, taken <- Taken

-----------------------------------------------------------------------------
(* The steps of the threads.                                               *)

\* The session has a job open and a worker submitting it.
Submitting == env.worker /\ stream[Self] # "none"

\* A thread changes no stream and no job but its own session's.
SharedOnly ==
  /\ stream' \in {[stream EXCEPT ![Self] = h] : h \in {"open", "aborted", "closed"}}
  /\ \/ UNCHANGED fate
     \/ ~Taken /\ fate' = [fate EXCEPT ![Self] = "sent"]
  /\ UNCHANGED <<engine, startPending, env>>

\* A step that leaves the session where it is.
Unmoved == SharedOnly /\ UNCHANGED <<gateVars, phase, handleOpen>>

WorkerRuns     == Submitting /\ Unmoved /\ Threads!WorkerRuns
AddPageReturns == Submitting /\ Unmoved /\ Threads!AddPageReturns

\* timedJoin, what follows when it gives up, and cleanup's jslibAbort.
MainWaits ==
  /\ Submitting /\ Unmoved
  /\ \/ Threads!JoinSleeps \/ Threads!JoinWakes \/ Threads!JoinExpires
     \/ Threads!AbortsLateWorker \/ Threads!CleanupAborts

MainSettles ==
  /\ Submitting /\ SharedOnly
  /\ \/ Threads!JoinsFirst /\ Goto(Self, IF workerOk THEN "close" ELSE "cleanup")
     \/ (Threads!JoinsAfterAbort \/ Threads!DetachesWorker) /\ Goto(Self, "cleanup")
  /\ UNCHANGED <<phase, handleOpen>>

MainCloses ==
  /\ Submitting /\ SharedOnly
  /\ handleOpen' = [handleOpen EXCEPT ![Self] = FALSE]
  /\ \/ /\ Threads!ClosesJob
        /\ Goto(Self, "wait_queue") /\ SetPhase(Self, "WAITING_QUEUE")
     \/ /\ Threads!CleanupCloses
        /\ Goto(Self, "cleanup_finish") /\ UNCHANGED phase

MainRuns == MainWaits \/ MainSettles \/ MainCloses

-----------------------------------------------------------------------------
(* Everything else.                                                        *)

\* Self's threads stand for its submission, if it has a worker; for any other
\* session PesSession's "submit" does.
Threaded(s) == s = Self /\ env.worker

\* A session before its submission and after it.
SessionRuns(s) ==
  /\ \/ EnsureEngineReady(s) \/ Align(s) \/ OpenJob(s)
     \/ ~Threaded(s) /\ (SubmitByWorker(s) \/ CloseJob(s))
     \/ Prepare(s) \/ PrintJob(s) \/ Finish(s) \/ WaitIdleAfterFinish(s)
     \/ ~(Threaded(s) /\ handleOpen[s]) /\ CleanupStream(s)
     \/ CleanupFinish(s)
  /\ UNCHANGED threadVars

InlineRuns(s) == SubmitInline(s) /\ UNCHANGED threadVars

EngineRuns == EngineMoves /\ UNCHANGED threadVars

ThreadsEnded ==
  /\ AllDone /\ (Submitting => worker = "done")
  /\ UNCHANGED allVars

ThreadedInit ==
  /\ Init
  /\ main = "join" /\ joining = 1 /\ joinPolls = 0
  /\ addPageOk = "pending" /\ detached = FALSE
  /\ worker = "call" /\ attempt = 0 /\ result = FALSE
  /\ workerOk = FALSE /\ dataDone = FALSE /\ broken = FALSE

ThreadedNext ==
  \/ WorkerRuns \/ AddPageReturns \/ MainRuns
  \/ \E s \in Sessions : SessionRuns(s) \/ InlineRuns(s)
  \/ EngineRuns
  \/ ThreadsEnded

ThreadedSpec == ThreadedInit /\ [][ThreadedNext]_allVars

\* Threads are scheduled and controller processes return.  A stalled
\* jslibAddPage returns once its job was aborted, and is owed nothing before.
ThreadedFairSpec ==
  /\ ThreadedSpec
  /\ \A s \in Sessions : WF_allVars(SessionRuns(s))
  /\ WF_allVars(MainRuns) /\ WF_allVars(WorkerRuns)
  /\ WF_allVars(Handle # "open" /\ AddPageReturns)

-----------------------------------------------------------------------------
(* Properties.                                                             *)

\* PesSession tells the truth about a submission on a worker thread: however
\* the worker, its deadline, the engine and the cleanup race, the session with
\* its threads does only what PesSession does in "submit" and after.
ImplementsSession == Spec

\* With a session around them that opens and closes the stream, and an engine
\* that takes the data, the threads still are those of JslSubmit.
KeepsThreads ==
  Threads!Init /\ [][env.worker => Threads!Next]_<<threadVars, Handle, Taken>>

\* Every variable of the threads holds a value the code can give it; no page is
\* tried more than MAX_RETRIES + 1 times and no timedJoin polls past its
\* deadline.
ThreadsTypeOK == env.worker => Threads!TypeOK

\* However the worker and its deadline race, the stream is closed when the
\* main thread leaves the submission behind.
ClosedWhenLeft == env.worker => Threads!ClosedWhenLeft

\* The worker, which uses the session's locals, outlives the submission only
\* if two deadlines passed and it was detached.
OnlyDetachedOutlives == env.worker => Threads!OnlyDetachedOutlives

\* The main thread never hangs in the submission, although jslibAddPage may
\* never return by itself: "hard timeout so we never hang forever".
MainLeaves == Submitting ~> main = "left"

\* A worker left behind finds its job aborted and ends, whatever the session
\* and the engine do meanwhile.
WorkerEnds == main = "left" ~> worker = "done"

Contract == INSTANCE Submission WITH
  outcome <- addPageOk, port <- Handle, delivered <- Taken

\* The threads together do what runPrintSession expects of a submission.
MeetsContract ==
  Contract!Init /\ [][env.worker => Contract!Next]_<<addPageOk, Handle, Taken>>

-----------------------------------------------------------------------------
(* The inductive invariant behind them.                                    *)

\* The main thread of the submission and the session's steps go together.
StepsAgree ==
  /\ stream[Self] = "none" => Threads!Init
  /\ stream[Self] # "none" =>
       /\ pc[Self] = "submit" <=> main \in {"join", "asleep", "abort"}
       /\ pc[Self] = "close" <=> main = "close"
       /\ pc[Self] = "cleanup" /\ handleOpen[Self]
            <=> main \in {"cleanup_abort", "cleanup_close"}

\* JslSubmit's invariant holds within the session.
ThreadsInv ==
  env.worker => /\ Threads!TypeOK /\ Threads!WorkerInv /\ Threads!MainInv
                /\ StepsAgree

=============================================================================
