------------------------- MODULE SessionThreadsProofs -------------------------
(***************************************************************************)
(* A session whose submission is two threads and the library implements    *)
(* PesSession, for any number of sessions, retries and polls; so what      *)
(* PesSessionProofs shows of PesSession holds of it too.                   *)
(***************************************************************************)
EXTENDS SessionThreads, PesSessionProofs

InvOfThreads == Threads!TypeOK /\ Threads!WorkerInv /\ Threads!MainInv

-----------------------------------------------------------------------------
(* The threads keep their invariant, whatever the session's stream is      *)
(* called.                                                                 *)

LEMMA ThreadsStart == Threads!Init => InvOfThreads
<1> SUFFICES ASSUME Threads!Init PROVE InvOfThreads
  OBVIOUS
<1> USE DEF Threads!Init
<1>1. Threads!TypeOK
  <2>1. joinPolls \in 0..JoinPolls /\ attempt \in 0..MAX_RETRIES
    BY BoundsAssumption
  <2>2. /\ main \in Threads!MainSteps /\ worker \in Threads!WorkerSteps
        /\ joining \in {1, 2} /\ addPageOk \in {"pending", "ok", "failed"}
        /\ Handle \in {"open", "aborted", "closed"}
    BY DEF Threads!MainSteps, Threads!WorkerSteps
  <2>3. /\ detached \in BOOLEAN /\ result \in BOOLEAN /\ workerOk \in BOOLEAN
        /\ dataDone \in BOOLEAN /\ broken \in BOOLEAN /\ Taken \in BOOLEAN
    OBVIOUS
  <2> QED BY <2>1, <2>2, <2>3 DEF Threads!TypeOK
<1>2. Threads!WorkerInv
  BY DEF Threads!WorkerInv
<1>3. Threads!MainInv
  BY BoundsAssumption DEF Threads!MainInv
<1> QED BY <1>1, <1>2, <1>3 DEF InvOfThreads

LEMMA WorkerKeepsInv ==
  ASSUME InvOfThreads, Threads!WorkerRuns \/ Threads!AddPageReturns
  PROVE  InvOfThreads'
<1> USE BoundsAssumption
        DEF InvOfThreads, Threads!TypeOK, Threads!WorkerInv, Threads!MainInv,
            Threads!MainSteps, Threads!WorkerSteps, Threads!mainVars, Threads!sdkVars
<1>1. CASE Threads!CallAddPage
  BY <1>1 DEF Threads!CallAddPage
<1>2. CASE Threads!AddPageTaken
  BY <1>2 DEF Threads!AddPageTaken, Threads!Answers
<1>3. ASSUME NEW a \in Threads!Answers, Threads!AddPageRetries(a) PROVE InvOfThreads'
  BY <1>3 DEF Threads!AddPageRetries
<1>4. ASSUME NEW a \in Threads!Answers, Threads!AddPageFails(a) PROVE InvOfThreads'
  BY <1>4 DEF Threads!AddPageFails
<1>5. CASE Threads!RetryDelayOver
  BY <1>5 DEF Threads!RetryDelayOver
<1>6. CASE Threads!WorkerAborts
  BY <1>6 DEF Threads!WorkerAborts, Threads!SdkAbort
<1>7. CASE Threads!WorkerCloses
  BY <1>7 DEF Threads!WorkerCloses, Threads!SdkClose
<1>8. CASE Threads!StoreResult
  BY <1>8 DEF Threads!StoreResult
<1>9. CASE Threads!SignalDone
  BY <1>9 DEF Threads!SignalDone
<1> QED
  BY <1>1, <1>2, <1>3, <1>4, <1>5, <1>6, <1>7, <1>8, <1>9
     DEF Threads!WorkerRuns, Threads!AddPageReturns

LEMMA MainKeepsInv ==
  ASSUME InvOfThreads, Threads!MainRuns
  PROVE  InvOfThreads'
<1> USE BoundsAssumption
        DEF InvOfThreads, Threads!TypeOK, Threads!WorkerInv, Threads!MainInv,
            Threads!MainSteps, Threads!WorkerSteps, Threads!workerVars, Threads!sdkVars
<1>1. CASE Threads!JoinsFirst
  BY <1>1 DEF Threads!JoinsFirst
<1>2. CASE Threads!JoinsAfterAbort
  BY <1>2 DEF Threads!JoinsAfterAbort
<1>3. CASE Threads!JoinSleeps
  BY <1>3 DEF Threads!JoinSleeps
<1>4. CASE Threads!JoinWakes
  BY <1>4 DEF Threads!JoinWakes
<1>5. CASE Threads!JoinExpires
  BY <1>5 DEF Threads!JoinExpires
<1>6. CASE Threads!AbortsLateWorker
  BY <1>6 DEF Threads!AbortsLateWorker, Threads!SdkAbort
<1>7. CASE Threads!DetachesWorker
  BY <1>7 DEF Threads!DetachesWorker
<1>8. CASE Threads!ClosesJob
  BY <1>8 DEF Threads!ClosesJob, Threads!SdkClose
<1>9. CASE Threads!CleanupAborts
  BY <1>9 DEF Threads!CleanupAborts, Threads!SdkAbort
<1>10. CASE Threads!CleanupCloses
  BY <1>10 DEF Threads!CleanupCloses, Threads!SdkClose
<1> QED
  BY <1>1, <1>2, <1>3, <1>4, <1>5, <1>6, <1>7, <1>8, <1>9, <1>10 DEF Threads!MainRuns

-----------------------------------------------------------------------------
(* What the threads' steps are to the session.                             *)

ThreadedInv == Inv /\ ThreadsInv

\* The parts of it that the steps of the threads start from.
LEMMA SharedStep ==
  ASSUME ThreadedInv, Submitting, SharedOnly
  PROVE  /\ InvOfThreads /\ StepsAgree /\ env.worker /\ env'.worker
         /\ Handle = stream[Self] /\ Handle \in {"open", "aborted", "closed"}
         /\ Handle' = stream'[Self] /\ stream'[Self] # "none"
         /\ stream' = [stream EXCEPT ![Self] = Handle']
         /\ Handle' = Handle => UNCHANGED stream
         /\ Taken' = Taken => UNCHANGED fate
         /\ Taken' # Taken => ~Taken /\ fate' = [fate EXCEPT ![Self] = "sent"]
         /\ UNCHANGED <<engine, startPending, env>>
<1>1. InvOfThreads /\ StepsAgree /\ env.worker /\ env'.worker
      /\ UNCHANGED <<engine, startPending, env>>
  BY DEF ThreadedInv, ThreadsInv, InvOfThreads, Submitting, SharedOnly
<1>2. stream \in [Sessions -> Streams] /\ Self \in Sessions
  BY SelfAssumption DEF ThreadedInv, Inv, TypeOK
<1>3. Handle = stream[Self] /\ Handle \in {"open", "aborted", "closed"}
  BY <1>2 DEF Submitting, Handle, Streams
<1>4. PICK h \in {"open", "aborted", "closed"} : stream' = [stream EXCEPT ![Self] = h]
  BY DEF SharedOnly
<1>5. stream'[Self] = h /\ Handle' = h
  BY <1>2, <1>4 DEF Handle
<1>6. Handle' = Handle => UNCHANGED stream
  BY <1>2, <1>3, <1>4, <1>5
<1>7. fate \in [Jobs -> Fate] /\ Self \in Jobs
  BY SelfAssumption DEF ThreadedInv, Inv, TypeOK, EngineTypeOK, Jobs
<1>8. /\ Taken' = Taken => UNCHANGED fate
      /\ Taken' # Taken => ~Taken /\ fate' = [fate EXCEPT ![Self] = "sent"]
  <2>1. CASE UNCHANGED fate
    BY <2>1 DEF Taken
  <2>2. CASE ~Taken /\ fate' = [fate EXCEPT ![Self] = "sent"]
    <3>1. Taken'
      BY <1>7, <2>2 DEF Taken
    <3> QED BY <2>2, <3>1
  <2> QED BY <2>1, <2>2 DEF SharedOnly
<1> QED BY <1>1, <1>3, <1>4, <1>5, <1>6, <1>8

\* While the outcome is open the session is in "submit", and a stream that is
\* neither open nor closed is still the session's business.
LEMMA WhereTheSessionIs ==
  ASSUME ThreadedInv, Submitting, SharedOnly
  PROVE  /\ addPageOk = "pending" <=> pc[Self] = "submit"
         /\ stream[Self] = "aborted" => pc[Self] \in {"submit", "cleanup"}
         /\ pc[Self] \in Steps
<1>1. InvOfThreads /\ StepsAgree /\ stream[Self] # "none"
  BY SharedStep DEF Submitting
<1>2. addPageOk = "pending" <=> pc[Self] = "submit"
  BY <1>1 DEF StepsAgree, InvOfThreads, Threads!MainInv
<1>3. stream[Self] = "aborted" => pc[Self] \in {"submit", "cleanup"}
  BY SelfAssumption DEF ThreadedInv, Inv, HandleInv
<1>4. pc[Self] \in Steps
  BY SelfAssumption DEF ThreadedInv, Inv, TypeOK
<1> QED BY <1>2, <1>3, <1>4

\* A call of the library that aborts an open stream, for either thread.
LEMMA AbortImplements ==
  ASSUME ThreadedInv, Submitting, Unmoved, Threads!SdkAbort,
         Handle = "open" => pc[Self] = "submit"
  PROVE  StreamAborted(Self) \/ UNCHANGED vars
<1>1. SharedOnly /\ UNCHANGED <<gateVars, phase, handleOpen>>
  BY DEF Unmoved
<1>2. UNCHANGED fate /\ UNCHANGED <<engine, startPending, env>> /\ env.worker
  BY <1>1, SharedStep DEF Threads!SdkAbort
<1>3. CASE Handle = "open"
  <2>1. stream[Self] = "open" /\ stream' = [stream EXCEPT ![Self] = "aborted"]
    BY <1>1, <1>3, SharedStep DEF Threads!SdkAbort
  <2> QED BY <1>1, <1>2, <1>3, <2>1 DEF StreamAborted, engineVars
<1>4. CASE Handle # "open"
  <2>1. UNCHANGED stream
    BY <1>1, <1>4, SharedStep DEF Threads!SdkAbort
  <2> QED BY <1>1, <1>2, <2>1 DEF vars, engineVars, sessionVars, streamVars
<1> QED BY <1>3, <1>4

\* The worker's steps are PesSession's submission by a worker, or unseen.
LEMMA WorkerImplements ==
  ASSUME ThreadedInv, WorkerRuns \/ AddPageReturns
  PROVE  SubmitByWorker(Self) \/ UNCHANGED vars
<1>1. Submitting /\ Unmoved /\ SharedOnly /\ UNCHANGED <<gateVars, phase, handleOpen>>
  BY DEF WorkerRuns, AddPageReturns, Unmoved
<1>2. /\ Threads!TypeOK /\ Threads!WorkerInv /\ Threads!MainInv
      /\ env.worker /\ UNCHANGED <<engine, startPending, env>>
  BY <1>1, SharedStep DEF InvOfThreads
<1>3. CASE UNCHANGED <<Handle, Taken>>
  <2>1. UNCHANGED <<stream, fate>>
    BY <1>1, <1>3, SharedStep
  <2> QED BY <1>1, <1>2, <2>1 DEF vars, engineVars, sessionVars, streamVars
<1>4. CASE Threads!AddPageTaken
  <2>1. Handle = "open" /\ UNCHANGED Handle /\ ~Taken /\ Taken' /\ pc[Self] = "submit"
    BY <1>1, <1>2, <1>4, WhereTheSessionIs
       DEF Threads!AddPageTaken, Threads!Answers, Threads!TypeOK, Threads!WorkerInv, Threads!MainInv
  <2>2. stream[Self] = "open" /\ UNCHANGED stream
        /\ fate[Self] = "absent" /\ fate' = [fate EXCEPT ![Self] = "sent"]
    BY <1>1, <2>1, SharedStep DEF Taken
  <2>3. PageTaken(Self)
    BY <1>1, <1>2, <2>1, <2>2 DEF PageTaken, streamVars
  <2> QED BY <1>2, <2>3 DEF SubmitByWorker, AddPage
<1>5. CASE Threads!WorkerAborts
  <2>1. Handle = "open" => pc[Self] = "submit"
    BY <1>1, <1>2, <1>5, WhereTheSessionIs
       DEF Threads!WorkerAborts, Threads!TypeOK, Threads!MainInv
  <2>2. StreamAborted(Self) \/ UNCHANGED vars
    BY <1>1, <1>5, <2>1, AbortImplements DEF Threads!WorkerAborts
  <2> QED BY <1>2, <2>2 DEF SubmitByWorker, AddPage
<1>6. CASE Threads!WorkerCloses
  <2>1. /\ Handle \in {"aborted", "closed"} /\ Handle' = "closed"
        /\ UNCHANGED Taken
    BY <1>2, <1>6
       DEF Threads!WorkerCloses, Threads!SdkClose, Threads!TypeOK, Threads!WorkerInv
  <2>2. UNCHANGED fate /\ stream' = [stream EXCEPT ![Self] = "closed"]
        /\ stream[Self] \in {"aborted", "closed"}
    BY <1>1, <2>1, SharedStep
  <2>3. CASE stream[Self] = "aborted"
    <3>1. pc[Self] \in {"submit", "cleanup"}
      BY <1>1, <2>3, WhereTheSessionIs
    <3>2. StreamClosed(Self)
      BY <1>1, <1>2, <2>2, <2>3, <3>1 DEF StreamClosed, engineVars
    <3> QED BY <1>2, <3>2 DEF SubmitByWorker, AddPage
  <2>4. CASE stream[Self] = "closed"
    <3>1. UNCHANGED <<Handle, Taken>>
      BY <1>1, <2>1, <2>4, SharedStep
    <3> QED BY <1>3, <3>1
  <2> QED BY <2>2, <2>3, <2>4
<1>7. CASE Threads!CallAddPage \/ Threads!RetryDelayOver \/ Threads!StoreResult
            \/ Threads!SignalDone
  BY <1>3, <1>7
     DEF Threads!CallAddPage, Threads!RetryDelayOver, Threads!StoreResult,
         Threads!SignalDone, Threads!sdkVars
<1>8. ASSUME NEW a \in Threads!Answers, Threads!AddPageRetries(a) \/ Threads!AddPageFails(a)
      PROVE  UNCHANGED <<Handle, Taken>>
  BY <1>8 DEF Threads!AddPageRetries, Threads!AddPageFails
<1>9. Threads!WorkerRuns \/ Threads!AddPageReturns
  BY DEF WorkerRuns, AddPageReturns
<1> QED
  BY <1>3, <1>4, <1>5, <1>6, <1>7, <1>8, <1>9
     DEF Threads!WorkerRuns, Threads!AddPageReturns

\* The worker leaves main thread and session in agreement.
LEMMA WorkerAgrees ==
  ASSUME ThreadedInv, WorkerRuns \/ AddPageReturns
  PROVE  ThreadsInv'
<1>1. Submitting /\ SharedOnly /\ UNCHANGED <<gateVars, phase, handleOpen>>
      /\ (Threads!WorkerRuns \/ Threads!AddPageReturns)
  BY DEF WorkerRuns, AddPageReturns, Unmoved
<1>2. InvOfThreads /\ StepsAgree /\ stream[Self] # "none" /\ stream'[Self] # "none"
  BY <1>1, SharedStep DEF Submitting
<1>3. InvOfThreads'
  BY <1>1, <1>2, WorkerKeepsInv
<1>4. UNCHANGED main
  BY <1>1 DEF Threads!WorkerRuns, Threads!AddPageReturns, Threads!CallAddPage,
              Threads!AddPageTaken, Threads!AddPageRetries, Threads!AddPageFails,
              Threads!RetryDelayOver, Threads!WorkerAborts, Threads!WorkerCloses,
              Threads!StoreResult, Threads!SignalDone, Threads!mainVars
<1>5. StepsAgree'
  BY <1>1, <1>2, <1>4 DEF StepsAgree, gateVars
<1> QED BY <1>3, <1>5 DEF ThreadsInv, InvOfThreads

LEMMA MainWaitsImplements ==
  ASSUME ThreadedInv, MainWaits
  PROVE  SubmitByWorker(Self) \/ UNCHANGED vars
<1>1. Submitting /\ Unmoved /\ SharedOnly /\ UNCHANGED <<gateVars, phase, handleOpen>>
  BY DEF MainWaits, Unmoved
<1>2. Threads!MainInv /\ StepsAgree /\ stream[Self] # "none" /\ env.worker
      /\ UNCHANGED <<engine, startPending, env>>
  BY <1>1, SharedStep DEF InvOfThreads, Submitting
<1>3. CASE Threads!JoinSleeps \/ Threads!JoinWakes \/ Threads!JoinExpires
  <2>1. UNCHANGED <<Handle, Taken>>
    BY <1>3 DEF Threads!JoinSleeps, Threads!JoinWakes, Threads!JoinExpires, Threads!sdkVars
  <2>2. UNCHANGED <<stream, fate>>
    BY <1>1, <2>1, SharedStep
  <2> QED BY <1>1, <1>2, <2>2 DEF vars, engineVars, sessionVars, streamVars
<1>4. CASE Threads!AbortsLateWorker
  <2>1. pc[Self] = "submit"
    BY <1>2, <1>4 DEF StepsAgree, Threads!AbortsLateWorker
  <2>2. StreamAborted(Self) \/ UNCHANGED vars
    BY <1>1, <1>4, <2>1, AbortImplements DEF Threads!AbortsLateWorker
  <2> QED BY <1>2, <2>2 DEF SubmitByWorker, AddPage
<1>5. CASE Threads!CleanupAborts
  <2>1. Handle # "open"
    <3>1. Threads!TypeOK
      BY <1>1, SharedStep DEF InvOfThreads
    <3> QED BY <1>2, <1>5, <3>1 DEF Threads!CleanupAborts, Threads!MainInv, Threads!TypeOK
  <2>2. StreamAborted(Self) \/ UNCHANGED vars
    BY <1>1, <1>5, <2>1, AbortImplements DEF Threads!CleanupAborts
  <2> QED BY <1>2, <2>2 DEF SubmitByWorker, AddPage
<1> QED BY <1>3, <1>4, <1>5 DEF MainWaits

LEMMA MainWaitsAgrees ==
  ASSUME ThreadedInv, MainWaits
  PROVE  ThreadsInv'
<1>1. Submitting /\ SharedOnly /\ UNCHANGED <<gateVars, phase, handleOpen>>
  BY DEF MainWaits, Unmoved
<1>2. InvOfThreads /\ StepsAgree /\ stream[Self] # "none" /\ stream'[Self] # "none"
  BY <1>1, SharedStep DEF Submitting
<1>3. InvOfThreads'
  BY <1>2, MainKeepsInv DEF MainWaits, Threads!MainRuns
<1>4. \/ {main, main'} \subseteq {"join", "asleep", "abort"}
      \/ {main, main'} \subseteq {"cleanup_abort", "cleanup_close"}
  BY DEF MainWaits, Threads!JoinSleeps, Threads!JoinWakes, Threads!JoinExpires,
         Threads!AbortsLateWorker, Threads!CleanupAborts
<1>5. StepsAgree'
  BY <1>1, <1>2, <1>4 DEF StepsAgree, gateVars
<1> QED BY <1>3, <1>5 DEF ThreadsInv, InvOfThreads

\* A submission that is decided: the job was taken whole, or its stream is lost.
LEMMA MainSettlesImplements ==
  ASSUME ThreadedInv, MainSettles
  PROVE  SubmitByWorker(Self)
<1>1. Submitting /\ SharedOnly /\ UNCHANGED <<phase, handleOpen>>
  BY DEF MainSettles
<1>2. /\ Threads!TypeOK /\ Threads!WorkerInv /\ Threads!MainInv /\ StepsAgree
      /\ stream[Self] # "none" /\ env.worker /\ UNCHANGED <<engine, startPending, env>>
  BY <1>1, SharedStep DEF InvOfThreads, Submitting
<1>3. main \in {"join", "asleep"} /\ UNCHANGED <<Handle, Taken>>
  BY DEF MainSettles, Threads!JoinsFirst, Threads!JoinsAfterAbort, Threads!DetachesWorker,
         Threads!sdkVars
<1>4. pc[Self] = "submit" /\ UNCHANGED <<stream, fate>>
  BY <1>1, <1>2, <1>3, SharedStep DEF StepsAgree
<1>5. CASE Threads!JoinsFirst /\ workerOk /\ Goto(Self, "close")
  <2>1. Handle = "open" /\ Taken
    BY <1>2, <1>5 DEF Threads!JoinsFirst, Threads!WorkerInv, Threads!MainInv
  <2>2. stream[Self] = "open" /\ fate[Self] # "absent"
    BY <1>1, <2>1, SharedStep DEF Taken
  <2> QED BY <1>1, <1>2, <1>4, <1>5, <2>2
          DEF SubmitByWorker, AddPage, SubmitSucceeds, engineVars, streamVars
<1>6. CASE /\ \/ Threads!JoinsFirst /\ ~workerOk
              \/ Threads!JoinsAfterAbort
              \/ Threads!DetachesWorker
           /\ Goto(Self, "cleanup")
  <2>1. Handle # "open"
    BY <1>2, <1>6 DEF Threads!JoinsFirst, Threads!JoinsAfterAbort, Threads!DetachesWorker,
                      Threads!WorkerInv, Threads!MainInv
  <2>2. stream[Self] \in {"aborted", "closed"}
    BY <1>1, <2>1, SharedStep
  <2> QED BY <1>1, <1>2, <1>4, <1>6, <2>2
          DEF SubmitByWorker, AddPage, SubmitFails, engineVars, streamVars
<1> QED BY <1>5, <1>6 DEF MainSettles

LEMMA MainSettlesAgrees ==
  ASSUME ThreadedInv, MainSettles
  PROVE  ThreadsInv'
<1>1. Submitting /\ SharedOnly /\ UNCHANGED <<phase, handleOpen>>
  BY DEF MainSettles
<1>2. InvOfThreads /\ StepsAgree /\ stream[Self] # "none" /\ stream'[Self] # "none"
  BY <1>1, SharedStep DEF Submitting
<1>3. InvOfThreads'
  BY <1>2, MainKeepsInv DEF MainSettles, Threads!MainRuns
<1>4. main \in {"join", "asleep"}
      /\ \/ main' = "close" /\ Goto(Self, "close")
         \/ main' = "cleanup_abort" /\ Goto(Self, "cleanup")
  BY DEF MainSettles, Threads!JoinsFirst, Threads!JoinsAfterAbort, Threads!DetachesWorker
<1>5. handleOpen[Self] /\ pc \in [Sessions -> Steps] /\ Self \in Sessions
  BY <1>2, <1>4, SelfAssumption
     DEF ThreadedInv, Inv, HandleInv, TypeOK, StepsAgree
<1>6. \/ main' = "close" /\ pc'[Self] = "close"
      \/ main' = "cleanup_abort" /\ pc'[Self] = "cleanup"
  BY <1>4, <1>5 DEF Goto
<1>7. StepsAgree'
  BY <1>1, <1>2, <1>5, <1>6 DEF StepsAgree
<1> QED BY <1>3, <1>7 DEF ThreadsInv, InvOfThreads

LEMMA MainClosesImplements ==
  ASSUME ThreadedInv, MainCloses
  PROVE  CloseJob(Self) \/ CleanupStream(Self)
<1>1. Submitting /\ SharedOnly /\ handleOpen' = [handleOpen EXCEPT ![Self] = FALSE]
  BY DEF MainCloses
<1>2. /\ Threads!TypeOK /\ Threads!WorkerInv /\ Threads!MainInv /\ StepsAgree
      /\ stream[Self] # "none" /\ UNCHANGED <<engine, startPending, env>>
  BY <1>1, SharedStep DEF InvOfThreads, Submitting
<1>3. Handle' = "closed" /\ UNCHANGED Taken
  BY <1>2 DEF MainCloses, Threads!ClosesJob, Threads!CleanupCloses, Threads!SdkClose,
              Threads!TypeOK, Threads!WorkerInv, Threads!MainInv
<1>4. stream' = [stream EXCEPT ![Self] = "closed"] /\ UNCHANGED fate
  BY <1>1, <1>3, SharedStep
<1>5. CASE Threads!ClosesJob /\ Goto(Self, "wait_queue") /\ SetPhase(Self, "WAITING_QUEUE")
  <2>1. pc[Self] = "close"
    BY <1>2, <1>5 DEF StepsAgree, Threads!ClosesJob
  <2> QED BY <1>1, <1>2, <1>4, <1>5, <2>1 DEF CloseJob, engineVars
<1>6. CASE Threads!CleanupCloses /\ Goto(Self, "cleanup_finish") /\ UNCHANGED phase
  <2>1. pc[Self] = "cleanup" /\ handleOpen[Self]
    BY <1>2, <1>6 DEF StepsAgree, Threads!CleanupCloses
  <2> QED BY <1>1, <1>2, <1>4, <1>6, <2>1 DEF CleanupStream, engineVars
<1> QED BY <1>5, <1>6 DEF MainCloses

LEMMA MainClosesAgrees ==
  ASSUME ThreadedInv, MainCloses
  PROVE  ThreadsInv'
<1>1. Submitting /\ SharedOnly /\ handleOpen' = [handleOpen EXCEPT ![Self] = FALSE]
  BY DEF MainCloses
<1>2. InvOfThreads /\ stream'[Self] # "none"
  BY <1>1, SharedStep
<1>3. InvOfThreads'
  BY <1>2, MainKeepsInv DEF MainCloses, Threads!MainRuns
<1>4. main' = "left" /\ pc'[Self] \in {"wait_queue", "cleanup_finish"}
  BY SelfAssumption
     DEF MainCloses, Threads!ClosesJob, Threads!CleanupCloses, Goto, ThreadedInv, Inv, TypeOK
<1>5. StepsAgree'
  BY <1>2, <1>4 DEF StepsAgree
<1> QED BY <1>3, <1>5 DEF ThreadsInv, InvOfThreads

-----------------------------------------------------------------------------
(* The steps beside the threads'.                                          *)

\* A step of a session changes no other session's step or stream.
LEMMA OthersKept ==
  ASSUME Inv, NEW s \in Sessions, Proceed(s) \/ SubmitInline(s),
         NEW t \in Sessions \ {s}
  PROVE  pc'[t] = pc[t] /\ stream'[t] = stream[t] /\ handleOpen'[t] = handleOpen[t]
<1> USE DEF Inv, TypeOK, Goto, PollAgain, gateVars, streamVars
<1>1. CASE EnsureEngineReady(s)
  BY <1>1 DEF EnsureEngineReady, WaitEngineReadyForSubmit, Recheck, CallInitialise
<1>2. CASE Align(s) \/ OpenJob(s) \/ CloseJob(s)
  BY <1>2 DEF Align, OpenJob, CloseJob
<1>3. CASE SubmitByWorker(s) \/ SubmitInline(s)
  BY <1>3 DEF SubmitByWorker, SubmitInline, AddPage, PageTaken, StreamAborted,
              StreamClosed, SubmitSucceeds, SubmitFails
<1>4. CASE Prepare(s)
  BY <1>4 DEF Prepare, WaitJobQueuedAfterSubmit, CheckBeforePrepare, GuardPrepare,
              CallPrepare, WaitEnginePrintReadyAfterPrepare, Wait
<1>5. CASE PrintJob(s)
  BY <1>5 DEF PrintJob, GuardStart, CallStart, WaitSessionCompleteAfterStart, GiveUp, Wait
<1>6. CASE Conclude(s)
  BY <1>6 DEF Conclude, Finish, WaitIdleAfterFinish, CleanupStream, CleanupFinish, Wait
<1> QED BY <1>1, <1>2, <1>3, <1>4, <1>5, <1>6 DEF Proceed, SubmitJob

\* What a session does before it opens a job and after its stream is closed.
Outside(s) ==
  /\ EngineStep /\ UNCHANGED streamVars
  /\ {pc[s], pc'[s]} \cap {"submit", "close"} = {}
  /\ ~handleOpen[s]

LEMMA WaitIsOutside ==
  ASSUME Inv, NEW s \in Sessions, NEW at \in Waits, NEW st, NEW passes, NEW active,
         NEW next \in Steps \ {"submit", "close"}, NEW p,
         NEW failed \in Steps \ {"submit", "close"},
         Wait(s, at, st, passes, active, next, p, failed)
  PROVE  Outside(s)
<1>1. pc[s] = at /\ EngineStep /\ UNCHANGED streamVars
  BY DEF Wait, EngineStep, streamVars
<1>2. pc'[s] \in {at, next, failed}
  BY <1>1 DEF Wait, Goto, PollAgain, Inv, TypeOK
<1>3. pc[s] \notin {"submit", "close", "cleanup"} /\ pc'[s] \notin {"submit", "close"}
  BY <1>1, <1>2 DEF Waits
<1> QED BY <1>1, <1>3 DEF Outside, Inv, HandleInv

LEMMA GotoIsOutside ==
  ASSUME Inv, NEW s \in Sessions, pc[s] \notin {"submit", "close"},
         pc[s] = "cleanup" => ~handleOpen[s],
         NEW next \in Steps \ {"submit", "close"}, Goto(s, next),
         EngineStep, UNCHANGED streamVars
  PROVE  Outside(s)
<1>1. pc'[s] = next
  BY DEF Goto, Inv, TypeOK
<1> QED BY <1>1 DEF Outside, Inv, HandleInv

LEMMA SessionIsOutside ==
  ASSUME Inv, env.worker, SessionRuns(Self), ~OpenJob(Self)
  PROVE  Outside(Self)
<1> USE SelfAssumption
<1>1. ASSUME NEW at \in {"wait_ready", "wait_init"}, NEW next \in {"recheck", "align"},
             WaitEngineReadyForSubmit(Self, at, next)
      PROVE  Outside(Self)
  <2>1. pc[Self] = at /\ UNCHANGED streamVars /\ EngineStep
    BY <1>1 DEF WaitEngineReadyForSubmit, EngineStep, streamVars
  <2>2. ASSUME NEW to \in {"recheck", "align", "done"}, Goto(Self, to) PROVE Outside(Self)
    BY <2>1, <2>2, GotoIsOutside DEF Steps
  <2>3. ASSUME NEW k, PollAgain(Self, k, activeSeen[Self]) PROVE Outside(Self)
    BY <2>1, <2>3 DEF PollAgain, Outside, Inv, HandleInv
  <2> QED BY <1>1, <2>2, <2>3 DEF WaitEngineReadyForSubmit
<1>2. CASE Recheck(Self) \/ CallInitialise(Self)
  <2>1. /\ EngineStep /\ UNCHANGED streamVars /\ pc[Self] \in {"recheck", "initialise"}
        /\ \E next \in {"initialise", "align", "wait_init", "done"} : Goto(Self, next)
    BY <1>2 DEF Recheck, CallInitialise, EngineStep, Commands
  <2> QED BY <2>1, GotoIsOutside DEF Steps, Waits
<1>3. CASE Align(Self)
  <2>1. /\ EngineStep /\ UNCHANGED streamVars /\ pc[Self] = "align"
        /\ \E next \in {"open", "cleanup"} : Goto(Self, next)
    BY <1>3 DEF Align, EngineStep
  <2> QED BY <2>1, GotoIsOutside DEF Steps
<1>4. CASE WaitJobQueuedAfterSubmit(Self) \/ WaitEnginePrintReadyAfterPrepare(Self)
  BY <1>4, WaitIsOutside
     DEF WaitJobQueuedAfterSubmit, WaitEnginePrintReadyAfterPrepare, Steps, Waits
<1>5. CASE CheckBeforePrepare(Self) \/ GuardPrepare(Self) \/ CallPrepare(Self)
  <2>1. /\ EngineStep /\ UNCHANGED streamVars
        /\ pc[Self] \in {"check_prepare", "guard_prepare", "prepare"}
        /\ \E next \in {"guard_prepare", "prepare", "wait_print_ready", "cleanup"} :
             Goto(Self, next)
    BY <1>5 DEF CheckBeforePrepare, GuardPrepare, CallPrepare, EngineStep, Commands
  <2> QED BY <2>1, GotoIsOutside DEF Steps, Waits
<1>6. CASE GuardStart(Self) \/ CallStart(Self) \/ GiveUp(Self)
  <2>1. /\ EngineStep /\ UNCHANGED streamVars
        /\ pc[Self] \in {"guard_start", "start", "give_up"}
        /\ \E next \in {"start", "wait_complete", "cleanup", "done"} : Goto(Self, next)
    BY <1>6 DEF GuardStart, CallStart, GiveUp, EngineStep, Commands
  <2> QED BY <2>1, GotoIsOutside DEF Steps, Waits
<1>7. CASE WaitSessionCompleteAfterStart(Self) \/ WaitIdleAfterFinish(Self)
  BY <1>7, WaitIsOutside
     DEF WaitSessionCompleteAfterStart, WaitIdleAfterFinish, Steps, Waits
<1>8. CASE Finish(Self) \/ CleanupFinish(Self)
  <2>1. /\ EngineStep /\ UNCHANGED streamVars
        /\ pc[Self] \in {"finishing", "cleanup_finish"}
        /\ \E next \in {"wait_idle", "done"} : Goto(Self, next)
    BY <1>8 DEF Finish, CleanupFinish, EngineStep, Commands
  <2> QED BY <2>1, GotoIsOutside DEF Steps, Waits
<1>9. CASE ~handleOpen[Self] /\ CleanupStream(Self)
  <2>1. /\ EngineStep /\ pc[Self] = "cleanup" /\ Goto(Self, "cleanup_finish")
        /\ stream' = [stream EXCEPT ![Self] = stream[Self]]
        /\ handleOpen' = [handleOpen EXCEPT ![Self] = FALSE]
    BY <1>9 DEF CleanupStream, EngineStep
  <2>2. UNCHANGED streamVars
    <3>1. handleOpen[Self] = FALSE
      BY <1>9 DEF Inv, TypeOK
    <3> QED BY <2>1, <3>1 DEF Inv, TypeOK, streamVars
  <2> QED BY <1>9, <2>1, <2>2, GotoIsOutside DEF Steps
<1> QED
  BY <1>1, <1>2, <1>3, <1>4, <1>5, <1>6, <1>7, <1>8, <1>9
     DEF SessionRuns, Threaded, EnsureEngineReady, Prepare, PrintJob

\* A step that leaves Self's stream as it is, and the jobs' comings alone.
LEMMA AgreementKept ==
  ASSUME ThreadedInv, env.worker, env'.worker, UNCHANGED threadVars,
         stream'[Self] = stream[Self], Taken' = Taken,
         stream[Self] # "none" =>
           /\ pc'[Self] = "submit" <=> pc[Self] = "submit"
           /\ pc'[Self] = "close" <=> pc[Self] = "close"
           /\ pc'[Self] = "cleanup" /\ handleOpen'[Self]
                <=> pc[Self] = "cleanup" /\ handleOpen[Self]
  PROVE  ThreadsInv' /\ UNCHANGED <<threadVars, Handle, Taken>>
<1>1. UNCHANGED <<Handle, Taken>>
  BY DEF Handle
<1>2. InvOfThreads /\ StepsAgree
  BY DEF ThreadedInv, ThreadsInv, InvOfThreads
<1>3. InvOfThreads'
  BY <1>1, <1>2
     DEF threadVars, InvOfThreads, Threads!TypeOK, Threads!WorkerInv, Threads!MainInv
<1>4. StepsAgree'
  BY <1>1, <1>2 DEF threadVars, StepsAgree, Threads!Init
<1> QED BY <1>1, <1>3, <1>4 DEF ThreadsInv, InvOfThreads

LEMMA SessionAgrees ==
  ASSUME ThreadedInv, NEW s \in Sessions, SessionRuns(s) \/ InlineRuns(s), env' = env
  PROVE  ThreadsInv' /\ (env.worker => UNCHANGED <<threadVars, Handle, Taken>>)
<1>1. CASE ~env.worker
  BY <1>1 DEF ThreadsInv
<1>2. CASE env.worker /\ s # Self
  <2>1. Proceed(s) \/ SubmitInline(s)
    BY DEF SessionRuns, InlineRuns, Proceed, SubmitJob, Conclude
  <2>2. pc'[Self] = pc[Self] /\ stream'[Self] = stream[Self]
        /\ handleOpen'[Self] = handleOpen[Self]
    BY <1>2, <2>1, SelfAssumption, OthersKept DEF ThreadedInv
  <2>3. Taken' = Taken
    <3>1. CASE EngineStep
      <4>1. Self \in Jobs /\ JobsKeepGoing
        BY <3>1, SelfAssumption, EngineStepSound DEF ThreadedInv, Inv, TypeOK, Jobs
      <4> QED BY <4>1 DEF JobsKeepGoing, Taken
    <3>2. CASE Submits(s)
      <4>1. fate'[Self] = fate[Self]
        BY <1>2, <3>2, SelfAssumption DEF Submits, ThreadedInv, Inv, TypeOK, EngineTypeOK, Jobs
      <4> QED BY <4>1 DEF Taken
    <3> QED BY <2>1, <3>1, <3>2, SessionStepsEngine DEF ThreadedInv
  <2> QED BY <1>2, <2>2, <2>3, AgreementKept DEF SessionRuns, InlineRuns
<1>3. CASE env.worker /\ s = Self /\ ~OpenJob(Self)
  <2>1. SessionRuns(Self) /\ UNCHANGED threadVars
    BY <1>3 DEF InlineRuns, SubmitInline, SessionRuns
  <2>2. Outside(Self)
    BY <1>3, <2>1, SessionIsOutside DEF ThreadedInv
  <2>3. Taken' = Taken
    <3>1. Self \in Jobs /\ JobsKeepGoing
      BY <2>2, SelfAssumption, EngineStepSound DEF Outside, ThreadedInv, Inv, TypeOK, Jobs
    <3> QED BY <3>1 DEF JobsKeepGoing, Taken
  <2>4. UNCHANGED <<stream, handleOpen>> /\ ~handleOpen[Self]
        /\ pc[Self] \notin {"submit", "close"} /\ pc'[Self] \notin {"submit", "close"}
    BY <2>2 DEF Outside, streamVars
  <2> QED BY <1>3, <2>1, <2>3, <2>4, AgreementKept
<1>4. CASE env.worker /\ s = Self /\ OpenJob(Self)
  <2>1. SessionRuns(Self) /\ UNCHANGED threadVars
    BY <1>4 DEF InlineRuns, SubmitInline, SessionRuns
  <2>2. pc[Self] = "open" /\ stream[Self] = "none" /\ ~handleOpen[Self] /\ UNCHANGED fate
    BY <1>4, SelfAssumption
       DEF OpenJob, engineVars, ThreadedInv, Inv, HandleInv, BeforeSubmit
  <2>3. CASE UNCHANGED streamVars
    BY <1>4, <2>1, <2>2, <2>3, AgreementKept DEF streamVars, Taken
  <2>4. CASE stream' = [stream EXCEPT ![Self] = "open"] /\ Goto(Self, "submit")
    <3>1. Threads!Init
      BY <1>4, <2>2 DEF ThreadedInv, ThreadsInv, StepsAgree
    <3>2. stream'[Self] = "open" /\ pc'[Self] = "submit"
      BY <2>4, SelfAssumption DEF Goto, ThreadedInv, Inv, TypeOK
    <3>3. UNCHANGED <<Handle, Taken>>
      BY <2>2, <3>2 DEF Handle, Taken
    <3>4. (Threads!Init)'
      BY <2>1, <3>1, <3>3 DEF threadVars, Threads!Init
    <3>5. InvOfThreads'
      BY <3>4, ThreadsStart, PTL
    <3>6. StepsAgree'
      BY <3>2, <3>4 DEF StepsAgree, Threads!Init
    <3> QED BY <2>1, <3>3, <3>5, <3>6 DEF ThreadsInv, InvOfThreads
  <2> QED BY <1>4, <2>3, <2>4 DEF OpenJob
<1> QED BY <1>1, <1>2, <1>3, <1>4

LEMMA EngineAgrees ==
  ASSUME ThreadedInv, EngineRuns
  PROVE  ThreadsInv' /\ UNCHANGED <<threadVars, Handle, Taken>>
<1>1. UNCHANGED <<threadVars, sessionVars, env>> /\ EngineStep
  BY DEF EngineRuns, EngineMoves, EngineStep
<1>2. UNCHANGED <<pc, stream, handleOpen>>
  BY <1>1 DEF sessionVars, gateVars, streamVars
<1>3. Taken' = Taken
  <2>1. Self \in Jobs /\ JobsKeepGoing
    BY <1>1, SelfAssumption, EngineStepSound DEF ThreadedInv, Inv, TypeOK, Jobs
  <2> QED BY <2>1 DEF JobsKeepGoing, Taken
<1>4. CASE env.worker
  BY <1>1, <1>2, <1>3, <1>4, AgreementKept
<1>5. CASE ~env.worker
  BY <1>1, <1>2, <1>3, <1>5 DEF ThreadsInv, Handle
<1> QED BY <1>4, <1>5

-----------------------------------------------------------------------------
(* Refinement.                                                             *)

LEMMA ThreadedInvInitially == ThreadedInit => ThreadedInv
<1> SUFFICES ASSUME ThreadedInit PROVE ThreadedInv
  OBVIOUS
<1>1. Inv
  BY InvInitially DEF ThreadedInit
<1>2. stream[Self] = "none" /\ fate[Self] = "absent"
  BY SelfAssumption, JobsAssumption DEF ThreadedInit, Init, EngineInit, Jobs
<1>3. Threads!Init
  BY <1>2 DEF ThreadedInit, Threads!Init, Handle, Taken
<1>4. StepsAgree
  BY <1>2, <1>3 DEF StepsAgree
<1> QED BY <1>1, <1>3, <1>4, ThreadsStart DEF ThreadedInv, ThreadsInv, InvOfThreads

\* Whatever thread makes it, a step is one of PesSession or none.
LEMMA StepsImplement == ThreadedInv /\ [ThreadedNext]_allVars => [Next]_vars
<1> SUFFICES ASSUME ThreadedInv, ThreadedNext PROVE Next \/ UNCHANGED vars
  BY DEF allVars
<1>1. CASE WorkerRuns \/ AddPageReturns
  BY <1>1, WorkerImplements, SelfAssumption DEF Next, Proceed, SubmitJob
<1>2. CASE MainWaits
  BY <1>2, MainWaitsImplements, SelfAssumption DEF Next, Proceed, SubmitJob
<1>3. CASE MainSettles
  BY <1>3, MainSettlesImplements, SelfAssumption DEF Next, Proceed, SubmitJob
<1>4. CASE MainCloses
  BY <1>4, MainClosesImplements, SelfAssumption DEF Next, Proceed, SubmitJob, Conclude
<1>5. ASSUME NEW s \in Sessions, SessionRuns(s) \/ InlineRuns(s) PROVE Next
  <2>1. Proceed(s) \/ SubmitInline(s)
    BY <1>5 DEF SessionRuns, InlineRuns, Proceed, SubmitJob, Conclude
  <2> QED BY <2>1 DEF Next
<1>6. CASE EngineRuns \/ ThreadsEnded
  BY <1>6 DEF EngineRuns, ThreadsEnded, allVars, Next
<1> QED BY <1>1, <1>2, <1>3, <1>4, <1>5, <1>6 DEF ThreadedNext, MainRuns

LEMMA ThreadedInvPreserved == ThreadedInv /\ [ThreadedNext]_allVars => ThreadedInv'
<1> SUFFICES ASSUME ThreadedInv, [ThreadedNext]_allVars PROVE ThreadedInv'
  OBVIOUS
<1>1. [Next]_vars
  BY StepsImplement
<1>2. Inv' /\ env' = env
  BY <1>1, InvPreserved, EnvUnchanged DEF ThreadedInv
<1>3. ThreadsInv'
  <2>1. CASE UNCHANGED allVars
    <3>1. UNCHANGED <<pc, stream, handleOpen, env, threadVars, Handle, Taken>>
      BY <2>1 DEF allVars, vars, engineVars, sessionVars, gateVars, streamVars, Handle, Taken
    <3>2. CASE env.worker
      BY <3>1, <3>2, AgreementKept
    <3>3. CASE ~env.worker
      BY <3>1, <3>3 DEF ThreadsInv
    <3> QED BY <3>2, <3>3
  <2>2. CASE WorkerRuns \/ AddPageReturns
    BY <2>2, WorkerAgrees
  <2>3. CASE MainRuns
    BY <2>3, MainWaitsAgrees, MainSettlesAgrees, MainClosesAgrees DEF MainRuns
  <2>4. ASSUME NEW s \in Sessions, SessionRuns(s) \/ InlineRuns(s) PROVE ThreadsInv'
    BY <1>2, <2>4, SessionAgrees
  <2>5. CASE EngineRuns
    BY <2>5, EngineAgrees
  <2> QED BY <2>1, <2>2, <2>3, <2>4, <2>5 DEF ThreadedNext, ThreadsEnded
<1> QED BY <1>2, <1>3 DEF ThreadedInv

LEMMA ThreadedInvAlways == ThreadedSpec => []ThreadedInv
  BY ThreadedInvInitially, ThreadedInvPreserved, PTL DEF ThreadedSpec

\* For any number of sessions, jobs, polls and retries: a session with the main
\* thread, worker and library of its submission does only what PesSession does.
THEOREM ThreadsImplementSession == ThreadedSpec => ImplementsSession
<1>1. ThreadedInit => Init
  BY DEF ThreadedInit
<1> QED
  BY <1>1, StepsImplement, ThreadedInvAlways, PTL DEF ThreadedSpec, ImplementsSession, Spec

\* And within the session, whose engine takes the job's data at any time, the
\* threads do only what JslSubmit does.
THEOREM SessionKeepsThreads == ThreadedSpec => KeepsThreads
<1>1. ThreadedInit => Threads!Init
  BY SelfAssumption, JobsAssumption
     DEF ThreadedInit, Init, EngineInit, Jobs, Threads!Init, Handle, Taken
<1>2. ThreadedInv /\ [ThreadedNext]_allVars
        => [env.worker => Threads!Next]_<<threadVars, Handle, Taken>>
  <2> SUFFICES ASSUME ThreadedInv, [ThreadedNext]_allVars, env.worker
               PROVE  Threads!Next \/ UNCHANGED <<threadVars, Handle, Taken>>
    OBVIOUS
  <2>1. CASE UNCHANGED allVars
    BY <2>1 DEF allVars, vars, engineVars, sessionVars, streamVars, Handle, Taken
  <2>2. CASE WorkerRuns \/ AddPageReturns
    BY <2>2 DEF WorkerRuns, AddPageReturns, Threads!Next
  <2>3. CASE MainRuns
    BY <2>3 DEF MainRuns, MainWaits, MainSettles, MainCloses, Threads!Next, Threads!MainRuns
  <2>4. ASSUME NEW s \in Sessions, SessionRuns(s) \/ InlineRuns(s)
        PROVE  UNCHANGED <<threadVars, Handle, Taken>>
    <3>1. env' = env
      BY StepsImplement, EnvUnchanged
    <3> QED BY <2>4, <3>1, SessionAgrees
  <2>5. CASE EngineRuns
    BY <2>5, EngineAgrees
  <2> QED BY <2>1, <2>2, <2>3, <2>4, <2>5 DEF ThreadedNext, ThreadsEnded
<1> QED BY <1>1, <1>2, ThreadedInvAlways, PTL DEF ThreadedSpec, KeepsThreads

-----------------------------------------------------------------------------
(* The submission within the session.                                      *)

\* Attempts and polls of the threads stay within MAX_RETRIES and the deadlines
\* (addPageMultiColor, timedJoin).
THEOREM ThreadsTypesCorrect == ThreadedSpec => []ThreadsTypeOK
<1>1. ThreadedInv => ThreadsTypeOK
  BY DEF ThreadedInv, ThreadsInv, ThreadsTypeOK
<1> QED BY <1>1, ThreadedInvAlways, PTL

\* The stream is closed when the main thread leaves the submission behind.
THEOREM LeavesStreamClosed == ThreadedSpec => []ClosedWhenLeft
<1>1. ThreadedInv => ClosedWhenLeft
  BY DEF ThreadedInv, ThreadsInv, Threads!MainInv, ClosedWhenLeft, Threads!ClosedWhenLeft
<1> QED BY <1>1, ThreadedInvAlways, PTL

\* A worker outlives the submission only if it was detached.
THEOREM OutlivesOnlyDetached == ThreadedSpec => []OnlyDetachedOutlives
<1>1. ThreadedInv => OnlyDetachedOutlives
  BY DEF ThreadedInv, ThreadsInv, Threads!TypeOK, Threads!MainInv, OnlyDetachedOutlives,
         Threads!OnlyDetachedOutlives
<1> QED BY <1>1, ThreadedInvAlways, PTL

\* A step of the library on behalf of one thread, seen by the contract.
LEMMA StreamStepsMeetContract ==
  ASSUME InvOfThreads, InvOfThreads', UNCHANGED addPageOk,
         \/ Threads!SdkAbort /\ addPageOk # "ok"
         \/ Threads!SdkClose /\ (addPageOk = "ok" \/ Handle # "open")
  PROVE  Contract!Next \/ UNCHANGED <<addPageOk, Handle, Taken>>
<1> USE DEF InvOfThreads, Threads!TypeOK
<1>1. CASE Threads!SdkAbort /\ addPageOk # "ok"
  BY <1>1 DEF Threads!SdkAbort, Contract!Next, Contract!Abort
<1>2. CASE Threads!SdkClose /\ (addPageOk = "ok" \/ Handle # "open")
  BY <1>2 DEF Threads!SdkClose, Contract!Next, Contract!Close
<1> QED BY <1>1, <1>2

\* Every step of the two threads is a step of the contract, or none.
LEMMA StepsMeetContract ==
  ASSUME InvOfThreads, InvOfThreads', Threads!Next
  PROVE  Contract!Next \/ UNCHANGED <<addPageOk, Handle, Taken>>
<1> USE DEF InvOfThreads, Threads!mainVars, Threads!workerVars, Threads!sdkVars
<1>1. CASE Threads!JoinsFirst
  BY <1>1 DEF Threads!JoinsFirst, Threads!WorkerInv, Threads!MainInv, Contract!Next,
              Contract!Succeed, Contract!Fail
<1>2. CASE Threads!JoinsAfterAbort
  BY <1>2 DEF Threads!JoinsAfterAbort, Threads!MainInv, Contract!Next, Contract!Fail
<1>3. CASE Threads!DetachesWorker
  BY <1>3 DEF Threads!DetachesWorker, Threads!MainInv, Contract!Next, Contract!Fail
<1>4. CASE Threads!AddPageTaken
  BY <1>4 DEF Threads!AddPageTaken, Threads!Answers, Threads!WorkerInv, Threads!TypeOK,
              Contract!Next, Contract!Deliver
<1>5. CASE Threads!AbortsLateWorker \/ Threads!CleanupAborts
  BY <1>5, StreamStepsMeetContract
     DEF Threads!AbortsLateWorker, Threads!CleanupAborts, Threads!MainInv
<1>6. CASE Threads!WorkerAborts
  BY <1>6, StreamStepsMeetContract DEF Threads!WorkerAborts, Threads!MainInv
<1>7. CASE Threads!ClosesJob \/ Threads!CleanupCloses
  <2>1. addPageOk = "ok" \/ Handle # "open"
    BY <1>7 DEF Threads!ClosesJob, Threads!CleanupCloses, Threads!MainInv, Threads!TypeOK
  <2> QED BY <1>7, <2>1, StreamStepsMeetContract DEF Threads!ClosesJob, Threads!CleanupCloses
<1>8. CASE Threads!WorkerCloses
  BY <1>8, StreamStepsMeetContract DEF Threads!WorkerCloses, Threads!WorkerInv
<1>9. CASE \/ Threads!JoinSleeps \/ Threads!JoinWakes \/ Threads!JoinExpires
           \/ Threads!CallAddPage \/ Threads!RetryDelayOver
           \/ Threads!StoreResult \/ Threads!SignalDone \/ Threads!Ended
  BY <1>9 DEF Threads!JoinSleeps, Threads!JoinWakes, Threads!JoinExpires,
              Threads!CallAddPage, Threads!RetryDelayOver, Threads!StoreResult,
              Threads!SignalDone, Threads!Ended, Threads!vars
<1>10. ASSUME NEW a \in Threads!Answers,
              Threads!AddPageRetries(a) \/ Threads!AddPageFails(a)
       PROVE  UNCHANGED <<addPageOk, Handle, Taken>>
  BY <1>10 DEF Threads!AddPageRetries, Threads!AddPageFails
<1> QED
  BY <1>1, <1>2, <1>3, <1>4, <1>5, <1>6, <1>7, <1>8, <1>9, <1>10
     DEF Threads!Next, Threads!MainRuns, Threads!WorkerRuns, Threads!AddPageReturns

\* For any number of retries and any deadline, the main thread, the worker and
\* the library together implement the submission runPrintSession relies on,
\* whatever the session and the engine do around them.
THEOREM ThreadsMeetContract == ThreadedSpec => MeetsContract
<1>1. ThreadedInit => Contract!Init
  BY SelfAssumption, JobsAssumption
     DEF ThreadedInit, Init, EngineInit, Jobs, Contract!Init, Handle, Taken
<1>2. ThreadedInv /\ ThreadedInv'
        /\ [env.worker => Threads!Next]_<<threadVars, Handle, Taken>>
        /\ env' = env
        => [env.worker => Contract!Next]_<<addPageOk, Handle, Taken>>
  <2> SUFFICES ASSUME ThreadedInv, ThreadedInv', env' = env, env.worker,
                      [Threads!Next]_<<threadVars, Handle, Taken>>
               PROVE  Contract!Next \/ UNCHANGED <<addPageOk, Handle, Taken>>
    OBVIOUS
  <2>1. InvOfThreads /\ InvOfThreads'
    BY DEF ThreadedInv, ThreadsInv, InvOfThreads
  <2> QED BY <2>1, StepsMeetContract DEF threadVars
<1>3. ThreadedInv /\ [ThreadedNext]_allVars => env' = env
  BY StepsImplement, EnvUnchanged
<1> QED BY <1>1, <1>2, <1>3, ThreadedInvAlways, SessionKeepsThreads, PTL
        DEF ThreadedSpec, MeetsContract, KeepsThreads

-----------------------------------------------------------------------------
(* What a session with its threads inherits.                               *)

\* Type correctness, and the bound on every wait loop's polls.
THEOREM ThreadedTypeCorrect == ThreadedSpec => []TypeOK
  BY ThreadsImplementSession, TypeCorrect DEF ImplementsSession

\* However worker, deadline and cleanup race, the stream runPrintSession opened
\* is closed when it returns.
THEOREM ThreadedStreamsAreClosed == ThreadedSpec => []StreamClosedAtEnd
  BY ThreadsImplementSession, StreamsAreClosed DEF ImplementsSession

\* A session alone reports success only of its own job, also when the job was
\* taken by a worker it was about to give up on.
THEOREM ThreadedSuccessNeedsOwnJob ==
  ASSUME Leftover = {}, LegacyJobs = {}, NEW only, Sessions = {only}
  PROVE  ThreadedSpec => []SuccessMeansOwnJobRan
<1>1. Spec => []SuccessMeansOwnJobRan
  BY SuccessNeedsOwnJob
<1> QED BY <1>1, ThreadsImplementSession DEF ImplementsSession

\* Success is reported only while an engine whose states are named is in a
\* terminal one (waitIdleAfterFinish).
THEOREM ThreadedSuccessNeedsIdleEngine ==
  ASSUME \A e \in Envs : e.report = "name"
  PROVE  ThreadedSpec => SuccessOnlyWhenIdle
<1>1. Spec => SuccessOnlyWhenIdle
  BY SuccessNeedsIdleEngine
<1> QED BY <1>1, ThreadsImplementSession DEF ImplementsSession

\* The finishPrinting of a completed print cancels nothing that prints, whatever
\* a worker left behind still does.
THEOREM ThreadedFinishSparesTheJob ==
  ASSUME NEW only, Sessions = {only}, \A e \in Envs : e.report = "name"
  PROVE  ThreadedSpec => FinishSparesOwnJob
<1>1. Spec => FinishSparesOwnJob
  BY FinishSparesTheJob
<1> QED BY <1>1, ThreadsImplementSession DEF ImplementsSession

\* runPrintSession with its threads keeps what it promises its caller: nothing
\* is sent into a stream that was aborted, or after the outcome is reported.
THEOREM ThreadsImplementService == ThreadedSpec => ImplementsService
  BY ThreadsImplementSession, SessionsImplementService DEF ImplementsSession

=============================================================================
