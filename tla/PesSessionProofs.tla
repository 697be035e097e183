-------------------------- MODULE PesSessionProofs ---------------------------
(***************************************************************************)
(* Safety of PesSession for any number of sessions, leftover jobs, polls   *)
(* and environments.  The engine's part is proved first: whatever it does, *)
(* a job that has not been submitted stays out of its queue, and one that  *)
(* has entered the queue is in it or gone ever after.                      *)
(***************************************************************************)
EXTENDS PesSession, TLAPS

-----------------------------------------------------------------------------
(* The engine.                                                             *)

Commands == InitialiseEngine \/ PrepareToPrint \/ StartPrinting \/ FinishPrinting

\* Every way in which the engine's variables change, but for the submission
\* of a job.
EngineStep == EngineNext \/ Commands \/ UNCHANGED engineVars

\* What no such step can do to a job.
JobsKeepGoing ==
  \A j \in Jobs :
    /\ fate[j] = "absent" <=> fate'[j] = "absent"
    /\ fate[j] \in InQueue => fate'[j] \in InQueue \cup Gone
    /\ fate[j] \in Gone => fate'[j] \in Gone

LEMMA DisposeSound ==
  ASSUME EngineTypeOK, NEW to \in {"printed", "cancelled", "ready"}, Dispose(to)
  PROVE  fate' \in [Jobs -> Fate] /\ JobsKeepGoing
  BY DEF EngineTypeOK, Dispose, Fate, JobsKeepGoing, InQueue, Gone

LEMMA OneJobMoves ==
  ASSUME EngineTypeOK, NEW i \in Jobs, NEW f \in Fate,
         fate' = [fate EXCEPT ![i] = f],
         fate[i] # "absent", f # "absent",
         fate[i] \in InQueue => f \in InQueue \cup Gone,
         fate[i] \notin Gone
  PROVE  fate' \in [Jobs -> Fate] /\ JobsKeepGoing
  BY DEF EngineTypeOK, JobsKeepGoing

LEMMA FateUnchanged ==
  ASSUME EngineTypeOK, UNCHANGED fate
  PROVE  fate' \in [Jobs -> Fate] /\ JobsKeepGoing
  BY DEF EngineTypeOK, JobsKeepGoing, InQueue, Gone

\* The engine's commands and its own moves keep its variables well typed and
\* never take a job that has entered the queue back out of it unaccounted for.
LEMMA EngineStepSound ==
  ASSUME EngineTypeOK, EngineStep
  PROVE  EngineTypeOK' /\ JobsKeepGoing
<1> SUFFICES /\ engine' \in EngineState
             /\ startPending' \in BOOLEAN
             /\ fate' \in [Jobs -> Fate] /\ JobsKeepGoing
  BY DEF EngineTypeOK
<1>1. CASE UNCHANGED engineVars
  BY <1>1, FateUnchanged DEF engineVars, EngineTypeOK
<1>2. CASE InitialiseEngine
  BY <1>2, FateUnchanged DEF InitialiseEngine, EngineTypeOK, EngineState
<1>3. CASE PrepareToPrint
  BY <1>3, FateUnchanged DEF PrepareToPrint, EngineTypeOK, EngineState
<1>4. CASE StartPrinting
  BY <1>4, FateUnchanged DEF StartPrinting, EngineTypeOK, EngineState
<1>5. CASE FinishPrinting
  BY <1>5, DisposeSound DEF FinishPrinting, EngineTypeOK, EngineState
<1>6. CASE QuietMove
  BY <1>6, FateUnchanged DEF QuietMove, EngineTypeOK
<1>7. CASE PreJobDone
  BY <1>7, FateUnchanged DEF PreJobDone, EngineTypeOK, EngineState
<1>8. ASSUME NEW j \in Jobs, JobData(j) \/ PickJob(j) \/ JobDone(j) \/ CancelJob(j)
      PROVE  /\ engine' \in EngineState
             /\ startPending' \in BOOLEAN
             /\ fate' \in [Jobs -> Fate] /\ JobsKeepGoing
  <2>1. CASE JobData(j)
    <3>1. PICK f \in {"assembling", "ready", "lost"} :
            /\ fate' = [fate EXCEPT ![j] = f]
            /\ fate[j] \in {"sent", "assembling"}
      BY <2>1 DEF JobData
    <3>2. fate' \in [Jobs -> Fate] /\ JobsKeepGoing
      BY <3>1, OneJobMoves DEF Fate, InQueue, Gone
    <3> QED BY <2>1, <3>2 DEF JobData, EngineTypeOK
  <2>2. CASE PickJob(j)
    <3>1. fate' \in [Jobs -> Fate] /\ JobsKeepGoing
      BY <2>2, OneJobMoves DEF PickJob, Fate, InQueue, Gone
    <3> QED BY <2>2, <3>1 DEF PickJob, EngineTypeOK
  <2>3. CASE JobDone(j)
    <3>1. fate' \in [Jobs -> Fate] /\ JobsKeepGoing
      BY <2>3, OneJobMoves DEF JobDone, Fate, InQueue, Gone
    <3> QED BY <2>3, <3>1 DEF JobDone, EngineTypeOK, EngineState
  <2>4. CASE CancelJob(j)
    <3>1. fate' \in [Jobs -> Fate] /\ JobsKeepGoing
      BY <2>4, OneJobMoves DEF CancelJob, Fate, InQueue, Gone
    <3> QED BY <2>4, <3>1 DEF CancelJob, EngineTypeOK, EngineState
  <2> QED BY <1>8, <2>1, <2>2, <2>3, <2>4
<1>9. CASE SessionEnds
  BY <1>9, FateUnchanged DEF SessionEnds, EngineTypeOK, EngineState
<1>10. CASE Fault
  BY <1>10, DisposeSound DEF Fault, EngineTypeOK, EngineState
<1> QED
  BY <1>1, <1>2, <1>3, <1>4, <1>5, <1>6, <1>7, <1>8, <1>9, <1>10
     DEF EngineStep, EngineNext, Commands

-----------------------------------------------------------------------------
(* Types.                                                                  *)

\* What a session's step keeps of the gate variables: their types, and the
\* bound on the polls of the wait loop it is in.
GateTypeOK ==
  /\ pc \in [Sessions -> Steps]
  /\ polls \in [Sessions -> Nat]
  /\ known \in [Sessions -> BOOLEAN]
  /\ activeSeen \in [Sessions -> BOOLEAN]
  /\ \A s \in Sessions : pc[s] \in Waits => polls[s] < Polls[pc[s]]

LEMMA GotoSound ==
  ASSUME GateTypeOK, NEW s \in Sessions, NEW next \in Steps, Goto(s, next)
  PROVE  GateTypeOK' /\ pc' = [pc EXCEPT ![s] = next]
<1>1. \A w \in Waits : 0 < Polls[w]
  BY PollsAssumption
<1> QED BY <1>1 DEF GateTypeOK, Goto

LEMMA PollAgainSound ==
  ASSUME GateTypeOK, NEW s \in Sessions, pc[s] \in Waits, ~LastPoll(s, pc[s]),
         NEW k \in BOOLEAN, NEW a \in BOOLEAN, PollAgain(s, k, a)
  PROVE  GateTypeOK' /\ pc' = pc
  BY PollsAssumption DEF GateTypeOK, PollAgain, LastPoll

-----------------------------------------------------------------------------
(* The inductive invariant.                                                *)

Inv == TypeOK /\ HandleInv /\ JobInv

\* The shape of every step of a session that leaves its stream alone and goes
\* somewhere else.
Move(s, next, p) ==
  /\ Goto(s, next)
  /\ phase' = [phase EXCEPT ![s] = p]
  /\ EngineStep
  /\ UNCHANGED <<streamVars, env>>

\* Job steps that keep JobInv, whatever they do to streams.
LEMMA JobInvKept ==
  ASSUME TypeOK, JobInv, JobsKeepGoing,
         NEW s \in Sessions, NEW next \in Steps, NEW p \in Phases, pc[s] # "done",
         pc' = [pc EXCEPT ![s] = next], phase' = [phase EXCEPT ![s] = p],
         next \in BeforeSubmit => pc[s] \in BeforeSubmit,
         next \in AfterClose => pc[s] \in AfterClose \cup {"close"},
         next = "close" => fate[s] # "absent",
         next \in AfterQueue => pc[s] \in AfterQueue \/ JobSeen,
         p = "SUCCESS" => phase[s] = "SUCCESS" \/ (JobGone /\ next = "done")
  PROVE  JobInv'
<1> SUFFICES ASSUME NEW t \in Sessions
             PROVE  /\ pc'[t] \in BeforeSubmit => fate'[t] = "absent"
                    /\ pc'[t] \in AfterQueue => JobSeen'
                    /\ pc'[t] \in AfterClose \cup {"close"} => fate'[t] # "absent"
                    /\ phase'[t] = "SUCCESS" => pc'[t] = "done" /\ JobGone'
  BY DEF JobInv, JobSeen, JobGone
<1>1. t \in Jobs /\ s \in Jobs
  BY DEF Jobs
<1>2. (JobSeen => JobSeen') /\ (JobGone => JobGone')
  BY DEF JobsKeepGoing, JobSeen, JobGone
<1>3. pc'[t] \in BeforeSubmit => fate'[t] = "absent"
  BY <1>1 DEF JobInv, JobsKeepGoing, TypeOK
<1>4. pc'[t] \in AfterQueue => JobSeen'
  BY <1>2 DEF JobInv, TypeOK, JobSeen
<1>5. phase'[t] = "SUCCESS" => pc'[t] = "done" /\ JobGone'
  BY <1>2 DEF JobInv, TypeOK, JobGone
<1>6. pc'[t] \in AfterClose \cup {"close"} => fate'[t] # "absent"
  BY <1>1 DEF JobInv, JobsKeepGoing, TypeOK
<1> QED BY <1>3, <1>4, <1>5, <1>6

\* TypeOK is GateTypeOK and what it does not mention.
LEMMA TypesAssembled ==
  ASSUME TypeOK, GateTypeOK', EngineTypeOK', UNCHANGED env,
         phase' \in [Sessions -> Phases],
         handleOpen' \in [Sessions -> BOOLEAN],
         stream' \in [Sessions -> Streams]
  PROVE  TypeOK'
  BY DEF TypeOK, GateTypeOK

LEMMA MoveSound ==
  ASSUME Inv, NEW s \in Sessions, NEW next \in Steps, NEW p \in Phases,
         Move(s, next, p),
         pc[s] \notin {"submit", "close", "cleanup", "done"},
         next \notin {"submit", "close"},
         next \in BeforeSubmit => pc[s] \in BeforeSubmit,
         next \in AfterClose => pc[s] \in AfterClose,
         next \in AfterQueue => pc[s] \in AfterQueue \/ JobSeen,
         p = "SUCCESS" => phase[s] = "SUCCESS" \/ (JobGone /\ next = "done")
  PROVE  Inv'
<1>1. GateTypeOK' /\ pc' = [pc EXCEPT ![s] = next]
  BY GotoSound DEF Inv, TypeOK, GateTypeOK, Move
<1>2. EngineTypeOK' /\ JobsKeepGoing
  BY EngineStepSound DEF Inv, TypeOK, Move
<1>3. TypeOK'
  BY <1>1, <1>2, TypesAssembled DEF Inv, TypeOK, Move, streamVars
<1>4. HandleInv'
  BY <1>1 DEF Inv, HandleInv, TypeOK, Move, streamVars, Streams
<1>5. JobInv'
  BY <1>1, <1>2, JobInvKept DEF Inv, Move
<1> QED BY <1>3, <1>4, <1>5 DEF Inv

\* A step that stays where it is, in a wait loop.
LEMMA PollSound ==
  ASSUME Inv, NEW s \in Sessions, pc[s] \in Waits, ~LastPoll(s, pc[s]),
         NEW k \in BOOLEAN, NEW a \in BOOLEAN, PollAgain(s, k, a),
         UNCHANGED <<engineVars, phase, streamVars, env>>
  PROVE  Inv'
<1>1. GateTypeOK' /\ pc' = pc
  BY PollAgainSound DEF Inv, TypeOK, GateTypeOK
<1>2. TypeOK'
  BY <1>1, TypesAssembled DEF Inv, TypeOK, EngineTypeOK, engineVars, streamVars
<1>3. HandleInv' /\ JobInv'
  BY <1>1 DEF Inv, HandleInv, JobInv, JobSeen, JobGone, engineVars, streamVars
<1> QED BY <1>2, <1>3 DEF Inv

\* A wait loop keeps the invariant if its way out does.
LEMMA WaitSound ==
  ASSUME Inv, NEW s \in Sessions, NEW at \in Waits, NEW st, NEW passes \in BOOLEAN,
         NEW active \in BOOLEAN, NEW next \in Steps, NEW p \in Phases,
         NEW failed \in {"cleanup", "give_up"},
         Wait(s, at, st, passes, active, next, p, failed),
         next \notin BeforeSubmit \cup {"submit", "close"},
         next \in AfterClose => at \in AfterClose,
         passes /\ next \in AfterQueue => at \in AfterQueue \/ JobSeen,
         p # "SUCCESS" \/ (next = "done" /\ (passes => JobGone))
  PROVE  Inv'
<1>1. pc[s] = at /\ UNCHANGED <<engineVars, streamVars, env>>
  BY DEF Wait
<1>2. EngineStep
  BY <1>1 DEF EngineStep
<1>3. CASE passes /\ Goto(s, next) /\ SetPhase(s, p)
  <2>1. Move(s, next, p)
    BY <1>1, <1>2, <1>3 DEF Move, SetPhase
  <2> QED BY <1>1, <1>3, <2>1, MoveSound DEF Waits, BeforeSubmit, AfterClose
<1>4. CASE Goto(s, failed) /\ UNCHANGED phase
  <2>1. phase[s] \in Phases /\ phase' = [phase EXCEPT ![s] = phase[s]]
    BY <1>4 DEF Inv, TypeOK
  <2>2. Move(s, failed, phase[s])
    BY <1>1, <1>2, <1>4, <2>1 DEF Move
  <2> QED BY <1>1, <2>1, <2>2, MoveSound DEF Waits, Steps, BeforeSubmit, AfterClose, AfterQueue
<1>5. CASE ~LastPoll(s, at) /\ PollAgain(s, known[s], active) /\ UNCHANGED phase
  <2>1. known[s] \in BOOLEAN
    BY DEF Inv, TypeOK
  <2> QED BY <1>1, <1>5, <2>1, PollSound
<1> QED BY <1>3, <1>4, <1>5 DEF Wait

-----------------------------------------------------------------------------
(* One lemma per part of a session.                                        *)

\* A move within a session that keeps its phase is a Move.
LEMMA PhaseKept ==
  ASSUME Inv, NEW s \in Sessions, NEW next \in Steps,
         Goto(s, next), EngineStep, UNCHANGED <<phase, streamVars, env>>
  PROVE  phase[s] \in Phases /\ Move(s, next, phase[s])
  BY DEF Inv, TypeOK, Move

LEMMA ReadyWaitSound ==
  ASSUME Inv, NEW s \in Sessions, NEW at \in {"wait_ready", "wait_init"},
         NEW next \in {"recheck", "align"}, WaitEngineReadyForSubmit(s, at, next)
  PROVE  Inv'
<1>1. /\ pc[s] = at /\ at \in Waits
      /\ UNCHANGED <<engineVars, phase, streamVars, env>> /\ EngineStep
  BY DEF WaitEngineReadyForSubmit, EngineStep, Waits
<1>2. ASSUME NEW to \in {"recheck", "align", "done"}, Goto(s, to) PROVE Inv'
  BY <1>1, <1>2, PhaseKept, MoveSound DEF Steps, BeforeSubmit, AfterClose, AfterQueue
<1>3. ASSUME NEW k \in BOOLEAN, ~LastPoll(s, at), PollAgain(s, k, activeSeen[s])
      PROVE  Inv'
  <2>1. activeSeen[s] \in BOOLEAN
    BY DEF Inv, TypeOK
  <2> QED BY <1>1, <1>3, <2>1, PollSound
<1>4. \A st : (known[s] \/ st.state # "UNKNOWN") \in BOOLEAN
  BY DEF Inv, TypeOK
<1> QED BY <1>2, <1>3, <1>4 DEF WaitEngineReadyForSubmit

LEMMA EnsureEngineReadySound ==
  ASSUME Inv, NEW s \in Sessions, EnsureEngineReady(s)
  PROVE  Inv'
<1>1. CASE Recheck(s)
  <2>1. PICK next \in {"initialise", "align"} : Goto(s, next)
    BY <1>1 DEF Recheck
  <2>2. EngineStep /\ UNCHANGED <<phase, streamVars, env>> /\ pc[s] = "recheck"
    BY <1>1 DEF Recheck, EngineStep
  <2> QED BY <2>1, <2>2, PhaseKept, MoveSound DEF Steps, BeforeSubmit, AfterClose, AfterQueue
<1>2. CASE CallInitialise(s)
  <2>1. PICK next \in {"wait_init", "done"} : Goto(s, next)
    BY <1>2 DEF CallInitialise
  <2>2. EngineStep /\ UNCHANGED <<phase, streamVars, env>> /\ pc[s] = "initialise"
    BY <1>2 DEF CallInitialise, EngineStep, Commands
  <2> QED BY <2>1, <2>2, PhaseKept, MoveSound DEF Steps, Waits, BeforeSubmit, AfterClose, AfterQueue
<1> QED BY <1>1, <1>2, ReadyWaitSound DEF EnsureEngineReady

\* Taking the last page is the one step that changes a job's fate otherwise
\* than the engine does.
LEMMA PageTakenSound ==
  ASSUME Inv, NEW s \in Sessions, PageTaken(s)
  PROVE  Inv'
<1>1. /\ s \in Jobs /\ fate[s] = "absent" /\ fate' = [fate EXCEPT ![s] = "sent"]
      /\ pc[s] = "submit"
      /\ UNCHANGED <<engine, startPending, gateVars, phase, streamVars, env>>
  BY DEF PageTaken, Jobs
<1>2. EngineTypeOK' /\ \A j \in Jobs : j # s => fate'[j] = fate[j]
  BY <1>1 DEF Inv, TypeOK, EngineTypeOK, Fate
<1>3. TypeOK'
  BY <1>1, <1>2, TypesAssembled DEF Inv, TypeOK, GateTypeOK, gateVars, streamVars
<1>4. HandleInv'
  BY <1>1 DEF Inv, HandleInv, gateVars, streamVars
<1>5. JobInv'
  <2>1. \A j \in Jobs : fate[j] \in InQueue \cup Gone => j # s
    BY <1>1 DEF InQueue, Gone
  <2>2. (JobSeen => JobSeen') /\ (JobGone => JobGone')
    BY <1>2, <2>1 DEF JobSeen, JobGone
  <2>3. \A t \in Sessions :
          /\ t \in Jobs
          /\ pc[t] \in BeforeSubmit => t # s
          /\ fate[t] # "absent" => fate'[t] # "absent"
    BY <1>1, <1>2 DEF BeforeSubmit, Jobs
  <2> QED BY <1>1, <1>2, <2>2, <2>3 DEF Inv, JobInv, JobSeen, JobGone, gateVars
<1> QED BY <1>3, <1>4, <1>5 DEF Inv

\* The stream changes while the session is in the submission or in cleanup.
LEMMA SubmitStreamSound ==
  ASSUME Inv, NEW s \in Sessions, StreamAborted(s) \/ StreamClosed(s)
  PROVE  Inv'
<1>1. PICK to \in {"aborted", "closed"} :
        /\ pc[s] \in {"submit", "cleanup"} /\ stream' = [stream EXCEPT ![s] = to]
        /\ stream[s] \in {"open", "aborted"}
        /\ UNCHANGED <<engineVars, gateVars, phase, handleOpen, env>>
  BY DEF StreamAborted, StreamClosed
<1>2. TypeOK'
  BY <1>1, TypesAssembled
     DEF Inv, TypeOK, GateTypeOK, EngineTypeOK, engineVars, gateVars, Streams
<1>3. HandleInv'
  BY <1>1 DEF Inv, HandleInv, TypeOK, gateVars, BeforeSubmit, AfterClose, AfterQueue
<1>4. JobInv'
  BY <1>1 DEF Inv, JobInv, JobSeen, JobGone, engineVars, gateVars
<1> QED BY <1>2, <1>3, <1>4 DEF Inv

\* The session takes note of how the submission went.
LEMMA SubmitEndsSound ==
  ASSUME Inv, NEW s \in Sessions, SubmitSucceeds(s) \/ SubmitFails(s)
  PROVE  Inv'
<1>1. PICK next \in {"close", "cleanup"} :
        /\ pc[s] = "submit" /\ Goto(s, next)
        /\ next = "close" => stream[s] = "open" /\ fate[s] # "absent"
        /\ next = "cleanup" => stream[s] # "open"
        /\ UNCHANGED <<engineVars, phase, streamVars, env>>
  BY DEF SubmitSucceeds, SubmitFails
<1>2. GateTypeOK' /\ pc' = [pc EXCEPT ![s] = next]
  BY <1>1, GotoSound DEF Inv, TypeOK, GateTypeOK, Steps
<1>3. TypeOK'
  BY <1>1, <1>2, TypesAssembled DEF Inv, TypeOK, EngineTypeOK, engineVars, streamVars
<1>4. HandleInv'
  BY <1>1, <1>2
     DEF Inv, HandleInv, TypeOK, streamVars, BeforeSubmit, AfterClose, AfterQueue
<1>5. JobInv'
  <2>1. JobsKeepGoing
    BY <1>1, FateUnchanged DEF Inv, TypeOK, engineVars
  <2>2. phase[s] \in Phases /\ phase' = [phase EXCEPT ![s] = phase[s]]
    BY <1>1 DEF Inv, TypeOK
  <2> QED
    BY <1>1, <1>2, <2>1, <2>2, JobInvKept
       DEF Inv, Steps, BeforeSubmit, AfterClose, AfterQueue
<1> QED BY <1>3, <1>4, <1>5 DEF Inv

LEMMA SubmitSound ==
  ASSUME Inv, NEW s \in Sessions, SubmitInline(s) \/ SubmitByWorker(s)
  PROVE  Inv'
  BY PageTakenSound, SubmitStreamSound, SubmitEndsSound
     DEF SubmitInline, SubmitByWorker, AddPage

\* Opening and closing a stream, and the cleanup of one.
LEMMA StreamSound ==
  ASSUME Inv, NEW s \in Sessions, OpenJob(s) \/ CloseJob(s) \/ CleanupStream(s)
  PROVE  Inv'
<1>1. UNCHANGED <<engineVars, env>>
  BY DEF OpenJob, CloseJob, CleanupStream
<1>2. EngineTypeOK' /\ JobsKeepGoing
  BY <1>1, EngineStepSound DEF EngineStep, Inv, TypeOK
<1>3. PICK next \in {"submit", "done", "wait_queue", "cleanup_finish"} :
        /\ Goto(s, next) /\ pc[s] \in {"open", "close", "cleanup"}
        /\ next = "wait_queue" => pc[s] = "close"
  BY DEF OpenJob, CloseJob, CleanupStream
<1>4. GateTypeOK' /\ pc' = [pc EXCEPT ![s] = next]
  BY <1>3, GotoSound DEF Inv, TypeOK, GateTypeOK, Steps, Waits
<1>5. PICK p \in Phases : /\ phase' = [phase EXCEPT ![s] = p]
                          /\ p = "SUCCESS" => phase[s] = "SUCCESS"
  <2>1. phase = [phase EXCEPT ![s] = phase[s]] /\ phase[s] \in Phases
    BY DEF Inv, TypeOK
  <2>2. CASE UNCHANGED phase
    BY <2>1, <2>2
  <2>3. CASE CloseJob(s)
    BY <2>3 DEF CloseJob, SetPhase, Phases
  <2> QED BY <2>2, <2>3 DEF OpenJob, CleanupStream
<1>6. TypeOK'
  <2>1. /\ handleOpen' \in [Sessions -> BOOLEAN] /\ stream' \in [Sessions -> Streams]
        /\ phase' \in [Sessions -> Phases]
    BY <1>5 DEF Inv, TypeOK, OpenJob, CloseJob, CleanupStream, streamVars, Streams
  <2> QED BY <1>1, <1>2, <1>4, <2>1, TypesAssembled DEF Inv
<1>7. HandleInv'
  <2>1. CASE OpenJob(s)
    BY <2>1, <1>4 DEF OpenJob, Goto, streamVars, Inv, HandleInv, TypeOK, Streams, BeforeSubmit, AfterClose,
                        AfterQueue
  <2>2. CASE CloseJob(s)
    BY <2>2, <1>4 DEF CloseJob, Goto, Inv, HandleInv, TypeOK, Streams, BeforeSubmit, AfterClose,
                        AfterQueue
  <2>3. CASE CleanupStream(s)
    BY <2>3, <1>4 DEF CleanupStream, Goto, Inv, HandleInv, TypeOK, Streams, BeforeSubmit, AfterClose,
                        AfterQueue
  <2> QED BY <2>1, <2>2, <2>3
<1>8. JobInv'
  BY <1>2, <1>3, <1>4, <1>5, JobInvKept DEF Inv, Steps, Waits, BeforeSubmit, AfterClose, AfterQueue
<1> QED BY <1>6, <1>7, <1>8 DEF Inv

\* A probe that shows a job in the queue, or an empty queue in a state the
\* engine has a name for, was a true one.
LEMMA ProbesAreTrue ==
  ASSUME NEW st \in Probe
  PROVE  /\ st.queued \in BOOLEAN
         /\ st.queued => JobSeen
         /\ Idle(st) => QueueEmpty
<1>1. CASE st = Unreadable
  BY <1>1 DEF Unreadable, Idle
<1>2. CASE st = Reported
  <2>1. st.queued = ~QueueEmpty
    BY <1>2 DEF Reported
  <2>2. ~QueueEmpty => JobSeen
    BY DEF QueueEmpty, JobSeen
  <2>3. QueueEmpty \in BOOLEAN
    BY DEF QueueEmpty
  <2> QED BY <2>1, <2>2, <2>3 DEF Idle
<1> QED BY <1>1, <1>2 DEF Probe

LEMMA PrepareSound ==
  ASSUME Inv, NEW s \in Sessions, Prepare(s)
  PROVE  Inv'
<1>1. CASE WaitJobQueuedAfterSubmit(s)
  <2>1. PICK st \in Probe :
          Wait(s, "wait_queue", st, st.queued, activeSeen[s],
               "check_prepare", "PREPARING", "cleanup")
    BY <1>1 DEF WaitJobQueuedAfterSubmit
  <2>2. activeSeen[s] \in BOOLEAN /\ st.queued \in BOOLEAN /\ (st.queued => JobSeen)
    BY ProbesAreTrue DEF Inv, TypeOK
  <2> QED BY <2>1, <2>2, WaitSound DEF Waits, Steps, Phases, BeforeSubmit, AfterClose, AfterQueue
<1>2. CASE CheckBeforePrepare(s)
  <2>1. PICK next \in {"guard_prepare", "cleanup"} : Goto(s, next)
    BY <1>2 DEF CheckBeforePrepare
  <2>2. EngineStep /\ UNCHANGED <<phase, streamVars, env>> /\ pc[s] = "check_prepare"
    BY <1>2 DEF CheckBeforePrepare, EngineStep
  <2> QED BY <2>1, <2>2, PhaseKept, MoveSound DEF Steps, BeforeSubmit, AfterClose, AfterQueue
<1>3. CASE GuardPrepare(s)
  <2>1. PICK next \in {"prepare", "cleanup"} : Goto(s, next)
    BY <1>3 DEF GuardPrepare
  <2>2. EngineStep /\ UNCHANGED <<phase, streamVars, env>> /\ pc[s] = "guard_prepare"
    BY <1>3 DEF GuardPrepare, EngineStep
  <2> QED BY <2>1, <2>2, PhaseKept, MoveSound DEF Steps, BeforeSubmit, AfterClose, AfterQueue
<1>4. CASE CallPrepare(s)
  <2>1. EngineStep /\ UNCHANGED <<streamVars, env>> /\ pc[s] = "prepare"
    BY <1>4 DEF CallPrepare, EngineStep, Commands
  <2>2. CASE Goto(s, "cleanup") /\ UNCHANGED phase
    BY <2>1, <2>2, PhaseKept, MoveSound DEF Steps, BeforeSubmit, AfterClose, AfterQueue
  <2>3. CASE Goto(s, "wait_print_ready") /\ SetPhase(s, "WAITING_PRINT_READY")
    BY <2>1, <2>3, MoveSound
       DEF Move, SetPhase, Steps, Waits, Phases, BeforeSubmit, AfterClose, AfterQueue
  <2> QED BY <1>4, <2>2, <2>3 DEF CallPrepare
<1>5. CASE WaitEnginePrintReadyAfterPrepare(s)
  <2>1. PICK st \in Probe :
          Wait(s, "wait_print_ready", st, Startable(st), activeSeen[s],
               "guard_start", "STARTING", "cleanup")
    BY <1>5 DEF WaitEnginePrintReadyAfterPrepare
  <2>2. activeSeen[s] \in BOOLEAN /\ Startable(st) \in BOOLEAN
    BY DEF Inv, TypeOK, Startable
  <2> QED BY <2>1, <2>2, WaitSound DEF Waits, Steps, Phases, BeforeSubmit, AfterClose, AfterQueue
<1> QED BY <1>1, <1>2, <1>3, <1>4, <1>5 DEF Prepare

LEMMA PrintSound ==
  ASSUME Inv, NEW s \in Sessions, PrintJob(s)
  PROVE  Inv'
<1>1. CASE GuardStart(s)
  <2>1. PICK next \in {"start", "cleanup"} : Goto(s, next)
    BY <1>1 DEF GuardStart
  <2>2. EngineStep /\ UNCHANGED <<phase, streamVars, env>> /\ pc[s] = "guard_start"
    BY <1>1 DEF GuardStart, EngineStep
  <2> QED BY <2>1, <2>2, PhaseKept, MoveSound DEF Steps, BeforeSubmit, AfterClose, AfterQueue
<1>2. CASE CallStart(s)
  <2>1. EngineStep /\ UNCHANGED <<streamVars, env>> /\ pc[s] = "start"
    BY <1>2 DEF CallStart, EngineStep, Commands
  <2>2. CASE Goto(s, "cleanup") /\ UNCHANGED phase
    BY <2>1, <2>2, PhaseKept, MoveSound DEF Steps, BeforeSubmit, AfterClose, AfterQueue
  <2>3. CASE Goto(s, "wait_complete") /\ SetPhase(s, "WAIT_PRINT_COMPLETE")
    BY <2>1, <2>3, MoveSound
       DEF Move, SetPhase, Steps, Waits, Phases, BeforeSubmit, AfterClose, AfterQueue
  <2> QED BY <1>2, <2>2, <2>3 DEF CallStart
<1>3. CASE WaitSessionCompleteAfterStart(s)
  <2>1. PICK st \in Probe, active \in BOOLEAN :
          Wait(s, "wait_complete", st, Complete(st, active), active,
               "finishing", "FINISHING", "give_up")
    <3>1. \A st : (activeSeen[s] \/ ShowsActivity(st)) \in BOOLEAN
      BY DEF Inv, TypeOK, ShowsActivity
    <3> QED BY <1>3, <3>1 DEF WaitSessionCompleteAfterStart
  <2>2. Complete(st, active) \in BOOLEAN
    BY DEF Complete
  <2> QED BY <2>1, <2>2, WaitSound DEF Waits, Steps, Phases, BeforeSubmit, AfterClose, AfterQueue
<1>4. CASE GiveUp(s)
  <2>1. /\ EngineStep /\ UNCHANGED <<phase, streamVars, env>> /\ pc[s] = "give_up"
        /\ Goto(s, "done")
    BY <1>4 DEF GiveUp, EngineStep, Commands
  <2> QED BY <2>1, PhaseKept, MoveSound DEF Steps, BeforeSubmit, AfterClose, AfterQueue
<1> QED BY <1>1, <1>2, <1>3, <1>4 DEF PrintJob

LEMMA ConcludeSound ==
  ASSUME Inv, NEW s \in Sessions, Conclude(s)
  PROVE  Inv'
<1>1. CASE Finish(s)
  <2>1. Move(s, "wait_idle", "WAIT_JOB_DONE") /\ pc[s] = "finishing"
    BY <1>1 DEF Finish, Move, SetPhase, EngineStep, Commands
  <2> QED BY <2>1, MoveSound DEF Steps, Waits, Phases, BeforeSubmit, AfterClose, AfterQueue
<1>2. CASE WaitIdleAfterFinish(s)
  <2>1. PICK st \in Probe :
          Wait(s, "wait_idle", st, Idle(st), activeSeen[s], "done", "SUCCESS", "cleanup")
    BY <1>2 DEF WaitIdleAfterFinish
  <2>2. activeSeen[s] \in BOOLEAN /\ Idle(st) \in BOOLEAN
    BY DEF Inv, TypeOK, Idle
  <2>3. JobSeen
    BY <2>1 DEF Wait, Inv, JobInv, AfterQueue, JobSeen
  <2>4. Idle(st) => JobGone
    BY <2>3, ProbesAreTrue DEF QueueEmpty, JobSeen, JobGone
  <2> QED BY <2>1, <2>2, <2>4, WaitSound DEF Waits, Steps, Phases, BeforeSubmit, AfterClose, AfterQueue
<1>3. CASE CleanupFinish(s)
  <2>1. Move(s, "done", "FAILED") /\ pc[s] = "cleanup_finish"
    BY <1>3 DEF CleanupFinish, Move, SetPhase, EngineStep, Commands
  <2> QED BY <2>1, MoveSound DEF Steps, Phases, BeforeSubmit, AfterClose, AfterQueue
<1> QED BY <1>1, <1>2, <1>3, StreamSound DEF Conclude

\* What the engine does by itself.
LEMMA EngineMovesSound ==
  ASSUME Inv, EngineMoves
  PROVE  Inv'
<1>1. EngineTypeOK' /\ JobsKeepGoing
  BY EngineStepSound DEF EngineMoves, EngineStep, Inv, TypeOK
<1>2. TypeOK' /\ HandleInv'
  BY <1>1 DEF EngineMoves, Inv, TypeOK, HandleInv, sessionVars, gateVars, streamVars
<1>3. JobInv'
  <2>1. (JobSeen => JobSeen') /\ (JobGone => JobGone')
    BY <1>1 DEF JobsKeepGoing, JobSeen, JobGone
  <2> QED
    BY <1>1, <2>1
       DEF EngineMoves, Inv, JobInv, JobSeen, JobGone, JobsKeepGoing, Jobs,
           sessionVars, gateVars
<1> QED BY <1>2, <1>3 DEF Inv

-----------------------------------------------------------------------------
(* The theorems.                                                           *)

LEMMA InvInitially == Init => Inv
<1> SUFFICES ASSUME Init PROVE Inv
  OBVIOUS
<1>1. EngineTypeOK
  BY DEF Init, EngineInit, EngineTypeOK, Fate, InQueue
<1>2. TypeOK
  <2>1. pc \in [Sessions -> Steps] /\ polls \in [Sessions -> Nat]
        /\ \A s \in Sessions : pc[s] \in Waits => polls[s] < Polls[pc[s]]
    BY PollsAssumption DEF Init, Steps, Waits
  <2> QED BY <1>1, <2>1, EnvsAssumption DEF Init, TypeOK, Phases, Streams
<1>3. HandleInv
  BY DEF Init, HandleInv, AfterClose, AfterQueue
<1>4. JobInv
  BY JobsAssumption DEF Init, EngineInit, JobInv, BeforeSubmit, AfterClose, AfterQueue, Jobs
<1> QED BY <1>2, <1>3, <1>4 DEF Inv

LEMMA InvPreserved == Inv /\ [Next]_vars => Inv'
<1> SUFFICES ASSUME Inv, [Next]_vars PROVE Inv'
  OBVIOUS
<1>1. CASE UNCHANGED vars
  BY <1>1 DEF Inv, TypeOK, EngineTypeOK, HandleInv, JobInv, JobSeen, JobGone, vars,
              engineVars, sessionVars, gateVars, streamVars
<1>2. CASE EngineMoves
  BY <1>2, EngineMovesSound
<1>3. ASSUME NEW s \in Sessions, Proceed(s) \/ SubmitInline(s) PROVE Inv'
  <2>1. CASE EnsureEngineReady(s)
    BY <2>1, EnsureEngineReadySound
  <2>2. CASE Align(s)
    <3>1. EngineStep /\ UNCHANGED <<streamVars, env>> /\ pc[s] = "align"
      BY <2>2 DEF Align, EngineStep
    <3>2. CASE Goto(s, "cleanup") /\ UNCHANGED phase
      BY <3>1, <3>2, PhaseKept, MoveSound DEF Steps, BeforeSubmit, AfterClose, AfterQueue
    <3>3. CASE Goto(s, "open") /\ SetPhase(s, "DATA_SUBMITTING")
      BY <3>1, <3>3, MoveSound DEF Move, SetPhase, Steps, Phases, BeforeSubmit, AfterClose, AfterQueue
    <3> QED BY <2>2, <3>2, <3>3 DEF Align
  <2>3. CASE OpenJob(s) \/ CloseJob(s)
    BY <2>3, StreamSound
  <2>4. CASE SubmitByWorker(s) \/ SubmitInline(s)
    BY <2>4, SubmitSound
  <2>5. CASE Prepare(s)
    BY <2>5, PrepareSound
  <2>6. CASE PrintJob(s)
    BY <2>6, PrintSound
  <2>7. CASE Conclude(s)
    BY <2>7, ConcludeSound
  <2> QED BY <1>3, <2>1, <2>2, <2>3, <2>4, <2>5, <2>6, <2>7 DEF Proceed, SubmitJob
<1> QED BY <1>1, <1>2, <1>3 DEF Next, Ended

LEMMA InvAlways == Spec => []Inv
  BY InvInitially, InvPreserved, PTL DEF Spec

\* Every variable holds a value the code can give it, and no wait loop polls
\* more often than its timeout allows (the wait... functions).
THEOREM TypeCorrect == Spec => []TypeOK
<1>1. Inv => TypeOK
  BY DEF Inv
<1> QED BY <1>1, InvAlways, PTL

\* By whatever path runPrintSession returns, the stream it opened is closed.
THEOREM StreamsAreClosed == Spec => []StreamClosedAtEnd
<1>1. Inv => StreamClosedAtEnd
  BY DEF Inv, TypeOK, HandleInv, StreamClosedAtEnd, Streams
<1> QED BY <1>1, InvAlways, PTL

\* Any number of sessions, against any leftover jobs: a session that reports
\* success saw a job leave the engine.
THEOREM SuccessNeedsAJob == Spec => []SuccessMeansAJobRan
<1>1. Inv => SuccessMeansAJobRan
  BY DEF Inv, JobInv, JobGone, SuccessMeansAJobRan
<1> QED BY <1>1, InvAlways, PTL

\* A session alone with an engine whose queue was empty to begin with reports
\* success only of its own job: what keeps waitJobQueuedAfterSubmit, which does
\* not look whose job is queued, from accepting another's.
THEOREM SuccessNeedsOwnJob ==
  ASSUME Leftover = {}, LegacyJobs = {}, NEW only, Sessions = {only}
  PROVE  Spec => []SuccessMeansOwnJobRan
<1>1. Inv => SuccessMeansOwnJobRan
  BY DEF Inv, JobInv, JobGone, SuccessMeansOwnJobRan, Jobs
<1> QED BY <1>1, InvAlways, PTL

\* SUCCESS is entered in one place only, on a probe that shows the engine idle.
LEMMA SuccessIsEnteredIdle ==
  ASSUME Inv, Next, NEW s \in Sessions, phase[s] # "SUCCESS", phase'[s] = "SUCCESS"
  PROVE  \E st \in Probe : Idle(st)
<1>1. PICK t \in Sessions : Proceed(t) \/ SubmitInline(t)
  BY DEF Next, EngineMoves, Ended, vars, sessionVars
<1>2. ASSUME NEW p \in Phases \ {"SUCCESS"}, SetPhase(t, p) PROVE FALSE
  BY <1>2 DEF SetPhase, Inv, TypeOK
<1>3. ~UNCHANGED phase
  OBVIOUS
<1>4. WaitIdleAfterFinish(t)
  <2>1. ~EnsureEngineReady(t)
    BY <1>3 DEF EnsureEngineReady, WaitEngineReadyForSubmit, Recheck, CallInitialise
  <2>2. ~SubmitJob(t) /\ ~SubmitInline(t)
    BY <1>2, <1>3
       DEF SubmitJob, SubmitInline, SubmitByWorker, AddPage, PageTaken, StreamAborted,
           StreamClosed, SubmitSucceeds, SubmitFails, Align, OpenJob, CloseJob, Phases
  <2>3. ~Prepare(t)
    BY <1>2, <1>3
       DEF Prepare, WaitJobQueuedAfterSubmit, CheckBeforePrepare, GuardPrepare,
           CallPrepare, WaitEnginePrintReadyAfterPrepare, Wait, Phases
  <2>4. ~PrintJob(t)
    BY <1>2, <1>3
       DEF PrintJob, GuardStart, CallStart, WaitSessionCompleteAfterStart, GiveUp,
           Wait, Phases
  <2>5. ~Finish(t) /\ ~CleanupStream(t) /\ ~CleanupFinish(t)
    BY <1>2, <1>3 DEF Finish, CleanupStream, CleanupFinish, Phases
  <2> QED BY <1>1, <2>1, <2>2, <2>3, <2>4, <2>5 DEF Proceed, Conclude
<1> QED BY <1>3, <1>4 DEF WaitIdleAfterFinish, Wait

\* runPrintSession reports success only at a moment when the queue is empty.
THEOREM SuccessNeedsDrainedQueue == Spec => SuccessOnlyWhenDrained
<1>1. Inv /\ [Next]_vars
        => [\A s \in Sessions :
              phase[s] # "SUCCESS" /\ phase'[s] = "SUCCESS" => QueueEmpty]_vars
  <2> SUFFICES ASSUME Inv, Next, NEW s \in Sessions,
                      phase[s] # "SUCCESS", phase'[s] = "SUCCESS"
               PROVE  QueueEmpty
    BY DEF vars
  <2> QED BY SuccessIsEnteredIdle, ProbesAreTrue
<1> QED BY <1>1, InvAlways, PTL DEF Spec, SuccessOnlyWhenDrained

\* The environment is read from variables the process never sets.
LEMMA EnvUnchanged == [Next]_vars => env' = env
<1> SUFFICES ASSUME Next, NEW s \in Sessions, Proceed(s) \/ SubmitInline(s)
             PROVE  env' = env
  BY DEF Next, EngineMoves, Ended, vars
<1>1. CASE EnsureEngineReady(s)
  BY <1>1 DEF EnsureEngineReady, WaitEngineReadyForSubmit, Recheck, CallInitialise
<1>2. CASE SubmitJob(s) \/ SubmitInline(s)
  BY <1>2 DEF SubmitJob, SubmitInline, SubmitByWorker, AddPage, PageTaken, StreamAborted,
              StreamClosed, SubmitSucceeds, SubmitFails, Align, OpenJob, CloseJob
<1>3. CASE Prepare(s)
  BY <1>3 DEF Prepare, WaitJobQueuedAfterSubmit, CheckBeforePrepare, GuardPrepare,
              CallPrepare, WaitEnginePrintReadyAfterPrepare, Wait
<1>4. CASE PrintJob(s)
  BY <1>4 DEF PrintJob, GuardStart, CallStart, WaitSessionCompleteAfterStart, GiveUp, Wait
<1>5. CASE Conclude(s)
  BY <1>5 DEF Conclude, Finish, WaitIdleAfterFinish, CleanupStream, CleanupFinish, Wait
<1> QED BY <1>1, <1>2, <1>3, <1>4, <1>5 DEF Proceed

\* Where the engine's API names its states, runPrintSession reports success only
\* while the engine is in a terminal state.  Where it numbers them the run
\* session_numbers shows that it does not.
THEOREM SuccessNeedsIdleEngine ==
  ASSUME \A e \in Envs : e.report = "name"
  PROVE  Spec => SuccessOnlyWhenIdle
<1>1. Init => env \in Envs
  BY DEF Init
<1>2. env \in Envs /\ [Next]_vars => (env \in Envs)'
  <2>1. [Next]_vars => env' = env
    BY EnvUnchanged
  <2> QED BY <2>1
<1>3. Inv /\ env \in Envs /\ [Next]_vars
        => [\A s \in Sessions :
              phase[s] # "SUCCESS" /\ phase'[s] = "SUCCESS"
                => engine \in {"PRIMED_IDLE", "DEPRIMED_IDLE", "PRINT_READY"}]_vars
  <2> SUFFICES ASSUME Inv, env \in Envs, Next, NEW s \in Sessions,
                      phase[s] # "SUCCESS", phase'[s] = "SUCCESS"
               PROVE  engine \in {"PRIMED_IDLE", "DEPRIMED_IDLE", "PRINT_READY"}
    BY DEF vars
  <2>1. PICK st \in Probe : Idle(st)
    BY SuccessIsEnteredIdle
  <2>2. OwnName[engine] \in {"PRIMED_IDLE", "DEPRIMED_IDLE", "PRINT_READY"}
    BY <2>1 DEF Probe, Unreadable, Reported, Idle
  <2>3. engine \in EngineState
    BY DEF Inv, TypeOK, EngineTypeOK
  <2> QED BY <2>2, <2>3 DEF OwnName
<1> QED BY <1>1, <1>2, <1>3, InvAlways, PTL DEF Spec, SuccessOnlyWhenIdle

-----------------------------------------------------------------------------
(* The finish of a completed print.                                        *)

\* A step that submits a job: the one other way in which fates change.
Submits(j) ==
  /\ fate[j] = "absent"
  /\ fate' = [fate EXCEPT ![j] = "sent"]
  /\ UNCHANGED <<engine, startPending>>

\* A session does nothing to the engine but what the engine allows, and submits
\* no job but its own.
LEMMA SessionStepsEngine ==
  ASSUME Inv, NEW s \in Sessions, Proceed(s) \/ SubmitInline(s)
  PROVE  EngineStep \/ Submits(s)
<1>1. CASE EnsureEngineReady(s)
  BY <1>1 DEF EnsureEngineReady, WaitEngineReadyForSubmit, Recheck, CallInitialise,
              EngineStep, Commands
<1>2. CASE Align(s) \/ OpenJob(s) \/ CloseJob(s)
  BY <1>2 DEF Align, OpenJob, CloseJob, EngineStep
<1>3. CASE SubmitByWorker(s) \/ SubmitInline(s)
  BY <1>3 DEF SubmitByWorker, SubmitInline, AddPage, PageTaken, StreamAborted,
              StreamClosed, SubmitSucceeds, SubmitFails, Submits, EngineStep
<1>4. CASE Prepare(s)
  BY <1>4 DEF Prepare, WaitJobQueuedAfterSubmit, CheckBeforePrepare, GuardPrepare,
              CallPrepare, WaitEnginePrintReadyAfterPrepare, Wait, EngineStep, Commands
<1>5. CASE PrintJob(s)
  BY <1>5 DEF PrintJob, GuardStart, CallStart, WaitSessionCompleteAfterStart, GiveUp,
              Wait, EngineStep, Commands
<1>6. CASE Conclude(s)
  BY <1>6 DEF Conclude, Finish, WaitIdleAfterFinish, CleanupStream, CleanupFinish, Wait,
              EngineStep, Commands
<1> QED BY <1>1, <1>2, <1>3, <1>4, <1>5, <1>6 DEF Proceed, SubmitJob

\* Whatever the engine does or is told to do, it prints one job at a time.
LEMMA EngineKeepsOnePrints ==
  ASSUME EngineTypeOK, OnePrints, EngineStep
  PROVE  OnePrints'
<1>1. CASE UNCHANGED engineVars \/ InitialiseEngine \/ PrepareToPrint \/ StartPrinting
  BY <1>1 DEF engineVars, InitialiseEngine, PrepareToPrint, StartPrinting, OnePrints,
              NothingPrinting
<1>2. ASSUME NEW to \in {"ready", "cancelled"}, Dispose(to)
      PROVE  OnePrints'
  BY <1>2 DEF Dispose, OnePrints, NothingPrinting
<1>3. CASE FinishPrinting \/ Fault
  BY <1>2, <1>3 DEF FinishPrinting, Fault
<1>4. CASE QuietMove \/ PreJobDone \/ SessionEnds
  BY <1>4 DEF QuietMove, QuietMoves, PreJobDone, SessionEnds, OnePrints, NothingPrinting
<1>5. ASSUME NEW j \in Jobs, JobData(j) PROVE OnePrints'
  BY <1>5 DEF JobData, OnePrints, NothingPrinting, EngineTypeOK
<1>6. ASSUME NEW j \in Jobs, PickJob(j) PROVE OnePrints'
  BY <1>6 DEF PickJob, OnePrints, NothingPrinting, EngineTypeOK
<1>7. ASSUME NEW j \in Jobs, JobDone(j) \/ CancelJob(j) PROVE OnePrints'
  BY <1>7 DEF JobDone, CancelJob, InQueue, OnePrints, NothingPrinting, EngineTypeOK
<1> QED
  BY <1>1, <1>3, <1>4, <1>5, <1>6, <1>7 DEF EngineStep, EngineNext, Commands

\* Out of a print session the engine starts none of its own accord.
LEMMA EngineStaysQuiet ==
  ASSUME EngineTypeOK, engine \notin ActiveStates, NothingPrinting, EngineNext
  PROVE  engine' \notin ActiveStates /\ NothingPrinting'
<1>1. CASE QuietMove
  BY <1>1 DEF QuietMove, QuietMoves, ActiveStates, NothingPrinting
<1>2. CASE PreJobDone \/ SessionEnds
  BY <1>2 DEF PreJobDone, SessionEnds, ActiveStates
<1>3. CASE Fault
  BY <1>3 DEF Fault, Dispose, ActiveStates, NothingPrinting
<1>4. ASSUME NEW j \in Jobs, JobData(j) \/ PickJob(j) \/ JobDone(j) \/ CancelJob(j)
      PROVE  engine' \notin ActiveStates /\ NothingPrinting'
  BY <1>4 DEF JobData, PickJob, JobDone, CancelJob, ActiveStates, NothingPrinting,
              EngineTypeOK
<1> QED BY <1>1, <1>2, <1>3, <1>4 DEF EngineNext

\* A session comes to finish a completed print only from the probe that shows it
\* complete.
LEMMA FinishingIsEnteredComplete ==
  ASSUME Inv, env.report = "name", NEW s \in Sessions, Proceed(s) \/ SubmitInline(s),
         pc'[s] = "finishing"
  PROVE  engine = "SESSION_COMPLETE" /\ UNCHANGED engineVars
<1>1. ASSUME NEW next, next # "finishing", Goto(s, next) PROVE FALSE
  BY <1>1 DEF Goto, Inv, TypeOK
<1>2. ~EnsureEngineReady(s)
  BY <1>1 DEF EnsureEngineReady, WaitEngineReadyForSubmit, Recheck, CallInitialise, PollAgain
<1>3. ~SubmitJob(s) /\ ~SubmitInline(s)
  <2>1. ~Align(s) /\ ~OpenJob(s) /\ ~CloseJob(s)
    BY <1>1 DEF Align, OpenJob, CloseJob
  <2>2. ~SubmitSucceeds(s) /\ ~SubmitFails(s)
    BY <1>1 DEF SubmitSucceeds, SubmitFails
  <2>3. ~PageTaken(s) /\ ~StreamAborted(s) /\ ~StreamClosed(s)
    BY DEF PageTaken, StreamAborted, StreamClosed, gateVars
  <2> QED BY <2>1, <2>2, <2>3 DEF SubmitJob, SubmitInline, SubmitByWorker, AddPage
<1>4. ~Prepare(s)
  BY <1>1 DEF Prepare, WaitJobQueuedAfterSubmit, CheckBeforePrepare, GuardPrepare,
              CallPrepare, WaitEnginePrintReadyAfterPrepare, Wait, PollAgain
<1>5. ~Conclude(s)
  BY <1>1 DEF Conclude, Finish, WaitIdleAfterFinish, CleanupStream, CleanupFinish, Wait,
              PollAgain
<1>6. ~GuardStart(s) /\ ~CallStart(s) /\ ~GiveUp(s)
  BY <1>1 DEF GuardStart, CallStart, GiveUp
<1>7. WaitSessionCompleteAfterStart(s)
  BY <1>2, <1>3, <1>4, <1>5, <1>6 DEF Proceed, PrintJob
<1>8. PICK st \in Probe : st.state = "SESSION_COMPLETE"
  BY <1>1, <1>7 DEF WaitSessionCompleteAfterStart, Wait, Complete, PollAgain
<1>9. OwnName[engine] = "SESSION_COMPLETE" /\ engine \in EngineState
  BY <1>8 DEF Probe, Unreadable, Reported, Inv, TypeOK, EngineTypeOK
<1>10. engine = "SESSION_COMPLETE"
  BY <1>9 DEF OwnName
<1> QED BY <1>7, <1>10 DEF WaitSessionCompleteAfterStart, Wait

LEMMA CompletionPreserved ==
  ASSUME Inv, CompletionInv, env.report = "name", NEW only, Sessions = {only}, [Next]_vars
  PROVE  CompletionInv'
<1>1. EngineTypeOK
  BY DEF Inv, TypeOK
<1>2. CASE UNCHANGED vars
  BY <1>2 DEF vars, engineVars, sessionVars, gateVars, CompletionInv, OnePrints,
              NothingPrinting
<1>3. CASE EngineMoves
  BY <1>1, <1>3, EngineKeepsOnePrints, EngineStaysQuiet
     DEF EngineMoves, EngineStep, CompletionInv, sessionVars, gateVars
<1>4. CASE Proceed(only) \/ SubmitInline(only)
  <2>1. OnePrints'
    <3>1. CASE EngineStep
      BY <1>1, <3>1, EngineKeepsOnePrints DEF CompletionInv
    <3>2. CASE Submits(only)
      BY <1>1, <3>2 DEF Submits, OnePrints, NothingPrinting, CompletionInv, EngineTypeOK
    <3> QED BY <1>4, <3>1, <3>2, SessionStepsEngine
  <2>2. ASSUME pc'[only] = "finishing"
        PROVE  engine' \notin ActiveStates /\ NothingPrinting'
    <3>1. engine = "SESSION_COMPLETE" /\ UNCHANGED engineVars
      BY <1>4, <2>2, FinishingIsEnteredComplete
    <3> QED BY <3>1 DEF CompletionInv, OnePrints, NothingPrinting, engineVars, ActiveStates
  <2> QED BY <2>1, <2>2 DEF CompletionInv
<1> QED BY <1>2, <1>3, <1>4 DEF Next, Ended

\* The finishPrinting of a session alone, told the engine's state by name, cancels
\* nothing that prints: once the session has seen SESSION_COMPLETE the engine has
\* nothing to print until it is told to, whatever it, its operator or a fault do
\* between that probe and the command.
THEOREM FinishSparesTheJob ==
  ASSUME NEW only, Sessions = {only}, \A e \in Envs : e.report = "name"
  PROVE  Spec => FinishSparesOwnJob
<1> DEFINE Named == env \in Envs
<1>1. Init => Named /\ CompletionInv
  BY DEF Init, EngineInit, CompletionInv, OnePrints, NothingPrinting
<1>2. Inv /\ Named /\ CompletionInv /\ [Next]_vars => Named' /\ CompletionInv'
  BY EnvUnchanged, CompletionPreserved
<1>3. Inv /\ CompletionInv
        => \A s \in Sessions : ~(pc[s] = "finishing" /\ fate[s] = "printing")
  BY DEF CompletionInv, NothingPrinting, Jobs
<1>4. Inv /\ CompletionInv /\ [Next]_vars
        => [\A s \in Sessions :
              pc[s] = "finishing" /\ pc'[s] # "finishing" /\ fate[s] = "printing"
                => fate'[s] # "cancelled"]_vars
  BY <1>3
<1> QED BY <1>1, <1>2, <1>4, InvAlways, PTL DEF Spec, FinishSparesOwnJob

-----------------------------------------------------------------------------
(* The service.                                                            *)

LEMMA StagesTyped ==
  ASSUME EngineTypeOK
  PROVE  \A j \in Jobs :
           /\ Stage(j) \in Service!Stages
           /\ Stage(j) = "absent" <=> fate[j] = "absent"
           /\ Stage(j) = "queued" <=> fate[j] \in InQueue
           /\ Stage(j) = "gone" <=> fate[j] \in Gone
  BY DEF EngineTypeOK, Fate, Stage, InQueue, Gone, Service!Stages

\* Where the engine's variables go, the jobs' stages go.
LEMMA EngineStepAdvances ==
  ASSUME EngineTypeOK, EngineStep
  PROVE  Service!JobsAdvance
<1>1. EngineTypeOK' /\ JobsKeepGoing
  BY EngineStepSound
<1>2. \A j \in Jobs : Stage(j) \in Service!Stages /\ Stage(j)' \in Service!Stages
  BY <1>1 DEF EngineTypeOK, Fate, Stage, InQueue, Gone, Service!Stages
<1>3. ASSUME NEW j \in Jobs
      PROVE  Stage(j)' = Stage(j) \/ <<Stage(j), Stage(j)'>> \in Service!Advances
  <2>1. fate[j] \in Fate /\ fate'[j] \in Fate
    BY <1>1 DEF EngineTypeOK
  <2>2. fate[j] \in InQueue => fate'[j] \in InQueue \cup Gone
    BY <1>1 DEF JobsKeepGoing
  <2>3. fate[j] \in Gone => fate'[j] \in Gone
    BY <1>1 DEF JobsKeepGoing
  <2>4. fate[j] = "absent" <=> fate'[j] = "absent"
    BY <1>1 DEF JobsKeepGoing
  <2> QED BY <2>1, <2>2, <2>3, <2>4 DEF Fate, Stage, InQueue, Gone, Service!Advances
<1> QED BY <1>2, <1>3 DEF Service!JobsAdvance

\* A step that leaves streams, phases and steps alone.
LEMMA WorkServes ==
  ASSUME EngineTypeOK, EngineStep, UNCHANGED <<pc, phase, stream>>
  PROVE  Service!Next
  BY EngineStepAdvances DEF Service!Next, Service!Work, Outcome

\* A session goes elsewhere and leaves its stream alone: unless it ends there the
\* service sees the engine's work only, and if it does, a failure.
LEMMA MoveServes ==
  ASSUME Inv, Inv', NEW s \in Sessions, NEW next \in Steps, NEW p \in Phases \ {"SUCCESS"},
         EngineStep, UNCHANGED stream, pc[s] # "done",
         pc' = [pc EXCEPT ![s] = next], phase' = [phase EXCEPT ![s] = p]
  PROVE  Service!Next
<1>1. phase[s] # "SUCCESS" /\ Outcome(s) = "pending"
  BY DEF Inv, JobInv, Outcome
<1>2. \A t \in Sessions : t # s => Outcome(t)' = Outcome(t)
  BY DEF Inv, TypeOK, Outcome
<1>3. Outcome(s)' = IF next = "done" THEN "failed" ELSE "pending"
  BY DEF Inv, TypeOK, Outcome
<1>4. Service!JobsAdvance
  BY EngineStepAdvances DEF Inv, TypeOK
<1>5. CASE next # "done"
  <2>1. \A t \in Sessions : Outcome(t)' = Outcome(t)
    BY <1>1, <1>2, <1>3, <1>5
  <2>2. [t \in Sessions |-> Outcome(t)]' = [t \in Sessions |-> Outcome(t)]
    BY <2>1
  <2> QED BY <1>4, <2>2 DEF Service!Next, Service!Work
<1>6. CASE next = "done"
  <2>1. stream[s] \in {"none", "closed"}
    BY <1>6 DEF Inv, TypeOK, HandleInv, Streams
  <2>2. [t \in Sessions |-> Outcome(t)]'
          = [[t \in Sessions |-> Outcome(t)] EXCEPT ![s] = "failed"]
    BY <1>2, <1>3, <1>6
  <2>3. Service!Fail(s)
    BY <1>1, <1>4, <2>1, <2>2 DEF Service!Fail
  <2> QED BY <2>3 DEF Service!Next
<1> QED BY <1>5, <1>6

\* A step that only changes a session's stream, while the session is not done.
LEMMA StreamServes ==
  ASSUME Inv, Inv', NEW s \in Sessions, NEW to \in Streams, UNCHANGED fate,
         pc[s] # "done", pc'[s] # "done",
         \A t \in Sessions : t # s => pc'[t] = pc[t] /\ phase'[t] = phase[t],
         stream' = [stream EXCEPT ![s] = to],
         \/ to = stream[s]
         \/ stream[s] = "none" /\ to = "open"
              /\ \A t \in Sessions : stream[t] \notin {"open", "aborted"}
         \/ stream[s] = "open" /\ to = "aborted"
         \/ stream[s] = "aborted" /\ to = "closed"
         \/ stream[s] = "open" /\ to = "closed" /\ fate[s] # "absent"
  PROVE  Service!Next
<1>1. Outcome(s) = "pending" /\ Outcome(s)' = "pending"
  BY DEF Inv, JobInv, Outcome
<1>2. \A t \in Sessions : Outcome(t)' = Outcome(t)
  BY <1>1 DEF Outcome
<1>3. [t \in Sessions |-> Outcome(t)]' = [t \in Sessions |-> Outcome(t)]
  BY <1>2
<1>4. [j \in Jobs |-> Stage(j)]' = [j \in Jobs |-> Stage(j)]
  BY DEF Stage
<1>5. s \in Jobs /\ (fate[s] # "absent" => Stage(s) # "absent")
  BY StagesTyped DEF Jobs, Inv, TypeOK
<1>6. CASE to = stream[s]
  <2>1. UNCHANGED stream
    BY <1>6 DEF Inv, TypeOK
  <2>2. Service!JobsAdvance
    BY <1>4, StagesTyped DEF Service!JobsAdvance, Inv, TypeOK
  <2> QED BY <1>3, <2>1, <2>2 DEF Service!Next, Service!Work
<1>7. CASE stream[s] = "none" /\ to = "open"
              /\ \A t \in Sessions : stream[t] \notin {"open", "aborted"}
  BY <1>1, <1>3, <1>4, <1>7 DEF Service!Next, Service!Open
<1>8. CASE stream[s] = "open" /\ to = "aborted"
  BY <1>1, <1>3, <1>4, <1>8 DEF Service!Next, Service!Abort
<1>9. CASE \/ stream[s] = "aborted" /\ to = "closed"
           \/ stream[s] = "open" /\ to = "closed" /\ fate[s] # "absent"
  BY <1>1, <1>3, <1>4, <1>5, <1>9 DEF Service!Next, Service!Close
<1> QED BY <1>6, <1>7, <1>8, <1>9

\* The last page is taken.
LEMMA SendServes ==
  ASSUME Inv, NEW s \in Sessions, PageTaken(s)
  PROVE  Service!Next
<1>1. /\ fate[s] = "absent" /\ fate' = [fate EXCEPT ![s] = "sent"]
      /\ pc[s] = "submit" /\ stream[s] = "open" /\ UNCHANGED <<pc, phase, stream>>
      /\ fate \in [Jobs -> Fate] /\ s \in Jobs
  BY DEF PageTaken, gateVars, streamVars, Inv, TypeOK, EngineTypeOK, Jobs
<1>2. Outcome(s) = "pending"
  BY <1>1 DEF Inv, JobInv, Outcome
<1>3. [t \in Sessions |-> Outcome(t)]' = [t \in Sessions |-> Outcome(t)]
  BY <1>1 DEF Outcome
<1>4. /\ Stage(s) = "absent" /\ Stage(s)' = "sent"
      /\ \A j \in Jobs : j # s => Stage(j)' = Stage(j)
  <2>1. fate'[s] = "sent" /\ \A j \in Jobs : j # s => fate'[j] = fate[j]
    BY <1>1
  <2>2. Stage(s) = "absent" /\ Stage(s)' = "sent"
    BY <1>1, <2>1 DEF Stage, InQueue, Gone
  <2>3. ASSUME NEW j \in Jobs, j # s PROVE Stage(j)' = Stage(j)
    <3>1. fate'[j] = fate[j]
      BY <2>1, <2>3
    <3> QED BY <3>1 DEF Stage
  <2> QED BY <2>2, <2>3
<1>5. [j \in Jobs |-> Stage(j)]' = [[j \in Jobs |-> Stage(j)] EXCEPT ![s] = "sent"]
  BY <1>1, <1>4
<1> QED BY <1>1, <1>2, <1>3, <1>4, <1>5 DEF Service!Next, Service!Send

\* Success is reported of a job sent whole, over an empty queue that some job left.
LEMMA SuccessServes ==
  ASSUME Inv, NEW s \in Sessions, NEW st \in Probe, Idle(st),
         pc[s] = "wait_idle", pc' = [pc EXCEPT ![s] = "done"],
         phase' = [phase EXCEPT ![s] = "SUCCESS"], UNCHANGED <<engineVars, stream>>
  PROVE  Service!Next
<1>1. QueueEmpty
  BY ProbesAreTrue
<1>2. JobGone /\ fate[s] # "absent" /\ stream[s] = "closed"
  BY <1>1 DEF Inv, JobInv, HandleInv, AfterQueue, AfterClose, QueueEmpty, JobSeen,
              JobGone
<1>3. Outcome(s) = "pending" /\ Outcome(s)' = "success"
  BY DEF Inv, JobInv, TypeOK, Outcome
<1>4. \A t \in Sessions : t # s => Outcome(t)' = Outcome(t)
  BY DEF Inv, TypeOK, Outcome
<1>5. [t \in Sessions |-> Outcome(t)]'
        = [[t \in Sessions |-> Outcome(t)] EXCEPT ![s] = "success"]
  BY <1>3, <1>4
<1>6. [j \in Jobs |-> Stage(j)]' = [j \in Jobs |-> Stage(j)]
  BY DEF Stage, engineVars
<1>7. s \in Jobs /\ Stage(s) # "absent"
  BY <1>2, StagesTyped DEF Jobs, Inv, TypeOK
<1>8. \A j \in Jobs : Stage(j) # "queued"
  BY <1>1, StagesTyped DEF QueueEmpty, Inv, TypeOK
<1>9. \E j \in Jobs : Stage(j) = "gone"
  BY <1>2, StagesTyped DEF JobGone, Inv, TypeOK
<1> QED
  BY <1>2, <1>3, <1>5, <1>6, <1>7, <1>8, <1>9 DEF Service!Next, Service!Succeed

\* A round of a wait loop that does not pass into SUCCESS.
LEMMA WaitServes ==
  ASSUME Inv, Inv', NEW s \in Sessions, NEW at \in Waits, NEW st, NEW passes, NEW active,
         NEW next \in Steps, NEW p \in Phases \ {"SUCCESS"}, NEW failed \in Steps,
         Wait(s, at, st, passes, active, next, p, failed)
  PROVE  Service!Next
<1>1. pc[s] = at /\ UNCHANGED <<engineVars, stream>> /\ EngineStep
  BY DEF Wait, streamVars, EngineStep
<1>2. pc[s] # "done" /\ phase[s] \in Phases \ {"SUCCESS"}
  BY <1>1 DEF Waits, Inv, JobInv, TypeOK
<1>3. CASE Goto(s, next) /\ SetPhase(s, p)
  BY <1>1, <1>2, <1>3, MoveServes DEF Goto, SetPhase
<1>4. CASE Goto(s, failed) /\ UNCHANGED phase
  <2>1. phase' = [phase EXCEPT ![s] = phase[s]]
    BY <1>4 DEF Inv, TypeOK
  <2> QED BY <1>1, <1>2, <1>4, <2>1, MoveServes DEF Goto
<1>5. CASE PollAgain(s, known[s], active) /\ UNCHANGED phase
  BY <1>1, <1>5, WorkServes DEF PollAgain, Inv, TypeOK
<1> QED BY <1>3, <1>4, <1>5 DEF Wait

\* A session goes elsewhere and keeps its phase, or takes one that is not SUCCESS.
LEMMA GotoServes ==
  ASSUME Inv, Inv', NEW s \in Sessions, NEW next \in Steps, Goto(s, next),
         EngineStep, UNCHANGED stream, pc[s] # "done",
         UNCHANGED phase \/ \E p \in Phases \ {"SUCCESS"} : SetPhase(s, p)
  PROVE  Service!Next
<1>1. phase[s] \in Phases \ {"SUCCESS"}
  BY DEF Inv, JobInv, TypeOK
<1>2. CASE UNCHANGED phase
  <2>1. phase' = [phase EXCEPT ![s] = phase[s]]
    BY <1>2 DEF Inv, TypeOK
  <2> QED BY <1>1, <2>1, MoveServes DEF Goto
<1>3. ASSUME NEW p \in Phases \ {"SUCCESS"}, SetPhase(s, p) PROVE Service!Next
  BY <1>3, MoveServes DEF Goto, SetPhase
<1> QED BY <1>2, <1>3

LEMMA ReadyServes ==
  ASSUME Inv, Inv', NEW s \in Sessions, EnsureEngineReady(s)
  PROVE  Service!Next
<1>1. ASSUME NEW at \in {"wait_ready", "wait_init"}, NEW next \in {"recheck", "align"},
             WaitEngineReadyForSubmit(s, at, next)
      PROVE  Service!Next
  <2>1. /\ pc[s] # "done" /\ UNCHANGED <<engineVars, phase, stream>> /\ EngineStep
    BY <1>1 DEF WaitEngineReadyForSubmit, streamVars, EngineStep
  <2>2. ASSUME NEW to \in {"recheck", "align", "done"}, Goto(s, to) PROVE Service!Next
    BY <2>1, <2>2, GotoServes DEF Steps
  <2>3. ASSUME NEW k, PollAgain(s, k, activeSeen[s]) PROVE Service!Next
    BY <2>1, <2>3, WorkServes DEF PollAgain, Inv, TypeOK
  <2> QED BY <1>1, <2>2, <2>3 DEF WaitEngineReadyForSubmit
<1>2. CASE Recheck(s)
  <2>1. /\ EngineStep /\ UNCHANGED <<phase, stream>> /\ pc[s] # "done"
        /\ \E next \in {"initialise", "align"} : Goto(s, next)
    BY <1>2 DEF Recheck, EngineStep, streamVars
  <2> QED BY <2>1, GotoServes DEF Steps
<1>3. CASE CallInitialise(s)
  <2>1. /\ EngineStep /\ UNCHANGED <<phase, stream>> /\ pc[s] # "done"
        /\ \E next \in {"wait_init", "done"} : Goto(s, next)
    BY <1>3 DEF CallInitialise, EngineStep, Commands, streamVars
  <2> QED BY <2>1, GotoServes DEF Steps, Waits
<1> QED BY <1>1, <1>2, <1>3 DEF EnsureEngineReady

LEMMA SubmitServes ==
  ASSUME Inv, Inv', NEW s \in Sessions, SubmitJob(s) \/ SubmitInline(s)
  PROVE  Service!Next
<1>1. CASE Align(s)
  <2>1. /\ EngineStep /\ UNCHANGED stream /\ pc[s] # "done"
        /\ \E next \in {"open", "cleanup"} : Goto(s, next)
        /\ UNCHANGED phase \/ SetPhase(s, "DATA_SUBMITTING")
    BY <1>1 DEF Align, EngineStep, streamVars
  <2> QED BY <2>1, GotoServes DEF Steps, Phases
<1>2. CASE OpenJob(s)
  <2>1. CASE Goto(s, "done") /\ UNCHANGED streamVars
    <3>1. EngineStep /\ UNCHANGED <<phase, stream>> /\ pc[s] # "done"
      BY <1>2, <2>1 DEF OpenJob, EngineStep, streamVars
    <3> QED BY <2>1, <3>1, GotoServes DEF Steps
  <2>2. CASE ~UNCHANGED streamVars
    <3>1. /\ \A t \in Sessions : stream[t] \notin {"open", "aborted"}
          /\ stream' = [stream EXCEPT ![s] = "open"]
          /\ pc' = [pc EXCEPT ![s] = "submit"] /\ UNCHANGED <<fate, phase>>
          /\ pc[s] = "open" /\ stream[s] = "none"
      BY <1>2, <2>2 DEF OpenJob, Goto, engineVars, Inv, HandleInv, BeforeSubmit
    <3> QED BY <3>1, StreamServes DEF Inv, TypeOK, Streams
  <2>3. \/ Goto(s, "done") /\ UNCHANGED streamVars
        \/ ~UNCHANGED streamVars
    <3>1. CASE stream' = [stream EXCEPT ![s] = "open"]
      <4>1. stream[s] = "none" /\ stream'[s] = "open"
        BY <1>2, <3>1 DEF OpenJob, Inv, HandleInv, BeforeSubmit, TypeOK
      <4> QED BY <4>1 DEF streamVars
    <3> QED BY <1>2, <3>1 DEF OpenJob
  <2> QED BY <2>1, <2>2, <2>3
<1>3. CASE PageTaken(s)
  BY <1>3, SendServes
<1>4. CASE StreamAborted(s) \/ StreamClosed(s)
  <2>1. PICK to \in {"aborted", "closed"} :
          /\ stream' = [stream EXCEPT ![s] = to] /\ UNCHANGED <<fate, pc, phase>>
          /\ pc[s] # "done"
          /\ \/ stream[s] = "open" /\ to = "aborted"
             \/ stream[s] = "aborted" /\ to = "closed"
    BY <1>4 DEF StreamAborted, StreamClosed, engineVars, gateVars
  <2> QED BY <2>1, StreamServes DEF Streams
<1>5. CASE SubmitSucceeds(s) \/ SubmitFails(s)
  <2>1. /\ EngineStep /\ UNCHANGED <<phase, stream>> /\ pc[s] # "done"
        /\ \E next \in {"close", "cleanup"} : Goto(s, next)
    BY <1>5 DEF SubmitSucceeds, SubmitFails, EngineStep, streamVars
  <2> QED BY <2>1, GotoServes DEF Steps
<1>6. CASE CloseJob(s)
  <2>1. /\ stream' = [stream EXCEPT ![s] = "closed"] /\ UNCHANGED fate
        /\ pc' = [pc EXCEPT ![s] = "wait_queue"] /\ pc[s] = "close"
        /\ phase' = [phase EXCEPT ![s] = "WAITING_QUEUE"]
    BY <1>6 DEF CloseJob, Goto, SetPhase, engineVars
  <2>2. stream[s] = "open" /\ fate[s] # "absent"
    BY <2>1 DEF Inv, HandleInv, JobInv
  <2> QED BY <2>1, <2>2, StreamServes DEF Inv, TypeOK, Streams
<1> QED
  BY <1>1, <1>2, <1>3, <1>4, <1>5, <1>6
     DEF SubmitJob, SubmitInline, SubmitByWorker, AddPage

LEMMA PrepareServes ==
  ASSUME Inv, Inv', NEW s \in Sessions, Prepare(s)
  PROVE  Service!Next
<1>1. CASE WaitJobQueuedAfterSubmit(s)
  BY <1>1, WaitServes DEF WaitJobQueuedAfterSubmit, Steps, Waits, Phases
<1>2. CASE CheckBeforePrepare(s)
  <2>1. /\ EngineStep /\ UNCHANGED <<phase, stream>> /\ pc[s] # "done"
        /\ \E next \in {"guard_prepare", "cleanup"} : Goto(s, next)
    BY <1>2 DEF CheckBeforePrepare, EngineStep, streamVars
  <2> QED BY <2>1, GotoServes DEF Steps
<1>3. CASE GuardPrepare(s)
  <2>1. /\ EngineStep /\ UNCHANGED <<phase, stream>> /\ pc[s] # "done"
        /\ \E next \in {"prepare", "cleanup"} : Goto(s, next)
    BY <1>3 DEF GuardPrepare, EngineStep, streamVars
  <2> QED BY <2>1, GotoServes DEF Steps
<1>4. CASE CallPrepare(s)
  <2>1. /\ EngineStep /\ UNCHANGED stream /\ pc[s] # "done"
        /\ \E next \in {"wait_print_ready", "cleanup"} : Goto(s, next)
        /\ UNCHANGED phase \/ SetPhase(s, "WAITING_PRINT_READY")
    BY <1>4 DEF CallPrepare, EngineStep, Commands, streamVars
  <2> QED BY <2>1, GotoServes DEF Steps, Waits, Phases
<1>5. CASE WaitEnginePrintReadyAfterPrepare(s)
  BY <1>5, WaitServes DEF WaitEnginePrintReadyAfterPrepare, Steps, Waits, Phases
<1> QED BY <1>1, <1>2, <1>3, <1>4, <1>5 DEF Prepare

LEMMA PrintServes ==
  ASSUME Inv, Inv', NEW s \in Sessions, PrintJob(s)
  PROVE  Service!Next
<1>1. CASE GuardStart(s)
  <2>1. /\ EngineStep /\ UNCHANGED <<phase, stream>> /\ pc[s] # "done"
        /\ \E next \in {"start", "cleanup"} : Goto(s, next)
    BY <1>1 DEF GuardStart, EngineStep, streamVars
  <2> QED BY <2>1, GotoServes DEF Steps
<1>2. CASE CallStart(s)
  <2>1. /\ EngineStep /\ UNCHANGED stream /\ pc[s] # "done"
        /\ \E next \in {"wait_complete", "cleanup"} : Goto(s, next)
        /\ UNCHANGED phase \/ SetPhase(s, "WAIT_PRINT_COMPLETE")
    BY <1>2 DEF CallStart, EngineStep, Commands, streamVars
  <2> QED BY <2>1, GotoServes DEF Steps, Waits, Phases
<1>3. CASE WaitSessionCompleteAfterStart(s)
  BY <1>3, WaitServes DEF WaitSessionCompleteAfterStart, Steps, Waits, Phases
<1>4. CASE GiveUp(s)
  <2>1. /\ EngineStep /\ UNCHANGED <<phase, stream>> /\ pc[s] # "done"
        /\ Goto(s, "done")
    BY <1>4 DEF GiveUp, EngineStep, Commands, streamVars
  <2> QED BY <2>1, GotoServes DEF Steps
<1> QED BY <1>1, <1>2, <1>3, <1>4 DEF PrintJob

LEMMA ConcludeServes ==
  ASSUME Inv, Inv', NEW s \in Sessions, Conclude(s)
  PROVE  Service!Next
<1>1. CASE Finish(s)
  <2>1. /\ EngineStep /\ UNCHANGED stream /\ pc[s] # "done"
        /\ Goto(s, "wait_idle") /\ SetPhase(s, "WAIT_JOB_DONE")
    BY <1>1 DEF Finish, EngineStep, Commands, streamVars
  <2> QED BY <2>1, GotoServes DEF Steps, Waits, Phases
<1>2. CASE WaitIdleAfterFinish(s)
  <2>1. PICK st \in Probe :
          Wait(s, "wait_idle", st, Idle(st), activeSeen[s], "done", "SUCCESS", "cleanup")
    BY <1>2 DEF WaitIdleAfterFinish
  <2>2. /\ UNCHANGED <<engineVars, stream>> /\ EngineStep
        /\ pc[s] = "wait_idle"
    BY <2>1 DEF Wait, EngineStep, streamVars
  <2>3. CASE Idle(st) /\ Goto(s, "done") /\ SetPhase(s, "SUCCESS")
    BY <2>2, <2>3, SuccessServes DEF Goto, SetPhase
  <2>4. CASE Goto(s, "cleanup") /\ UNCHANGED phase
    BY <2>2, <2>4, GotoServes DEF Steps
  <2>5. CASE PollAgain(s, known[s], activeSeen[s]) /\ UNCHANGED phase
    BY <2>2, <2>5, WorkServes DEF PollAgain, Inv, TypeOK
  <2> QED BY <2>1, <2>3, <2>4, <2>5 DEF Wait
<1>3. CASE CleanupStream(s)
  <2>1. /\ stream' = [stream EXCEPT ![s] = IF handleOpen[s] THEN "closed" ELSE stream[s]]
        /\ pc' = [pc EXCEPT ![s] = "cleanup_finish"] /\ UNCHANGED <<fate, phase>>
        /\ pc[s] = "cleanup"
    BY <1>3 DEF CleanupStream, Goto, engineVars
  <2>2. /\ stream[s] \in {"none", "aborted", "closed"}
        /\ handleOpen[s] => stream[s] # "none"
    BY <2>1 DEF Inv, TypeOK, HandleInv, Streams
  <2>3. PICK to \in Streams :
          /\ stream' = [stream EXCEPT ![s] = to]
          /\ to = stream[s] \/ (stream[s] = "aborted" /\ to = "closed")
    BY <2>1, <2>2 DEF Streams
  <2>4. pc[s] # "done" /\ pc'[s] # "done"
        /\ \A t \in Sessions : t # s => pc'[t] = pc[t] /\ phase'[t] = phase[t]
    BY <2>1 DEF Inv, TypeOK
  <2> QED BY <2>1, <2>3, <2>4, StreamServes
<1>4. CASE CleanupFinish(s)
  <2>1. /\ EngineStep /\ UNCHANGED stream /\ pc[s] # "done"
        /\ Goto(s, "done") /\ SetPhase(s, "FAILED")
    BY <1>4 DEF CleanupFinish, EngineStep, Commands, streamVars
  <2> QED BY <2>1, GotoServes DEF Steps, Phases
<1> QED BY <1>1, <1>2, <1>3, <1>4 DEF Conclude

\* Every step of the sessions and the engine is one of the service, or none.
LEMMA StepsServe == Inv /\ Inv' /\ [Next]_vars => [Service!Next]_(Service!vars)
<1> SUFFICES ASSUME Inv, Inv', [Next]_vars
             PROVE  Service!Next \/ UNCHANGED Service!vars
  OBVIOUS
<1>1. CASE UNCHANGED vars
  BY <1>1 DEF vars, engineVars, sessionVars, gateVars, streamVars, Service!vars, Outcome, Stage
<1>2. CASE EngineMoves
  BY <1>2, WorkServes
     DEF EngineMoves, EngineStep, sessionVars, gateVars, streamVars, Inv, TypeOK
<1>3. ASSUME NEW s \in Sessions, Proceed(s) \/ SubmitInline(s) PROVE Service!Next
  BY <1>3, ReadyServes, SubmitServes, PrepareServes, PrintServes, ConcludeServes DEF Proceed
<1> QED BY <1>1, <1>2, <1>3 DEF Next, Ended

LEMMA InitServes == Init => Service!Init
<1> SUFFICES ASSUME Init PROVE Service!Init
  OBVIOUS
<1>1. [s \in Sessions |-> Outcome(s)] = [s \in Sessions |-> "pending"]
  BY DEF Init, Outcome
<1>2. [j \in Jobs |-> Stage(j)]
        = [j \in Jobs |-> IF j \in Leftover THEN "queued" ELSE "absent"]
  <2>1. \A j \in Jobs : Stage(j) = IF j \in Leftover THEN "queued" ELSE "absent"
    BY DEF Init, EngineInit, Stage, InQueue, Gone
  <2> QED BY <2>1
<1> QED BY <1>1, <1>2 DEF Init, Service!Init

\* Any number of runPrintSessions at once, and the engine with whatever it does,
\* implement the service their callers rely on.
THEOREM SessionsImplementService == Spec => ImplementsService
  BY InitServes, StepsServe, InvAlways, PTL DEF Spec, ImplementsService, Service!Spec

=============================================================================
