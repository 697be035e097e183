------------------------- MODULE LegacySessionProofs -------------------------
(***************************************************************************)
(* Safety of a fleet: any number of sessions and a RIP that works the old  *)
(* way with any number of colours' jobs, whatever its settings.  The       *)
(* sessions keep the invariant of PesSessionProofs beside it.  That the    *)
(* old way's success means a queued job takes an invariant of its own,     *)
(* which holds if a wait can tell or the engine was found at rest.         *)
(***************************************************************************)
EXTENDS LegacySession, PesSessionProofs

FleetInv == Inv /\ LegacyInv

-----------------------------------------------------------------------------
(* The engine, and what a session's step does to it.                       *)

\* What a step keeps of the jobs: those seen, those gone, and those of others.
KeepsJobs(others) ==
  /\ JobSeen => JobSeen'
  /\ JobGone => JobGone'
  /\ \A j \in others : fate[j] = "absent" <=> fate'[j] = "absent"

LEMMA EngineStepKeeps ==
  ASSUME EngineTypeOK, EngineStep
  PROVE  EngineTypeOK' /\ KeepsJobs(Jobs)
<1>1. EngineTypeOK' /\ JobsKeepGoing
  BY EngineStepSound
<1> QED BY <1>1 DEF JobsKeepGoing, KeepsJobs, JobSeen, JobGone

LEMMA SubmissionKeeps ==
  ASSUME EngineTypeOK, NEW j \in Jobs, Submits(j)
  PROVE  EngineTypeOK' /\ KeepsJobs(Jobs \ {j})
<1>1. \A i \in Jobs : fate'[i] = IF i = j THEN "sent" ELSE fate[i]
  BY DEF Submits, EngineTypeOK
<1>2. \A i \in Jobs : fate[i] \in InQueue \cup Gone => fate'[i] = fate[i]
  BY <1>1 DEF Submits, InQueue, Gone
<1>3. EngineTypeOK'
  BY DEF Submits, EngineTypeOK, Fate
<1>4. KeepsJobs(Jobs \ {j})
  BY <1>1, <1>2 DEF KeepsJobs, JobSeen, JobGone
<1> QED BY <1>3, <1>4

-----------------------------------------------------------------------------
(* Sessions beside the old way.                                            *)

LEMMA PlanesAreLegacyJobs ==
  ASSUME NEW k \in 1..Len(LegacyPlanes)
  PROVE  LegacyPlanes[k] \in LegacyJobs /\ LegacyPlanes[k] \in Jobs \ Sessions
<1>1. LegacyPlanes[k] \in LegacyJobs
  BY LegacyPlanesAssumption
<1> QED BY <1>1, JobsAssumption DEF Jobs

\* A step that is none of the old way's leaves its invariant alone.
LEMMA LegacyInvBeside ==
  ASSUME LegacyInv, UNCHANGED <<legacyVars, fleet>>, KeepsJobs(Jobs \ Sessions)
  PROVE  LegacyInv'
<1>1. \A k \in 1..Len(LegacyPlanes) :
        fate[LegacyPlanes[k]] = "absent" => fate'[LegacyPlanes[k]] = "absent"
  BY PlanesAreLegacyJobs DEF KeepsJobs
<1> QED BY <1>1 DEF LegacyInv, KeepsJobs, JobSeen, legacyVars

\* A step of the old way leaves the sessions' invariant alone.
LEMMA InvBeside ==
  ASSUME Inv, UNCHANGED <<sessionVars, env>>, EngineTypeOK', KeepsJobs(Sessions)
  PROVE  Inv'
<1>1. TypeOK' /\ HandleInv'
  BY DEF Inv, TypeOK, HandleInv, sessionVars, gateVars, streamVars
<1>2. JobInv'
  BY DEF Inv, JobInv, KeepsJobs, JobSeen, JobGone, sessionVars, gateVars
<1> QED BY <1>1, <1>2 DEF Inv

LEMMA SessionKeepsFleetInv ==
  ASSUME FleetInv, NEW s \in Sessions, SessionSteps(s), UNCHANGED fleet
  PROVE  FleetInv'
<1>1. Inv'
  BY InvPreserved DEF FleetInv, SessionSteps, Next
<1>2. EngineTypeOK
  BY DEF FleetInv, Inv, TypeOK
<1>3. KeepsJobs(Jobs \ Sessions)
  <2>1. EngineStep \/ Submits(s)
    BY SessionStepsEngine DEF FleetInv, SessionSteps
  <2>2. CASE EngineStep
    BY <1>2, <2>2, EngineStepKeeps DEF FleetInv, KeepsJobs
  <2>3. CASE Submits(s)
    BY <1>2, <2>3, SubmissionKeeps DEF FleetInv, KeepsJobs, Jobs
  <2> QED BY <2>1, <2>2, <2>3
<1>4. LegacyInv'
  BY <1>3, LegacyInvBeside DEF FleetInv, SessionSteps
<1> QED BY <1>1, <1>4 DEF FleetInv

-----------------------------------------------------------------------------
(* The old way itself.                                                     *)

\* A step of the old way that uses the engine, or does not, and goes elsewhere
\* with the job at hand.
LegacyMove(next, st) ==
  /\ LegacyGoto(next)
  /\ legacyStream' = st
  /\ EngineStep
  /\ UNCHANGED <<sessionVars, env, fleet>>

LEMMA LegacyMoveSound ==
  ASSUME FleetInv, NEW next \in LegacySteps, NEW st \in {"none", "open", "closed"},
         LegacyMove(next, st),
         next # "open",
         next = "add_page" => legacyPc = "open",
         next \in {"finish", "submitted", "failed"} => st # "open"
  PROVE  FleetInv'
<1>1. EngineTypeOK' /\ KeepsJobs(Jobs)
  BY EngineStepKeeps DEF FleetInv, Inv, TypeOK, LegacyMove
<1>2. Inv'
  BY <1>1, InvBeside DEF FleetInv, LegacyMove, KeepsJobs, Jobs
<1>3. LegacyInv'
  <2>1. \A k \in 1..Len(LegacyPlanes) :
          fate[LegacyPlanes[k]] = "absent" => fate'[LegacyPlanes[k]] = "absent"
    BY <1>1, PlanesAreLegacyJobs DEF KeepsJobs
  <2> QED BY <2>1 DEF FleetInv, LegacyInv, LegacyMove, LegacyGoto
<1> QED BY <1>2, <1>3 DEF FleetInv

LEMMA LegacyAddPageSound ==
  ASSUME FleetInv, LegacyAddPage, UNCHANGED fleet
  PROVE  FleetInv'
<1>1. CASE legacyStream' = "closed" /\ LegacyGoto("give_up") /\ UNCHANGED fate
  <2>1. LegacyMove("give_up", "closed")
    BY <1>1 DEF LegacyAddPage, LegacyMove, EngineStep, engineVars
  <2> QED BY <2>1, LegacyMoveSound DEF LegacySteps
<1>2. CASE /\ fate' = [fate EXCEPT ![Job] = "sent"]
           /\ LegacyGoto("wait_queue")
           /\ UNCHANGED legacyStream
  <2>1. plane \in 1..Len(LegacyPlanes) /\ Job \in Jobs \ Sessions
    BY PlanesAreLegacyJobs DEF FleetInv, LegacyInv, Job
  <2>2. Submits(Job)
    BY <1>2, <2>1 DEF FleetInv, LegacyInv, LegacyAddPage, Submits, Job
  <2>3. EngineTypeOK' /\ KeepsJobs(Jobs \ {Job})
    BY <2>1, <2>2, SubmissionKeeps DEF FleetInv, Inv, TypeOK
  <2>4. Inv'
    BY <2>1, <2>3, InvBeside DEF FleetInv, LegacyAddPage, KeepsJobs, Jobs
  <2>5. \A k \in 1..Len(LegacyPlanes) :
          k > plane /\ fate[LegacyPlanes[k]] = "absent" => fate'[LegacyPlanes[k]] = "absent"
    BY <2>1, <2>3, PlanesAreLegacyJobs, LegacyPlanesAssumption DEF KeepsJobs, Job
  <2>6. LegacyInv'
    BY <1>2, <2>5 DEF FleetInv, LegacyInv, LegacyGoto, LegacySteps
  <2> QED BY <2>4, <2>6 DEF FleetInv
<1> QED BY <1>1, <1>2 DEF LegacyAddPage

\* waitForQueuedJob may also stay where it is.
LEMMA LegacyWaitSound ==
  ASSUME FleetInv, LegacyWaitForQueuedJob, UNCHANGED fleet
  PROVE  FleetInv'
<1>1. UNCHANGED <<engineVars, sessionVars, env, legacyStream>> /\ EngineStep
  BY DEF LegacyWaitForQueuedJob, EngineStep
<1>2. legacyStream \in {"none", "open", "closed"}
  BY DEF FleetInv, LegacyInv
<1>3. ASSUME NEW next \in {"prepare", "give_up"}, LegacyGoto(next) PROVE FleetInv'
  <2>1. LegacyMove(next, legacyStream)
    BY <1>1, <1>3 DEF LegacyMove
  <2> QED BY <1>2, <2>1, LegacyMoveSound DEF LegacySteps
<1>4. CASE UNCHANGED <<legacyCfg, legacyPc, plane>>
  <2>1. EngineTypeOK' /\ KeepsJobs(Jobs)
    BY <1>1, EngineStepKeeps DEF FleetInv, Inv, TypeOK
  <2>2. Inv'
    BY <1>1, <2>1, InvBeside DEF FleetInv, KeepsJobs, Jobs
  <2>3. LegacyInv'
    BY <1>1, <1>4 DEF FleetInv, LegacyInv, engineVars
  <2> QED BY <2>2, <2>3 DEF FleetInv
<1> QED BY <1>3, <1>4 DEF LegacyWaitForQueuedJob

\* The commands of one controller process.
LEMMA LegacyCommandsSound ==
  ASSUME FleetInv, LegacyPrepare \/ LegacyStart, UNCHANGED fleet
  PROVE  FleetInv'
<1>1. legacyStream \in {"none", "open", "closed"}
  BY DEF FleetInv, LegacyInv
<1>2. PICK next \in {"start", "close", "give_up"} : LegacyMove(next, legacyStream)
  BY DEF LegacyPrepare, LegacyStart, LegacyMove, EngineStep, Commands
<1> QED BY <1>1, <1>2, LegacyMoveSound DEF LegacySteps

\* finish, and the next colour's job.
LEMMA LegacyFinishSound ==
  ASSUME FleetInv, LegacyFinish, UNCHANGED fleet
  PROVE  FleetInv'
<1>1. /\ EngineStep /\ UNCHANGED <<sessionVars, env>>
      /\ legacyPc = "finish"
      /\ legacyStream \in {"none", "open", "closed"} /\ legacyStream # "open"
  BY DEF LegacyFinish, EngineStep, Commands, FleetInv, LegacyInv
<1>2. CASE LegacyGoto("submitted") /\ UNCHANGED legacyStream
  <2>1. LegacyMove("submitted", legacyStream)
    BY <1>1, <1>2 DEF LegacyMove
  <2> QED BY <1>1, <2>1, LegacyMoveSound DEF LegacySteps
<1>3. CASE /\ plane < Len(LegacyPlanes)
           /\ legacyPc' = "open"
           /\ plane' = plane + 1
           /\ legacyStream' = "none"
  <2>1. EngineTypeOK' /\ KeepsJobs(Jobs)
    BY <1>1, EngineStepKeeps DEF FleetInv, Inv, TypeOK
  <2>2. Inv'
    BY <1>1, <2>1, InvBeside DEF FleetInv, KeepsJobs, Jobs
  <2>3. \A k \in 1..Len(LegacyPlanes) :
          fate[LegacyPlanes[k]] = "absent" => fate'[LegacyPlanes[k]] = "absent"
    BY <2>1, PlanesAreLegacyJobs DEF KeepsJobs
  <2>4. /\ plane \in 1..Len(LegacyPlanes) /\ Len(LegacyPlanes) \in Nat
        /\ \A k \in 1..Len(LegacyPlanes) : k > plane => fate[LegacyPlanes[k]] = "absent"
    BY LegacyPlanesAssumption DEF FleetInv, LegacyInv
  <2>5. plane' \in 1..Len(LegacyPlanes)
        /\ \A k \in 1..Len(LegacyPlanes) : k >= plane' => k > plane
    BY <1>3, <2>4
  <2>6. \A k \in 1..Len(LegacyPlanes) :
          k > plane' \/ k = plane' => fate'[LegacyPlanes[k]] = "absent"
    BY <2>3, <2>4, <2>5
  <2>7. LegacyInv'
    BY <1>3, <2>5, <2>6 DEF FleetInv, LegacyInv, LegacySteps
  <2> QED BY <2>2, <2>7 DEF FleetInv
<1> QED BY <1>2, <1>3 DEF LegacyFinish

\* Opening and closing the stream, and giving up the job.
LEMMA LegacyStreamSound ==
  ASSUME FleetInv, LegacyOpen \/ LegacyClose \/ LegacyGiveUp, UNCHANGED fleet
  PROVE  FleetInv'
<1>1. CASE LegacyOpen
  <2>1. legacyPc = "open" /\ legacyStream = "none"
    BY <1>1 DEF LegacyOpen, FleetInv, LegacyInv
  <2>2. LegacyMove("add_page", "open") \/ LegacyMove("failed", "none")
    BY <1>1, <2>1 DEF LegacyOpen, LegacyMove, EngineStep
  <2> QED BY <2>1, <2>2, LegacyMoveSound DEF LegacySteps
<1>2. CASE LegacyClose
  <2>1. LegacyMove("finish", "closed") \/ LegacyMove("failed", "closed")
    BY <1>2 DEF LegacyClose, LegacyMove, EngineStep
  <2> QED BY <2>1, LegacyMoveSound DEF LegacySteps
<1>3. CASE LegacyGiveUp
  <2>1. plane \in 1..Len(LegacyPlanes) /\ Job \in Jobs
    BY PlanesAreLegacyJobs DEF FleetInv, LegacyInv, Job
  <2>2. CASE EngineStep
    <3>1. LegacyMove("failed", "closed")
      BY <1>3, <2>2 DEF LegacyGiveUp, ClosesStream, LegacyMove
    <3> QED BY <3>1, LegacyMoveSound DEF LegacySteps
  <2>3. CASE CancelJob(Job) \/ UNCHANGED engineVars
    BY <2>1, <2>2, <2>3 DEF EngineStep, EngineNext
  <2>4. CASE /\ fate[Job] = "sent"
             /\ fate' = [fate EXCEPT ![Job] = "lost"]
             /\ UNCHANGED <<engine, startPending>>
    <3>1. JobData(Job)
      BY <2>4 DEF JobData
    <3> QED BY <2>1, <2>2, <3>1 DEF EngineStep, EngineNext
  <2> QED BY <1>3, <2>3, <2>4 DEF LegacyGiveUp
<1> QED BY <1>1, <1>2, <1>3

-----------------------------------------------------------------------------
(* The theorems.                                                           *)

LEMMA FleetInvInitially == FleetInit => FleetInv
<1> SUFFICES ASSUME FleetInit PROVE FleetInv
  OBVIOUS
<1>1. Inv
  BY InvInitially DEF FleetInit
<1>2. Len(LegacyPlanes) \in Nat \ {0}
  BY LegacyPlanesAssumption
<1>3. \A k \in 1..Len(LegacyPlanes) : fate[LegacyPlanes[k]] = "absent"
  <2>1. \A j \in LegacyJobs : j \in Jobs /\ j \notin Leftover
    BY JobsAssumption DEF Jobs
  <2> QED BY <2>1, PlanesAreLegacyJobs DEF FleetInit, Init, EngineInit
<1>4. LegacyInv
  BY <1>2, <1>3, FleetsAssumption DEF FleetInit, LegacyInv, LegacySteps
<1> QED BY <1>1, <1>4 DEF FleetInv

LEMMA FleetInvPreserved == FleetInv /\ [FleetNext]_fleetVars => FleetInv'
<1> SUFFICES ASSUME FleetInv, [FleetNext]_fleetVars PROVE FleetInv'
  OBVIOUS
<1>1. CASE UNCHANGED fleetVars
  <2>1. UNCHANGED vars
    BY <1>1 DEF fleetVars
  <2>2. Inv'
    BY <2>1, InvPreserved DEF FleetInv
  <2>3. LegacyInv'
    BY <1>1 DEF FleetInv, LegacyInv, fleetVars, vars, engineVars, legacyVars
  <2> QED BY <2>2, <2>3 DEF FleetInv
<1>2. CASE EngineMoves /\ UNCHANGED <<legacyVars, fleet>>
  <2>1. EngineStep
    BY <1>2 DEF EngineMoves, EngineStep
  <2>2. KeepsJobs(Jobs)
    BY <2>1, EngineStepKeeps DEF FleetInv, Inv, TypeOK
  <2>3. LegacyInv'
    BY <1>2, <2>2, LegacyInvBeside DEF FleetInv, KeepsJobs
  <2> QED BY <1>2, <2>3, EngineMovesSound DEF FleetInv
<1>3. ASSUME NEW s \in fleet \ {"legacy"}, SessionSteps(s), UNCHANGED fleet
      PROVE  FleetInv'
  <2>1. s \in Sessions
    BY DEF FleetInv, LegacyInv
  <2> QED BY <1>3, <2>1, SessionKeepsFleetInv
<1>4. CASE (LegacyProceeds \/ LegacyAddPage) /\ UNCHANGED fleet
  BY <1>4, LegacyAddPageSound, LegacyWaitSound, LegacyCommandsSound, LegacyFinishSound,
     LegacyStreamSound DEF LegacyProceeds
<1> QED BY <1>1, <1>2, <1>3, <1>4 DEF FleetNext, FleetEnded

LEMMA FleetInvAlways == FleetSpec => []FleetInv
  BY FleetInvInitially, FleetInvPreserved, PTL DEF FleetSpec

\* Every RIP of a fleet leaves its stream closed, by whichever of its returns
\* it ends, and the printhead free for the next.
THEOREM FleetStreamsAreClosed == FleetSpec => []StreamsClosedAtEnd
<1>1. FleetInv => StreamsClosedAtEnd
  BY DEF FleetInv, Inv, TypeOK, HandleInv, LegacyInv, StreamsClosedAtEnd,
         StreamClosedAtEnd, LegacyEnded, Streams
<1> QED BY <1>1, FleetInvAlways, PTL

\* A session's success means a job left the engine, also beside a RIP that
\* prepares, starts and finishes print sessions on its own account.
THEOREM FleetSuccessNeedsAJob == FleetSpec => []SuccessMeansAJobRan
<1>1. FleetInv => SuccessMeansAJobRan
  BY DEF FleetInv, Inv, JobInv, JobGone, SuccessMeansAJobRan
<1> QED BY <1>1, FleetInvAlways, PTL

\* A session reports success only at a moment when the queue is empty, whatever
\* else uses the engine.
THEOREM FleetSuccessNeedsDrainedQueue == FleetSpec => SuccessOnlyWhenDrained
<1>1. FleetInv /\ [FleetNext]_fleetVars
        => [\A s \in Sessions :
              phase[s] # "SUCCESS" /\ phase'[s] = "SUCCESS" => QueueEmpty]_vars
  <2> SUFFICES ASSUME FleetInv, FleetNext, NEW s \in Sessions,
                      phase[s] # "SUCCESS", phase'[s] = "SUCCESS"
               PROVE  QueueEmpty
    BY DEF fleetVars, vars, sessionVars
  <2>1. PICK t \in fleet \ {"legacy"} : SessionSteps(t)
    BY DEF FleetNext, FleetEnded, fleetVars, vars, EngineMoves, sessionVars,
           LegacyProceeds, LegacyOpen, LegacyAddPage, LegacyWaitForQueuedJob,
           LegacyPrepare, LegacyStart, LegacyClose, LegacyFinish, LegacyGiveUp
  <2>2. Inv /\ Next
    BY <2>1 DEF FleetInv, LegacyInv, SessionSteps, Next
  <2> QED BY <2>2, SuccessIsEnteredIdle, ProbesAreTrue
<1> QED BY <1>1, FleetInvAlways, PTL DEF FleetSpec, SuccessOnlyWhenDrained

-----------------------------------------------------------------------------
(* The service.                                                            *)

\* The old way does nothing to the engine but what the engine allows, and sends
\* no job but its own.
LEMMA LegacyStepsEngine ==
  ASSUME FleetInv, LegacyProceeds \/ LegacyAddPage
  PROVE  /\ UNCHANGED <<sessionVars, env>>
         /\ EngineStep \/ (Job \in Jobs \ Sessions /\ Submits(Job))
<1>1. plane \in 1..Len(LegacyPlanes) /\ Job \in Jobs \ Sessions
  BY PlanesAreLegacyJobs DEF FleetInv, LegacyInv, Job
<1>2. CASE LegacyAddPage
  <2>1. legacyPc = "add_page" => fate[Job] = "absent"
    BY <1>1 DEF FleetInv, LegacyInv, Job
  <2> QED BY <1>1, <1>2, <2>1 DEF LegacyAddPage, Submits, EngineStep, engineVars
<1>3. CASE LegacyOpen \/ LegacyClose \/ LegacyWaitForQueuedJob
  BY <1>3 DEF LegacyOpen, LegacyClose, LegacyWaitForQueuedJob, EngineStep
<1>4. CASE LegacyPrepare \/ LegacyStart \/ LegacyFinish
  BY <1>4 DEF LegacyPrepare, LegacyStart, LegacyFinish, EngineStep, Commands
<1>5. CASE LegacyGiveUp
  <2>1. CASE CancelJob(Job) \/ UNCHANGED engineVars
    BY <1>1, <1>5, <2>1 DEF LegacyGiveUp, EngineStep, EngineNext
  <2>2. CASE /\ fate[Job] = "sent"
             /\ fate' = [fate EXCEPT ![Job] = "lost"]
             /\ UNCHANGED <<engine, startPending>>
    <3>1. JobData(Job)
      BY <2>2 DEF JobData
    <3> QED BY <1>1, <1>5, <3>1 DEF LegacyGiveUp, EngineStep, EngineNext
  <2> QED BY <1>5, <2>1, <2>2 DEF LegacyGiveUp
<1> QED BY <1>2, <1>3, <1>4, <1>5 DEF LegacyProceeds

\* A job of the old way is one from elsewhere.
LEMMA OthersServe ==
  ASSUME EngineTypeOK, NEW j \in Jobs \ Sessions, Submits(j),
         UNCHANGED <<pc, phase, stream>>
  PROVE  Service!Next
<1>1. fate'[j] = "sent" /\ \A i \in Jobs : i # j => fate'[i] = fate[i]
  BY DEF Submits, EngineTypeOK
<1>2. Stage(j) = "absent" /\ Stage(j)' = "sent"
  BY <1>1 DEF Stage, Submits, InQueue, Gone
<1>3. ASSUME NEW i \in Jobs, i # j PROVE Stage(i)' = Stage(i)
  <2>1. fate'[i] = fate[i]
    BY <1>1, <1>3
  <2> QED BY <2>1 DEF Stage
<1>4. [i \in Jobs |-> Stage(i)]' = [[i \in Jobs |-> Stage(i)] EXCEPT ![j] = "sent"]
  BY <1>2, <1>3
<1> QED BY <1>2, <1>4 DEF Service!Next, Service!OthersSend, Outcome

\* A session beside the old way keeps its promise: the service its caller relies
\* on does not depend on who else uses the engine, or on how.
THEOREM FleetImplementsService == FleetSpec => ImplementsService
<1>1. FleetInit => Service!Init
  BY InitServes DEF FleetInit
<1>2. FleetInv /\ FleetInv' /\ [FleetNext]_fleetVars => [Service!Next]_(Service!vars)
  <2> SUFFICES ASSUME FleetInv, FleetInv', [FleetNext]_fleetVars
               PROVE  [Service!Next]_(Service!vars)
    OBVIOUS
  <2>1. CASE [Next]_vars
    BY <2>1, StepsServe DEF FleetInv
  <2>2. UNCHANGED fleetVars \/ FleetEnded => [Next]_vars
    BY DEF FleetEnded, fleetVars
  <2>3. EngineMoves => Next
    BY DEF Next
  <2>4. ASSUME NEW s \in fleet \ {"legacy"}, SessionSteps(s) PROVE Next
    BY <2>4 DEF FleetInv, LegacyInv, SessionSteps, Next
  <2>5. CASE LegacyProceeds \/ LegacyAddPage
    <3>1. UNCHANGED <<pc, phase, stream>> /\ EngineTypeOK
      BY <2>5, LegacyStepsEngine
         DEF sessionVars, gateVars, streamVars, FleetInv, Inv, TypeOK
    <3> QED BY <2>5, <3>1, LegacyStepsEngine, WorkServes, OthersServe
  <2> QED BY <2>1, <2>2, <2>3, <2>4, <2>5 DEF FleetNext
<1> QED BY <1>1, <1>2, FleetInvAlways, PTL DEF FleetSpec, ImplementsService, Service!Spec

-----------------------------------------------------------------------------
(* What the old way's success means.                                       *)

\* However the engine moves or is commanded, it comes to a print session only
\* after a job was in its queue.
LEMMA EngineNeedsAJob ==
  ASSUME EngineTypeOK, engine \in SessionStates => JobSeen, EngineStep
  PROVE  engine' \in SessionStates => JobSeen'
<1>1. JobSeen => JobSeen'
  BY EngineStepKeeps DEF KeepsJobs
<1>2. engine' \in SessionStates => engine \in SessionStates \/ JobSeen
  <2> USE DEF SessionStates, ActiveStates
  <2>1. CASE UNCHANGED engineVars
    BY <2>1 DEF engineVars
  <2>2. CASE Commands
    BY <2>2 DEF Commands, InitialiseEngine, PrepareToPrint, StartPrinting, FinishPrinting,
                PrintSessionActive, JobSeen, InQueue
  <2>3. CASE QuietMove
    BY <2>3 DEF QuietMove, QuietMoves
  <2>4. CASE PreJobDone \/ SessionEnds \/ Fault
    BY <2>4 DEF PreJobDone, SessionEnds, Fault
  <2>5. ASSUME NEW j \in Jobs, JobData(j) \/ PickJob(j) \/ JobDone(j) \/ CancelJob(j)
        PROVE  engine' \in SessionStates => engine \in SessionStates \/ JobSeen
    BY <2>5 DEF JobData, PickJob, JobDone, CancelJob, JobSeen, InQueue
  <2> QED BY <2>1, <2>2, <2>3, <2>4, <2>5 DEF EngineStep, EngineNext
<1> QED BY <1>1, <1>2

\* A job once seen was seen for good, and a print session still means there is one.
LEMMA SeenIsKept ==
  ASSUME EngineTypeOK, NEW j \in Jobs, EngineStep \/ Submits(j)
  PROVE  /\ JobSeen => JobSeen'
         /\ (engine \in SessionStates => JobSeen)
              => (engine' \in SessionStates => JobSeen')
<1>1. CASE EngineStep
  BY <1>1, EngineStepKeeps, EngineNeedsAJob DEF KeepsJobs
<1>2. CASE Submits(j)
  <2>1. engine' = engine
    BY <1>2 DEF Submits
  <2> QED BY <1>2, <2>1, SubmissionKeeps DEF KeepsJobs
<1> QED BY <1>1, <1>2

\* The old way leaves its wait over a queued job, where it can tell, and its start
\* over an engine in a print session.
LEMMA LegacyGoesOn ==
  ASSUME FleetInv, LegacyProceeds \/ LegacyAddPage
  PROVE  /\ legacyCfg' = legacyCfg
         /\ ~legacyCfg.posix /\ legacyPc' \in AfterWait => legacyPc \in AfterWait \/ JobSeen
         /\ legacyPc' \in AfterStart => legacyPc \in AfterStart \/ engine \in SessionStates
<1> USE DEF AfterWait, AfterStart, LegacyGoto
<1>1. CASE LegacyWaitForQueuedJob
  <2>1. \A st \in Probe : st.queued => JobSeen
    BY ProbesAreTrue DEF QueueEmpty, JobSeen, FleetInv
  <2> QED BY <1>1, <2>1 DEF LegacyWaitForQueuedJob, SeesQueue
<1>2. CASE LegacyStart
  BY <1>2 DEF LegacyStart, StartPrinting, SessionStates, ActiveStates
<1>3. CASE LegacyOpen \/ LegacyAddPage \/ LegacyPrepare \/ LegacyClose \/ LegacyFinish
            \/ LegacyGiveUp
  BY <1>3 DEF LegacyOpen, LegacyAddPage, LegacyPrepare, LegacyClose, LegacyFinish,
              LegacyGiveUp
<1> QED BY <1>1, <1>2, <1>3 DEF LegacyProceeds

LEMMA SeenInvPreserved == FleetInv /\ SeenInv /\ [FleetNext]_fleetVars => SeenInv'
<1> SUFFICES ASSUME FleetInv, SeenInv, [FleetNext]_fleetVars PROVE SeenInv'
  OBVIOUS
<1> USE DEF SeenInv, SeenByWait, SeenByEngine
<1>1. EngineTypeOK
  BY DEF FleetInv, Inv, TypeOK
<1>2. CASE UNCHANGED fleetVars
  BY <1>2 DEF fleetVars, vars, engineVars, legacyVars, JobSeen
<1>3. ASSUME NEW j \in Jobs, EngineStep \/ Submits(j), UNCHANGED legacyVars PROVE SeenInv'
  BY <1>1, <1>3, SeenIsKept DEF legacyVars
<1>4. CASE LegacyProceeds \/ LegacyAddPage
  <2>1. Job \in Jobs /\ (EngineStep \/ Submits(Job))
    BY <1>4, PlanesAreLegacyJobs, LegacyStepsEngine DEF FleetInv, LegacyInv, Job
  <2>2. JobSeen => JobSeen'
    BY <1>1, <2>1, SeenIsKept
  <2>3. (engine \in SessionStates => JobSeen) => (engine' \in SessionStates => JobSeen')
    BY <1>1, <2>1, SeenIsKept
  <2> QED BY <1>4, <2>2, <2>3, LegacyGoesOn
<1>5. CASE EngineMoves /\ UNCHANGED <<legacyVars, fleet>>
  <2>1. LegacyPlanes[1] \in Jobs
    BY PlanesAreLegacyJobs, LegacyPlanesAssumption
  <2> QED BY <1>3, <1>5, <2>1 DEF EngineMoves, EngineStep
<1>6. ASSUME NEW s \in fleet \ {"legacy"}, SessionSteps(s) PROVE SeenInv'
  <2>1. s \in Jobs /\ (EngineStep \/ Submits(s))
    BY <1>6, SessionStepsEngine DEF FleetInv, LegacyInv, SessionSteps, Jobs
  <2> QED BY <1>3, <1>6, <2>1 DEF SessionSteps
<1> QED BY <1>2, <1>4, <1>5, <1>6 DEF FleetNext, FleetEnded

\* The old way's success means that a job was queued: on Windows because its wait
\* has seen one, elsewhere because the engine took startPrinting, which an engine
\* found outside of a print session does only after a job was in its queue.
THEOREM LegacySuccessNeedsAJob == FleetSpec => LegacySuccessMeansQueued
<1>1. FleetInit /\ (legacyCfg.posix => engine \notin SessionStates) => SeenInv
  <2> SUFFICES ASSUME FleetInit, legacyCfg.posix => engine \notin SessionStates
               PROVE  SeenInv
    OBVIOUS
  <2>1. legacyPc \notin AfterWait /\ legacyPc \notin AfterStart
    BY DEF FleetInit, AfterWait, AfterStart
  <2> QED BY <2>1 DEF SeenInv, SeenByWait, SeenByEngine
<1>2. SeenInv => (legacyPc = "submitted" => JobSeen)
  BY DEF SeenInv, SeenByWait, SeenByEngine, AfterWait, AfterStart
<1> QED
  BY <1>1, <1>2, SeenInvPreserved, FleetInvAlways, PTL DEF FleetSpec, LegacySuccessMeansQueued

=============================================================================
