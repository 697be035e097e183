---------------------------- MODULE LegacySession ----------------------------
(***************************************************************************)
(* The orchestration in memjet-rip's main that PesOrchestrator replaced    *)
(* and that --legacy-jsl and USE_LEGACY_ORCHESTRATION bring back: one RIP  *)
(* that works this way, on the engine the sessions of PesSession use.      *)
(*                                                                         *)
(* By default it sends one job of all colours; with --legacy-jsl one of a  *)
(* single colour after the other, to the same printhead.  It looks only at *)
(* the length of the queue, and goes by the exit code of the controller,   *)
(* which is given "prepare=1=20 start" in one process.                     *)
(*                                                                         *)
(* Mistaken forms, used by no specification: StartsUnchecked,              *)
(* LeavesStream, LooksForEver.                                             *)
(***************************************************************************)
EXTENDS PesSession, RuntimeConfig, Sequences

CONSTANTS
  LegacyPlanes,  \* the colours' jobs, in the order they are sent
  Fleets         \* which RIPs may run (sessions, and "legacy"), with the settings
                 \* of the old way

ASSUME LegacyPlanesAssumption ==
  /\ LegacyPlanes \in Seq(LegacyJobs) /\ LegacyPlanes # <<>>
  /\ \A i, k \in 1..Len(LegacyPlanes) : LegacyPlanes[i] = LegacyPlanes[k] => i = k
ASSUME FleetsAssumption ==
  \A f \in Fleets : f.rips \subseteq Sessions \cup {"legacy"}

VARIABLES
  fleet,         \* the RIPs that run
  legacyCfg,     \* the settings of the old way
  legacyPc,      \* how far the old way has come
  plane,         \* the job at hand: an index of LegacyPlanes
  tries,         \* how often waitForQueuedJob has looked
  legacyStream   \* the job's stream, as the submission library sees it

legacyVars == <<legacyCfg, legacyPc, plane, tries, legacyStream>>
fleetVars  == <<vars, legacyVars, fleet>>

LegacySteps == {"open", "add_page", "wait_queue", "prepare", "start", "close",
                "finish", "give_up", "submitted", "failed"}

LegacyEnded == legacyPc \in {"submitted", "failed"}

PrintheadFree ==
  /\ legacyStream \notin {"open", "aborted"}
  /\ \A s \in Sessions : stream[s] \notin {"open", "aborted"}

Job == LegacyPlanes[plane]

LegacyGoto(next) ==
  /\ legacyPc' = next
  /\ tries' = 0
  /\ UNCHANGED <<legacyCfg, plane>>

-----------------------------------------------------------------------------
\* openJob or openJobMultiColor; refused while the printhead takes a stream.
LegacyOpen ==
  /\ legacyPc = "open"
  /\ \/ PrintheadFree /\ legacyStream' = "open" /\ LegacyGoto("add_page")
     \/ LegacyGoto("failed") /\ UNCHANGED legacyStream
  /\ UNCHANGED <<engineVars, sessionVars, env>>

\* addPage or addPageMultiColor, on this thread, however long it takes.  When it
\* fails the wrapper has aborted and closed the stream, and main does so again.
LegacyAddPage ==
  /\ legacyPc = "add_page"
  /\ \/ /\ fate' = [fate EXCEPT ![Job] = "sent"]
        /\ LegacyGoto("wait_queue")
        /\ UNCHANGED legacyStream
     \/ /\ legacyStream' = "closed"
        /\ LegacyGoto("give_up")
        /\ UNCHANGED fate
  /\ UNCHANGED <<engine, startPending, sessionVars, env>>

\* What waitForQueuedJob makes of a probe: on Windows the controller must have
\* succeeded; elsewhere it is enough that "queueLen": 0 is not in its output.
SeesQueue(st) == st.queued \/ (legacyCfg.posix /\ st = Unreadable)

LooksForEver == UNCHANGED tries

LooksAgain == tries' = tries + 1

LegacyWaitForQueuedJob ==
  /\ legacyPc = "wait_queue"
  /\ \E st \in Probe :
       \/ SeesQueue(st) /\ LegacyGoto("prepare")
       \/ /\ ~SeesQueue(st)
          /\ tries + 1 = MaxTries(legacyCfg)
          /\ LegacyGoto("give_up")
       \/ /\ ~SeesQueue(st)
          /\ tries + 1 < MaxTries(legacyCfg)
          /\ LooksAgain
          /\ UNCHANGED <<legacyCfg, legacyPc, plane>>
  /\ UNCHANGED <<engineVars, sessionVars, env, legacyStream>>

\* The controller tries again while the engine is busy, and takes "engine must be
\* idle" for an engine that is prepared already.
LegacyPrepare ==
  /\ legacyPc = "prepare"
  /\ \/ PrepareToPrint /\ LegacyGoto("start")
     \/ engine # "PRIMED_IDLE" /\ LegacyGoto("start") /\ UNCHANGED engineVars
     \/ LegacyGoto("give_up") /\ UNCHANGED engineVars
  /\ UNCHANGED <<sessionVars, env, legacyStream>>

\* The controller looks at the engine before and after it; either may fail.
StartsUnchecked ==
  /\ legacyPc = "start"
  /\ StartPrinting \/ UNCHANGED engineVars
  /\ LegacyGoto("close")
  /\ UNCHANGED <<sessionVars, env, legacyStream>>

LegacyStart ==
  /\ legacyPc = "start"
  /\ \/ StartPrinting /\ (LegacyGoto("close") \/ LegacyGoto("give_up"))
     \/ LegacyGoto("give_up") /\ UNCHANGED engineVars
  /\ UNCHANGED <<sessionVars, env, legacyStream>>

\* After the hold in the default mode, at once in the other.
LegacyClose ==
  /\ legacyPc = "close"
  /\ legacyStream' = "closed"
  /\ LegacyGoto("finish") \/ LegacyGoto("failed")
  /\ UNCHANGED <<engineVars, sessionVars, env>>

\* The best-effort finish; then the next colour's job, or the end.
LegacyFinish ==
  /\ legacyPc = "finish"
  /\ \/ (legacyCfg.sequential \/ legacyCfg.immediateFinish) /\ FinishPrinting
     \/ UNCHANGED engineVars
  /\ IF legacyCfg.sequential /\ plane < Len(LegacyPlanes)
       THEN /\ legacyPc' = "open"
            /\ plane' = plane + 1
            /\ legacyStream' = "none"
            /\ UNCHANGED <<legacyCfg, tries>>
       ELSE LegacyGoto("submitted") /\ UNCHANGED legacyStream
  /\ UNCHANGED <<sessionVars, env>>

LeavesStream == UNCHANGED legacyStream

ClosesStream == legacyStream' = "closed"

\* abortJob discards the job, if it is not too late; closeJob; return 1.
LegacyGiveUp ==
  /\ legacyPc = "give_up"
  /\ \/ legacyStream = "open" /\ CancelJob(Job)
     \/ /\ legacyStream = "open" /\ fate[Job] = "sent"
        /\ fate' = [fate EXCEPT ![Job] = "lost"]
        /\ UNCHANGED <<engine, startPending>>
     \/ UNCHANGED engineVars
  /\ ClosesStream
  /\ LegacyGoto("failed")
  /\ UNCHANGED <<sessionVars, env>>

\* The steps the old way takes in bounded time.
LegacyProceeds ==
  LegacyOpen \/ LegacyWaitForQueuedJob \/ LegacyPrepare \/ LegacyStart \/ LegacyClose
    \/ LegacyFinish \/ LegacyGiveUp

-----------------------------------------------------------------------------
\* The printhead takes no session's stream while it takes this one's.
SessionSteps(s) ==
  /\ Proceed(s) \/ SubmitInline(s)
  /\ stream[s] = "none" /\ stream'[s] = "open" => PrintheadFree
  /\ UNCHANGED legacyVars

FleetInit ==
  /\ Init
  /\ \E f \in Fleets : fleet = f.rips /\ legacyCfg = f.cfg
  /\ legacyPc = "open"
  /\ plane = 1
  /\ tries = 0
  /\ legacyStream = "none"

FleetEnded ==
  /\ \A s \in fleet \ {"legacy"} : pc[s] = "done"
  /\ "legacy" \in fleet => LegacyEnded
  /\ UNCHANGED fleetVars

FleetNext ==
  \/ EngineMoves /\ UNCHANGED <<legacyVars, fleet>>
  \/ \E s \in fleet \ {"legacy"} : SessionSteps(s) /\ UNCHANGED fleet
  \/ "legacy" \in fleet /\ (LegacyProceeds \/ LegacyAddPage) /\ UNCHANGED fleet
  \/ FleetEnded

FleetSpec ==
  /\ FleetInit
  /\ [][FleetNext]_fleetVars
  /\ WF_fleetVars("legacy" \in fleet /\ LegacyProceeds /\ UNCHANGED fleet)

-----------------------------------------------------------------------------
\* By whatever of its returns the old way ends, as by whatever exit a session
\* does, the printhead is free again: the streams it opened are closed.
StreamsClosedAtEnd ==
  /\ StreamClosedAtEnd
  /\ LegacyEnded => legacyStream \in {"none", "closed"}

\* The states an engine at rest comes to only on account of a job.
SessionStates == ActiveStates \cup {"PRINT_READY", "SESSION_COMPLETE", "POST_JOB"}

\* The old way reports success only if some job has been in the engine's queue,
\* whoever else used it and however often the probes failed.  On Windows, where a
\* failed probe counts for nothing, that is so whatever engine it finds; elsewhere
\* waitForQueuedJob takes one for a queued job, and success rests on the exit codes
\* of prepare and start, which tell only if the RIPs found the engine outside of a
\* print session.  Of one found in PRINT_READY, prepare says "already primed" and
\* start is accepted: success over a queue that nothing ever entered.
LegacySuccessMeansQueued ==
  (legacyCfg.posix => engine \notin SessionStates)
    => [](legacyPc = "submitted" => JobSeen)

\* The old way ends, unless the library keeps it waiting in addPage for good.
LegacyEnds ==
  "legacy" \in fleet => <>(LegacyEnded \/ [](legacyPc = "add_page"))

-----------------------------------------------------------------------------
(* The inductive invariants behind the safety properties.                  *)

LegacyInv ==
  /\ fleet \subseteq Sessions \cup {"legacy"}
  /\ legacyPc \in LegacySteps
  /\ plane \in 1..Len(LegacyPlanes)
  /\ legacyStream \in {"none", "open", "closed"}
  /\ legacyPc = "open" => legacyStream = "none"
  /\ legacyPc \in {"finish", "submitted", "failed"} => legacyStream # "open"
  /\ \A k \in 1..Len(LegacyPlanes) :
       k > plane \/ (k = plane /\ legacyPc \in {"open", "add_page"})
         => fate[LegacyPlanes[k]] = "absent"

\* The steps after the wait, and those after startPrinting was accepted.
AfterWait  == {"prepare", "start", "close", "finish", "submitted"}
AfterStart == {"close", "finish", "submitted"}

\* Some job was queued before the old way goes on: the wait has seen it, where a
\* failed probe counts for nothing ...
SeenByWait == ~legacyCfg.posix /\ (legacyPc \in AfterWait => JobSeen)

\* ... or the engine has, which was found outside of a print session.
SeenByEngine ==
  /\ engine \in SessionStates => JobSeen
  /\ legacyPc \in AfterStart => JobSeen

SeenInv == SeenByWait \/ SeenByEngine
=============================================================================
