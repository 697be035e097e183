------------------------------ MODULE PesEngine ------------------------------
(***************************************************************************)
(* The print engine (Memjet "Kareela PES") as the RIP sees it: a machine   *)
(* that is not part of the repository.  Its states, the commands it takes  *)
(* and what they do come from the Thrift API vendored under                *)
(* src/vendor/pdl_py, which is all that src/ knows of it.                  *)
(*                                                                         *)
(* The engine moves on its own (servicing, operator actions, faults, the   *)
(* end of a page), so every move below may happen between any two steps    *)
(* of a RIP.  The order of the job queue is abstracted: the engine may     *)
(* print any assembled job of the queue.                                   *)
(***************************************************************************)
EXTENDS Naturals

CONSTANTS
  Sessions,   \* print sessions; each submits one job, named like the session
  Leftover,   \* jobs an earlier session left in the engine's queue
  LegacyJobs  \* jobs of a RIP that works the old way (module LegacySession)

ASSUME JobsAssumption ==
  Sessions \cap Leftover = {} /\ (Sessions \cup Leftover) \cap LegacyJobs = {}

Jobs == Sessions \cup Leftover \cup LegacyJobs

VARIABLES
  engine,        \* the engine's own state, by its API name
  startPending,  \* startPrinting was accepted during PRE_JOB
  fate           \* what has become of each job

engineVars == <<engine, startPending, fate>>

EngineState ==
  {"OFF", "FAULT", "TESTING", "INITIALISING", "DEPRIMED_IDLE", "PRIMED_IDLE",
   "SERVICING", "PRE_JOB", "PRINT_READY", "PRINTING", "MID_JOB", "PAUSED",
   "SESSION_COMPLETE", "POST_JOB", "SHUTTING_DOWN", "PAUSING"}

\* A job is "sent" once the submission library has taken its last page, and
\* "lost" when the engine discarded its data.
Fate == {"absent", "sent", "assembling", "ready", "printing",
         "printed", "cancelled", "lost"}

InQueue == {"assembling", "ready", "printing"}
Gone    == {"printed", "cancelled", "lost"}

EngineTypeOK ==
  /\ engine \in EngineState
  /\ startPending \in BOOLEAN
  /\ fate \in [Jobs -> Fate]

QueueEmpty == \A j \in Jobs : fate[j] \notin InQueue

ReadyForPrintData ==
  engine \notin {"OFF", "TESTING", "INITIALISING", "FAULT", "SHUTTING_DOWN"}

\* The states in which a print session is active, so that it can be finished.
PrintSessionActive ==
  engine \in {"PRE_JOB", "PRINT_READY", "PAUSED", "MID_JOB", "PRINTING",
              "SESSION_COMPLETE"}

NothingPrinting == \A j \in Jobs : fate[j] # "printing"

\* The job being printed, if there is one, is disposed of as "to".
Dispose(to) == fate' = [j \in Jobs |-> IF fate[j] = "printing" THEN to ELSE fate[j]]

\* A RIP may find the engine in any of its states: a print session that another
\* RIP left unfinished, one the operator paused, and the PRINT_READY that follows a
\* finished print on some builds among them.
EngineInit ==
  /\ engine \in EngineState
  /\ startPending \in BOOLEAN /\ (startPending => engine = "PRE_JOB")
  /\ fate \in [Jobs -> InQueue \cup {"absent"}]
  /\ \A j \in Jobs : fate[j] = "absent" <=> j \notin Leftover
  /\ \A i, j \in Jobs : fate[i] = "printing" /\ fate[j] = "printing" => i = j
  /\ NothingPrinting \/ engine \in {"PRINTING", "MID_JOB", "PAUSING", "PAUSED"}

-----------------------------------------------------------------------------
(* The commands of the Thrift API, when the engine accepts them.           *)

InitialiseEngine ==
  /\ engine = "OFF"
  /\ engine' = "INITIALISING"
  /\ UNCHANGED <<startPending, fate>>

PrepareToPrint ==
  /\ engine \in {"PRIMED_IDLE", "PAUSED"}
  /\ \E j \in Jobs : fate[j] \in {"ready", "printing"}
  /\ engine' = "PRE_JOB"
  /\ UNCHANGED <<startPending, fate>>

StartPrinting ==
  /\ \/ /\ engine = "PRE_JOB"
        /\ startPending' = TRUE
        /\ UNCHANGED engine
     \/ /\ engine \in {"PRINT_READY", "PAUSED", "MID_JOB"}
        /\ engine' = "PRINTING"
        /\ UNCHANGED startPending
  /\ UNCHANGED fate

FinishPrinting ==
  /\ PrintSessionActive
  /\ engine' = "POST_JOB"
  /\ startPending' = FALSE
  /\ \/ Dispose("cancelled")
     \/ engine # "PRINTING" /\ Dispose("ready")

-----------------------------------------------------------------------------
(* What the engine, its operator and the data path do by themselves.       *)

QuietMoves ==
  {<<"OFF", "INITIALISING">>, <<"OFF", "TESTING">>, <<"TESTING", "OFF">>,
   <<"INITIALISING", "PRIMED_IDLE">>, <<"INITIALISING", "DEPRIMED_IDLE">>,
   <<"PRIMED_IDLE", "SERVICING">>, <<"DEPRIMED_IDLE", "SERVICING">>,
   <<"SERVICING", "PRIMED_IDLE">>, <<"SERVICING", "DEPRIMED_IDLE">>,
   <<"PRINT_READY", "POST_JOB">>, <<"SESSION_COMPLETE", "POST_JOB">>,
   <<"POST_JOB", "PRIMED_IDLE">>, <<"POST_JOB", "PRINT_READY">>,
   <<"PRINTING", "MID_JOB">>,
   <<"PRINTING", "PAUSING">>, <<"PAUSING", "PAUSED">>,
   <<"PRIMED_IDLE", "SHUTTING_DOWN">>, <<"DEPRIMED_IDLE", "SHUTTING_DOWN">>,
   <<"FAULT", "SHUTTING_DOWN">>, <<"SHUTTING_DOWN", "OFF">>}

QuietMove ==
  /\ \E to \in EngineState : <<engine, to>> \in QuietMoves /\ engine' = to
  /\ UNCHANGED <<startPending, fate>>

PreJobDone ==
  /\ engine = "PRE_JOB"
  /\ engine' = IF startPending THEN "PRINTING" ELSE "PRINT_READY"
  /\ startPending' = FALSE
  /\ UNCHANGED fate

\* The job's data reach the queue, are assembled there, or are discarded.
JobData(j) ==
  /\ \/ fate[j] = "sent"       /\ fate' = [fate EXCEPT ![j] = "assembling"]
     \/ fate[j] = "assembling" /\ fate' = [fate EXCEPT ![j] = "ready"]
     \/ fate[j] \in {"sent", "assembling"} /\ fate' = [fate EXCEPT ![j] = "lost"]
  /\ UNCHANGED <<engine, startPending>>

PickJob(j) ==
  /\ engine = "PRINTING"
  /\ fate[j] = "ready" /\ NothingPrinting
  /\ fate' = [fate EXCEPT ![j] = "printing"]
  /\ UNCHANGED <<engine, startPending>>

JobDone(j) ==
  /\ engine \in {"PRINTING", "PAUSING"}
  /\ fate[j] = "printing"
  /\ fate' = [fate EXCEPT ![j] = "printed"]
  /\ engine' \in {engine, "SESSION_COMPLETE"}
  /\ UNCHANGED startPending

SessionEnds ==
  /\ engine = "PRINTING" /\ NothingPrinting
  /\ engine' = "SESSION_COMPLETE"
  /\ UNCHANGED <<startPending, fate>>

\* The operator cancels a queued job.
CancelJob(j) ==
  /\ fate[j] \in InQueue
  /\ fate' = [fate EXCEPT ![j] = "cancelled"]
  /\ engine' = IF fate[j] = "printing" THEN "SESSION_COMPLETE" ELSE engine
  /\ UNCHANGED startPending

Fault ==
  /\ engine \notin {"OFF", "FAULT", "SHUTTING_DOWN"}
  /\ engine' = "FAULT"
  /\ startPending' = FALSE
  /\ \E to \in {"ready", "cancelled"} : Dispose(to)

EngineNext ==
  \/ QuietMove
  \/ PreJobDone
  \/ \E j \in Jobs : JobData(j) \/ PickJob(j) \/ JobDone(j) \/ CancelJob(j)
  \/ SessionEnds
  \/ Fault

=============================================================================
