----------------------------- MODULE JslSubmit -------------------------------
(***************************************************************************)
(* The submission of a job's page in runPrintSession: the main thread,     *)
(* which waits for the worker with timedJoin and has to give up on it in   *)
(* time; the worker, in JSLWrapper::addPageMultiColor; and the submission  *)
(* library (jsl-sdk/jobSubmissionLib.h), whose handle they share.          *)
(* It begins with the job open and the worker just started.                *)
(*                                                                         *)
(* NeverGivesUp, LeavesStreamOpen, SleepsUncounted, WakesRegardless,       *)
(* ExpiresIntoCleanup and CleanupForgetsClose are mistaken forms of the    *)
(* actions after them; no specification uses them.                         *)
(***************************************************************************)
EXTENDS Naturals

CONSTANTS
  MAX_RETRIES,  \* retries of a page
  JoinPolls     \* polls of a timedJoin before its deadline, at most

VARIABLES
  main,      \* where the main thread is
  joining,   \* which timedJoin it is in: the first, or the one after the abort
  polls,     \* polls made by that timedJoin
  addPageOk, \* its verdict on the submission
  detached,  \* whether it left the worker behind
  worker,    \* where the worker thread is
  attempt,   \* the worker's attempt at the page
  result,    \* what its addPageMultiColor will return
  workerOk,  \* workerOk
  dataDone,  \* dataDone_
  handle,    \* the stream
  broken,    \* jslibAddPage has returned an error
  taken      \* the library has taken the last page

mainVars   == <<main, joining, polls, addPageOk, detached>>
workerVars == <<worker, attempt, result, workerOk, dataDone>>
sdkVars    == <<handle, broken, taken>>
vars       == <<mainVars, workerVars, sdkVars>>

MainSteps   == {"join", "asleep", "abort", "close", "cleanup_abort",
                "cleanup_close", "left"}
WorkerSteps == {"call", "in_call", "retry", "abort", "close", "store",
                "signal", "done"}

-----------------------------------------------------------------------------
(* The submission library.                                                 *)

\* Aborting a handle that is not open, or closing one that is not valid,
\* returns an error and changes nothing.
SdkAbort ==
  /\ handle' = IF handle = "open" THEN "aborted" ELSE handle
  /\ UNCHANGED <<broken, taken>>

\* A stream without its last page must be aborted before it can be closed.
SdkClose ==
  /\ handle' = IF handle = "open" /\ ~taken THEN handle ELSE "closed"
  /\ UNCHANGED <<broken, taken>>

\* What jslibAddPage may answer.
Answers ==
  IF handle = "closed" THEN {"BAD_PARAM"}
  ELSE IF handle = "aborted" THEN {"ABORT"}
  ELSE IF broken THEN {"NOT_READY"}
  ELSE {"OK", "COMMS", "CLOSED", "FATAL_ERROR"}

Retryable == {"NOT_READY", "BUSY", "COMMS"}

-----------------------------------------------------------------------------
(* The worker: addPageMultiColor, then the two flags.                      *)

CallAddPage ==
  /\ worker = "call"
  /\ worker' = "in_call"
  /\ UNCHANGED <<attempt, result, workerOk, dataDone, mainVars, sdkVars>>

AddPageTaken ==
  /\ worker = "in_call" /\ "OK" \in Answers
  /\ taken' = TRUE /\ result' = TRUE
  /\ worker' = "store"
  /\ UNCHANGED <<handle, broken, attempt, workerOk, dataDone, mainVars>>

AddPageRetries(a) ==
  /\ worker = "in_call" /\ a \in Answers \cap Retryable
  /\ attempt < MAX_RETRIES
  /\ attempt' = attempt + 1
  /\ worker' = "retry"
  /\ broken' = TRUE
  /\ UNCHANGED <<handle, taken, result, workerOk, dataDone, mainVars>>

LeavesStreamOpen(a) ==
  /\ worker = "in_call" /\ a \in Answers \ {"OK"}
  /\ a \in Retryable => attempt = MAX_RETRIES
  /\ worker' = "store"
  /\ broken' = TRUE
  /\ UNCHANGED <<handle, taken, attempt, result, workerOk, dataDone, mainVars>>

NeverGivesUp(a) ==
  /\ worker = "in_call" /\ a \in Answers \ {"OK"}
  /\ worker' = "retry"
  /\ broken' = TRUE
  /\ UNCHANGED <<handle, taken, attempt, result, workerOk, dataDone, mainVars>>

AddPageFails(a) ==
  /\ worker = "in_call" /\ a \in Answers \ {"OK"}
  /\ a \in Retryable => attempt = MAX_RETRIES
  /\ worker' = "abort"
  /\ broken' = TRUE
  /\ UNCHANGED <<handle, taken, attempt, result, workerOk, dataDone, mainVars>>

\* A call of jslibAddPage returns.  While the receiver is stalled it does not.
AddPageReturns ==
  \/ AddPageTaken
  \/ \E a \in Answers : AddPageRetries(a) \/ AddPageFails(a)

\* The pause before a retry, which nothing cuts short.
RetryDelayOver ==
  /\ worker = "retry"
  /\ worker' = "call"
  /\ UNCHANGED <<attempt, result, workerOk, dataDone, mainVars, sdkVars>>

WorkerAborts ==
  /\ worker = "abort"
  /\ SdkAbort
  /\ worker' = "close"
  /\ UNCHANGED <<attempt, result, workerOk, dataDone, mainVars>>

WorkerCloses ==
  /\ worker = "close"
  /\ SdkClose
  /\ worker' = "store"
  /\ UNCHANGED <<attempt, result, workerOk, dataDone, mainVars>>

StoreResult ==
  /\ worker = "store"
  /\ workerOk' = result
  /\ worker' = "signal"
  /\ UNCHANGED <<attempt, result, dataDone, mainVars, sdkVars>>

SignalDone ==
  /\ worker = "signal"
  /\ dataDone' = TRUE
  /\ worker' = "done"
  /\ UNCHANGED <<attempt, result, workerOk, mainVars, sdkVars>>

WorkerRuns ==
  \/ CallAddPage \/ RetryDelayOver \/ WorkerAborts \/ WorkerCloses
  \/ StoreResult \/ SignalDone

-----------------------------------------------------------------------------
(* The main thread.                                                        *)

\* timedJoin finds dataDone_ set and joins.
JoinsFirst ==
  /\ main = "join" /\ joining = 1 /\ dataDone
  /\ addPageOk' = IF workerOk THEN "ok" ELSE "failed"
  /\ main' = IF workerOk THEN "close" ELSE "cleanup_abort"
  /\ UNCHANGED <<joining, polls, detached, workerVars, sdkVars>>

JoinsAfterAbort ==
  /\ main = "join" /\ joining = 2 /\ dataDone
  /\ addPageOk' = "failed"
  /\ main' = "cleanup_abort"
  /\ UNCHANGED <<joining, polls, detached, workerVars, sdkVars>>

SleepsUncounted ==
  /\ main = "join" /\ ~dataDone
  /\ main' = "asleep"
  /\ UNCHANGED <<polls, joining, addPageOk, detached, workerVars, sdkVars>>

\* It does not, and sleeps; afterwards it looks again or finds itself past its
\* deadline.
JoinSleeps ==
  /\ main = "join" /\ ~dataDone
  /\ main' = "asleep"
  /\ polls' = polls + 1
  /\ UNCHANGED <<joining, addPageOk, detached, workerVars, sdkVars>>

WakesRegardless ==
  /\ main = "asleep"
  /\ main' = "join"
  /\ UNCHANGED <<joining, polls, addPageOk, detached, workerVars, sdkVars>>

JoinWakes ==
  /\ main = "asleep" /\ polls < JoinPolls
  /\ main' = "join"
  /\ UNCHANGED <<joining, polls, addPageOk, detached, workerVars, sdkVars>>

ExpiresIntoCleanup ==
  /\ main = "asleep" /\ joining = 1
  /\ addPageOk' = "failed"
  /\ main' = "cleanup_abort"
  /\ UNCHANGED <<joining, polls, detached, workerVars, sdkVars>>

JoinExpires ==
  /\ main = "asleep" /\ joining = 1
  /\ main' = "abort"
  /\ UNCHANGED <<joining, polls, addPageOk, detached, workerVars, sdkVars>>

AbortsLateWorker ==
  /\ main = "abort"
  /\ SdkAbort
  /\ main' = "join" /\ joining' = 2 /\ polls' = 0
  /\ UNCHANGED <<addPageOk, detached, workerVars>>

DetachesWorker ==
  /\ main = "asleep" /\ joining = 2
  /\ detached' = TRUE
  /\ addPageOk' = "failed"
  /\ main' = "cleanup_abort"
  /\ UNCHANGED <<joining, polls, workerVars, sdkVars>>

ClosesJob ==
  /\ main = "close"
  /\ SdkClose
  /\ main' = "left"
  /\ UNCHANGED <<joining, polls, addPageOk, detached, workerVars>>

CleanupAborts ==
  /\ main = "cleanup_abort"
  /\ SdkAbort
  /\ main' = "cleanup_close"
  /\ UNCHANGED <<joining, polls, addPageOk, detached, workerVars>>

CleanupForgetsClose ==
  /\ main = "cleanup_close"
  /\ main' = "left"
  /\ UNCHANGED <<joining, polls, addPageOk, detached, workerVars, sdkVars>>

CleanupCloses ==
  /\ main = "cleanup_close"
  /\ SdkClose
  /\ main' = "left"
  /\ UNCHANGED <<joining, polls, addPageOk, detached, workerVars>>

MainRuns ==
  \/ JoinsFirst \/ JoinsAfterAbort \/ JoinSleeps \/ JoinWakes \/ JoinExpires
  \/ AbortsLateWorker \/ DetachesWorker \/ ClosesJob \/ CleanupAborts
  \/ CleanupCloses

-----------------------------------------------------------------------------
Init ==
  /\ main = "join" /\ joining = 1 /\ polls = 0
  /\ addPageOk = "pending" /\ detached = FALSE
  /\ worker = "call" /\ attempt = 0 /\ result = FALSE
  /\ workerOk = FALSE /\ dataDone = FALSE
  /\ handle = "open" /\ broken = FALSE /\ taken = FALSE

Ended == main = "left" /\ worker = "done" /\ UNCHANGED vars

Next == MainRuns \/ WorkerRuns \/ AddPageReturns \/ Ended

Spec == Init /\ [][Next]_vars

-----------------------------------------------------------------------------
(* Properties.                                                             *)

\* Every variable holds a value the code can give it; no page is tried more
\* than MAX_RETRIES + 1 times and no timedJoin polls past its deadline.
TypeOK ==
  /\ main \in MainSteps /\ joining \in {1, 2} /\ polls \in 0..JoinPolls
  /\ addPageOk \in {"pending", "ok", "failed"} /\ detached \in BOOLEAN
  /\ worker \in WorkerSteps /\ attempt \in 0..MAX_RETRIES
  /\ result \in BOOLEAN /\ workerOk \in BOOLEAN /\ dataDone \in BOOLEAN
  /\ handle \in {"open", "aborted", "closed"}
  /\ broken \in BOOLEAN /\ taken \in BOOLEAN

\* However the worker and its deadline race, the stream is closed when the
\* main thread leaves the submission behind.
ClosedWhenLeft == main = "left" => handle = "closed"

\* The worker, which uses the session's locals, outlives the submission only
\* if two deadlines passed and it was detached.
OnlyDetachedOutlives == main = "left" /\ worker # "done" => detached

\* "After this call the handle is no longer valid": neither thread is about to
\* call the library with a handle that was closed.
ClosedHandleIsLeftAlone ==
  handle = "closed" =>
    /\ main \notin {"abort", "close", "cleanup_abort", "cleanup_close"}
    /\ worker \notin {"call", "abort", "close"}

-----------------------------------------------------------------------------
(* The inductive invariant behind them.                                    *)

\* The worker's flags tell the truth, and a worker that failed has aborted its
\* stream before it says so.
WorkerInv ==
  /\ taken = result
  /\ workerOk => result
  /\ dataDone <=> worker = "done"
  /\ worker \in {"signal", "done"} => workerOk = result
  /\ result => worker \in {"store", "signal", "done"}
  /\ worker \in {"close", "store", "signal", "done"} /\ ~result => handle # "open"

\* The main thread settles on an outcome after it joined or aborted.
MainInv ==
  /\ main = "join" => polls < JoinPolls
  /\ addPageOk = "pending" <=> main \in {"join", "asleep", "abort"}
  /\ main = "abort" => joining = 1
  /\ joining = 2 => handle # "open" /\ addPageOk # "ok"
  /\ joining = 1 /\ addPageOk = "pending" /\ result => handle = "open"
  /\ addPageOk = "failed" => handle # "open"
  /\ addPageOk = "failed" => detached \/ worker = "done"
  /\ addPageOk = "ok" => /\ worker = "done" /\ result
                         /\ handle \in {"open", "closed"}
                         /\ main \in {"close", "left"}
  /\ main = "close" => addPageOk = "ok"
  /\ main = "left" => handle = "closed"

=============================================================================
