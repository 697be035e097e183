----------------------------- MODULE Verification ----------------------------
(***************************************************************************)
(* verifyPrintExecution (src/src/utils.cpp): the RIP polls the log of the  *)
(* engine's data server (Gymea) for the lines that show its job printed,   *)
(* while the server goes on writing.  The log is opened anew in each poll, *)
(* read from where the last poll left it to its end, one line at a time.   *)
(*                                                                         *)
(* A position counts half lines, for the server writes a line in one piece *)
(* or in two and the poller may come in between.  Lines about other jobs   *)
(* are "other"; what is only logged here (phases, reasons) is left out.    *)
(*                                                                         *)
(* RequiredSeen, StartAtEnd, PollRegardless and PollUncounted are mistaken *)
(* forms of the definitions after them; no specification uses them.        *)
(***************************************************************************)
EXTENDS Naturals, Sequences

CONSTANTS
  MaxPolls,  \* polls before the hard timeout, at most
  MaxLines   \* lines the server writes, at most

ASSUME PollsAssumption == MaxPolls \in Nat \ {0}
ASSUME LinesAssumption == MaxLines \in Nat

VARIABLES
  log,         \* the lines of the log, by what they say
  half,        \* of the last line only the first half is written
  poller,      \* where verifyPrintExecution is
  pos,         \* lastPos, and in a poll where its file is read
  found,       \* the signals found
  progressed,  \* this poll found something new
  polls,       \* polls begun
  before,      \* lines of the log that were complete when it began
  result       \* why it ended

logVars    == <<log, half>>
pollerVars == <<poller, pos, found, progressed, polls, before, result>>
vars       == <<logVars, pollerVars>>

Required == {"detected", "activated", "marked"}
Failing  == {"fault", "cancel"}
Signals  == Required \cup Failing \cup {"support"}
Kinds    == Signals \cup {"other"}

Size == 2 * Len(log) - (IF half THEN 1 ELSE 0)

Whole == Len(log) - (IF half THEN 1 ELSE 0)

Logged == {log[i] : i \in 1..Len(log)}

-----------------------------------------------------------------------------
(* The server's log.                                                       *)

\* A job is detected, its page activated, its marking completed; it fails or
\* is cancelled once it was detected.
MayFollow(kind) ==
  CASE kind = "detected"  -> "detected" \notin Logged
    [] kind = "activated" -> "detected" \in Logged /\ "activated" \notin Logged
    [] kind = "marked"    -> "activated" \in Logged /\ "marked" \notin Logged
    [] kind \in Failing   -> "detected" \in Logged /\ kind \notin Logged
    [] OTHER              -> TRUE

ServerWrites ==
  /\ ~half /\ Len(log) < MaxLines
  /\ \E kind \in Kinds : MayFollow(kind) /\ log' = Append(log, kind)
  /\ half' \in BOOLEAN
  /\ UNCHANGED pollerVars

ServerEndsLine ==
  /\ half
  /\ half' = FALSE
  /\ UNCHANGED <<log, pollerVars>>

-----------------------------------------------------------------------------
(* The poller.                                                             *)

End(why) == poller' = "done" /\ result' = why

StartAtEnd ==
  /\ poller = "start"
  /\ poller' = "asleep"
  /\ before' = Whole
  /\ pos' = Size
  /\ UNCHANGED <<logVars, found, progressed, polls, result>>

Start ==
  /\ poller = "start"
  /\ poller' = "asleep"
  /\ before' = Whole
  /\ UNCHANGED <<logVars, pos, found, progressed, polls, result>>

NoLog ==
  /\ poller = "start"
  /\ End("skipped")
  /\ UNCHANGED <<logVars, pos, found, progressed, polls, before>>

PollRegardless ==
  /\ poller = "asleep"
  /\ poller' = "reading"
  /\ progressed' = FALSE
  /\ polls' = polls + 1
  /\ UNCHANGED <<logVars, pos, found, before, result>>

PollUncounted ==
  /\ poller = "asleep" /\ polls < MaxPolls
  /\ poller' = "reading"
  /\ progressed' = FALSE
  /\ UNCHANGED <<polls, logVars, pos, found, before, result>>

\* Another round before the deadline: the log is opened and read from lastPos.
Poll ==
  /\ poller = "asleep" /\ polls < MaxPolls
  /\ poller' = "reading"
  /\ progressed' = FALSE
  /\ polls' = polls + 1
  /\ UNCHANGED <<logVars, pos, found, before, result>>

\* The deadline has passed, or the log can no longer be opened.
GiveUp ==
  /\ poller = "asleep"
  /\ End("timeout")
  /\ UNCHANGED <<logVars, pos, found, progressed, polls, before>>

Find(signals) ==
  /\ found' = found \cup signals
  /\ progressed' = (progressed \/ signals \ found # {})

\* getline returns a whole line, or what there is of it from the middle on or
\* up to the end of the file; half a line may show its signal or not.  At the
\* end of the file the stream fails from then on.
ReadLine ==
  /\ poller = "reading" /\ pos < Size
  /\ LET i    == (pos \div 2) + 1
         last == IF 2 * i <= Size THEN 2 * i ELSE Size
         said == {log[i]} \cap Signals
     IN
     /\ pos' = last
     /\ IF pos % 2 = 0 /\ last = 2 * i
        THEN Find(said)
        ELSE Find(said) \/ Find({})
     /\ poller' = IF last = 2 * i THEN "reading" ELSE "at_end"
  /\ UNCHANGED <<logVars, polls, before, result>>

ReachEnd ==
  /\ poller = "reading" /\ pos = Size
  /\ poller' = "at_end"
  /\ UNCHANGED <<logVars, pos, found, progressed, polls, before, result>>

\* tellg tells nothing of a stream that failed, so lastPos is the end of the
\* file as it is by now.
SeekEnd ==
  /\ poller = "at_end"
  /\ pos' = Size
  /\ poller' = "check"
  /\ UNCHANGED <<logVars, found, progressed, polls, before, result>>

RequiredSeen == Required \subseteq found

\* PrintVerificationResult::passed
Passed == Required \subseteq found /\ found \cap Failing = {}

Check ==
  /\ poller = "check"
  /\ IF Passed THEN End("passed")
     ELSE IF found \cap Failing # {} THEN End("failed")
     ELSE \/ poller' = "asleep" /\ UNCHANGED result
          \/ ~progressed /\ End("stalled")
  /\ UNCHANGED <<logVars, pos, found, progressed, polls, before>>

PollerRuns ==
  \/ Start \/ NoLog \/ Poll \/ GiveUp \/ ReadLine \/ ReachEnd \/ SeekEnd \/ Check

-----------------------------------------------------------------------------
Init ==
  /\ log = <<>> /\ half = FALSE
  /\ poller = "start" /\ pos = 0 /\ found = {} /\ progressed = FALSE
  /\ polls = 0 /\ before = 0 /\ result = "none"

Server == ServerWrites \/ ServerEndsLine

Ended == poller = "done" /\ UNCHANGED vars

Next == Server \/ PollerRuns \/ Ended

Spec == Init /\ [][Next]_vars

\* The poller's thread is scheduled; the server owes it nothing.
FairSpec == Spec /\ WF_vars(PollerRuns)

-----------------------------------------------------------------------------
(* Properties.                                                             *)

\* Every variable holds a value the code can give it; no poll begins after the
\* deadline, and lastPos never lies beyond the log.
TypeOK ==
  /\ log \in Seq(Kinds) /\ Len(log) <= MaxLines /\ half \in BOOLEAN
  /\ poller \in {"start", "asleep", "reading", "at_end", "check", "done"}
  /\ pos \in 0..Size /\ found \subseteq Signals /\ progressed \in BOOLEAN
  /\ polls \in 0..MaxPolls /\ before \in 0..Len(log)
  /\ result \in {"none", "skipped", "passed", "failed", "stalled", "timeout"}

\* What the log said of the job when the verification began.
SaidBefore == {log[i] : i \in 1..before}

\* "Completion succeeds on required Gymea completion signals": a job whose
\* signals were complete before the verification began, the usual case after a
\* print session, is never given up as stalled or timed out once the log was
\* read, however the server goes on writing.
PrintedIsVerified ==
  Required \subseteq SaidBefore /\ polls > 0 => result \notin {"stalled", "timeout"}

\* A print is verified only if the log holds its three signals, and never if it
\* had said before the verification began that the job failed or was cancelled.
PassIsTrue ==
  result = "passed" => Required \subseteq Logged /\ SaidBefore \cap Failing = {}

\* Verification ends, whatever the server writes or does not write.
VerificationEnds == poller # "start" ~> poller = "done"

\* "Completion succeeds on required Gymea completion signals", also those that
\* come while the log is polled: a poll that reads to the end of a log that holds
\* them whole, and no failure, passes.
SignalsAreSeen ==
  [][Check /\ result' # "passed" /\ Logged \cap Failing = {} /\ ~half
       => ~(Required \subseteq {log[i] : i \in 1..(pos \div 2)})]_vars

-----------------------------------------------------------------------------
(* What the safety properties rest on, as an inductive invariant.          *)

\* What was complete when the verification began stays, and nothing is found
\* that the log does not say.
LogInv ==
  /\ half => Len(log) > 0
  /\ before <= Whole
  /\ found \subseteq Logged

\* The poller is beyond the lines of the beginning once it has read to an end,
\* or when it stands within a line, and has found the signals it passed.
BeyondBefore == pos >= 2 * before

ReadInv ==
  /\ poller = "start" => polls = 0 /\ before = 0
  /\ polls = 0 => pos = 0 /\ poller \in {"start", "asleep", "done"}
  /\ pos % 2 = 1 => BeyondBefore
  /\ poller \in {"at_end", "check"} => BeyondBefore
  /\ poller = "asleep" /\ polls > 0 => BeyondBefore
  /\ result = "passed" => BeyondBefore
  /\ \A i \in 1..before : 2 * i <= pos /\ log[i] \in Signals => log[i] \in found

\* Why it ended, or goes on after a poll.
EndInv ==
  /\ result # "none" => poller = "done"
  /\ result = "passed" => Passed
  /\ polls > 0 /\ (poller = "asleep" \/ result \in {"stalled", "timeout"})
       => ~(Required \subseteq SaidBefore)

=============================================================================
