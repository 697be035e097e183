------------------------- MODULE VerificationProofs --------------------------
(***************************************************************************)
(* Safety of the print verification, for a log of any length and any       *)
(* number of polls.                                                        *)
(***************************************************************************)
EXTENDS Verification, TLAPS

Inv == TypeOK /\ LogInv /\ ReadInv /\ EndInv

LEMMA InvInitially == Init => Inv
<1> SUFFICES ASSUME Init PROVE Inv
  OBVIOUS
<1> USE PollsAssumption, LinesAssumption DEF Init
<1>1. <<>> \in Seq(Kinds) /\ Len(<<>>) = 0
  OBVIOUS
<1>2. TypeOK
  <2>1. Size = 0 /\ Len(log) = 0
    BY <1>1 DEF Size
  <2>2. log \in Seq(Kinds) /\ Len(log) <= MaxLines
    BY <1>1, <2>1
  <2>3. pos \in 0..Size /\ before \in 0..Len(log)
    BY <2>1
  <2>4. polls \in 0..MaxPolls
    OBVIOUS
  <2> QED BY <2>2, <2>3, <2>4 DEF TypeOK
<1>3. LogInv
  BY <1>1 DEF LogInv, Whole
<1>4. ReadInv
  BY DEF ReadInv, BeyondBefore
<1>5. EndInv
  BY DEF EndInv
<1> QED BY <1>2, <1>3, <1>4, <1>5 DEF Inv

\* The log's measures are numbers, two halves to a line.
LEMMA Measures ==
  ASSUME TypeOK, LogInv
  PROVE  /\ Size \in Nat /\ Whole \in Nat /\ Len(log) \in Nat
         /\ 2 * Whole <= Size /\ Size <= 2 * Len(log) /\ Whole <= Len(log)
         /\ pos \in Nat /\ pos <= Size /\ before \in Nat /\ before <= Len(log)
         /\ polls \in Nat
<1>1. Len(log) \in Nat /\ log \in Seq(Kinds)
  BY DEF TypeOK
<1>2. half => Len(log) - 1 \in Nat
  BY <1>1 DEF LogInv
<1>3. /\ Size \in Nat /\ Whole \in Nat
      /\ 2 * Whole <= Size /\ Size <= 2 * Len(log) /\ Whole <= Len(log)
  BY <1>1, <1>2 DEF Size, Whole
<1> QED BY <1>1, <1>3, PollsAssumption DEF TypeOK

-----------------------------------------------------------------------------
(* The server's steps.                                                     *)

LEMMA ServerSound ==
  ASSUME Inv, Server
  PROVE  Inv'
<1> USE DEF Inv
<1>1. /\ Size \in Nat /\ Whole \in Nat /\ Len(log) \in Nat
      /\ 2 * Whole <= Size /\ Size <= 2 * Len(log) /\ Whole <= Len(log)
      /\ pos \in Nat /\ pos <= Size /\ before \in Nat /\ before <= Len(log)
      /\ polls \in Nat
  BY Measures
<1>2. UNCHANGED pollerVars
  BY DEF Server, ServerWrites, ServerEndsLine
<1>3. /\ log' \in Seq(Kinds) /\ Len(log') <= MaxLines /\ half' \in BOOLEAN
      /\ Len(log') \in Nat /\ Len(log) <= Len(log')
      /\ \A i \in 1..Len(log) : log'[i] = log[i]
      /\ half' => Len(log') > 0
      /\ Size <= Size' /\ Whole <= Whole' /\ Size' \in Nat
  <2>1. log \in Seq(Kinds) /\ half \in BOOLEAN /\ Len(log) <= MaxLines
    BY DEF TypeOK
  <2>2. CASE ServerEndsLine
    <3>1. log' = log /\ half /\ half' = FALSE
      BY <2>2 DEF ServerEndsLine
    <3>2. /\ Size' = 2 * Len(log) /\ Whole' = Len(log)
      BY <1>1, <3>1 DEF Size, Whole
    <3>3. Size <= Size' /\ Whole <= Whole' /\ Size' \in Nat
      BY <1>1, <3>2
    <3>4. Len(log') = Len(log) /\ log' \in Seq(Kinds) /\ half' \in BOOLEAN /\ ~half'
      BY <2>1, <3>1
    <3> QED BY <1>1, <2>1, <3>1, <3>3, <3>4
  <2>3. CASE ServerWrites
    <3> PICK kind \in Kinds : log' = Append(log, kind)
      BY <2>3 DEF ServerWrites
    <3>1. /\ log' \in Seq(Kinds) /\ Len(log') = Len(log) + 1
          /\ \A i \in 1..Len(log) : log'[i] = log[i]
      BY <2>1
    <3>2. ~half /\ Len(log) < MaxLines /\ half' \in BOOLEAN
      BY <2>3 DEF ServerWrites
    <3>3. /\ Size = 2 * Len(log) /\ Whole = Len(log)
          /\ Size' = 2 * (Len(log) + 1) - (IF half' THEN 1 ELSE 0)
          /\ Whole' = Len(log) + 1 - (IF half' THEN 1 ELSE 0)
      BY <1>1, <3>1, <3>2 DEF Size, Whole
    <3>4. /\ Size <= Size' /\ Size' \in Nat
          /\ Whole <= Whole'
      BY <1>1, <3>3
    <3>5. /\ Len(log') <= MaxLines /\ Len(log') \in Nat /\ Len(log) <= Len(log')
          /\ half' => Len(log') > 0
      BY <1>1, <3>1, <3>2, LinesAssumption
    <3> QED BY <3>1, <3>2, <3>4, <3>5
  <2> QED BY <2>2, <2>3 DEF Server
<1>4. TypeOK'
  BY <1>1, <1>2, <1>3 DEF TypeOK, pollerVars
<1>5. LogInv'
  <2>1. Logged \subseteq Logged'
    <3>1. \A i \in 1..Len(log) : i \in 1..Len(log') /\ log[i] = log'[i]
      BY <1>1, <1>3
    <3> QED BY <3>1 DEF Logged
  <2>2. before <= Whole /\ found \subseteq Logged /\ before' = before /\ found' = found
    BY <1>2 DEF LogInv, pollerVars
  <2>3. before <= Whole'
    BY <1>1, <1>3, <2>2 DEF Whole
  <2> QED BY <1>3, <2>1, <2>2, <2>3 DEF LogInv
<1>6. \A i \in 1..before : i \in 1..Len(log) /\ log'[i] = log[i]
  BY <1>1, <1>3
<1>7. ReadInv'
  BY <1>2, <1>6 DEF ReadInv, BeyondBefore, pollerVars
<1>8. EndInv'
  <2>1. SaidBefore' = SaidBefore
    BY <1>2, <1>6 DEF SaidBefore, pollerVars
  <2> QED BY <1>2, <2>1 DEF EndInv, Passed, pollerVars
<1> QED BY <1>4, <1>5, <1>7, <1>8

-----------------------------------------------------------------------------
(* The poller's steps.                                                     *)

LEMMA StartSound ==
  ASSUME Inv, Start \/ NoLog
  PROVE  Inv'
<1> USE DEF Inv
<1>1. /\ Size \in Nat /\ Whole \in Nat /\ Len(log) \in Nat /\ Whole <= Len(log)
      /\ pos = 0 /\ polls = 0 /\ before = 0 /\ poller = "start"
  BY Measures DEF Start, NoLog, ReadInv
<1>2. /\ UNCHANGED <<logVars, pos, found, progressed, polls>>
      /\ before' \in {before, Whole} /\ poller' \in {"asleep", "done"}
      /\ result' \in {result, "skipped"} /\ (result' # "none" => poller' = "done")
  BY DEF Start, NoLog, End, EndInv
<1>3. TypeOK'
  BY <1>1, <1>2 DEF TypeOK, logVars, Size
<1>4. LogInv'
  BY <1>1, <1>2 DEF LogInv, logVars, Logged, Whole
<1>5. ReadInv'
  <2>1. pos' = 0 /\ polls' = 0 /\ pos' % 2 = 0
    BY <1>1, <1>2
  <2>2. result' # "passed"
    BY <1>1, <1>2 DEF EndInv
  <2>3. \A i \in 1..before' : ~(2 * i <= pos')
    BY <1>1, <1>2, <2>1
  <2> QED BY <1>2, <2>1, <2>2, <2>3 DEF ReadInv
<1>6. EndInv'
  BY <1>1, <1>2 DEF EndInv
<1> QED BY <1>3, <1>4, <1>5, <1>6

\* Steps between the reads that leave the log, its position and the signals
\* alone, or start a poll.
LEMMA PollSound ==
  ASSUME Inv, Poll \/ GiveUp \/ ReachEnd
  PROVE  Inv'
<1> USE DEF Inv
<1>1. /\ Size \in Nat /\ Whole \in Nat /\ Len(log) \in Nat /\ 2 * Whole <= Size
      /\ pos \in Nat /\ before \in Nat /\ polls \in Nat /\ before <= Whole
  BY Measures DEF LogInv
<1>2. UNCHANGED <<logVars, pos, found, before>> /\ polls' \in {polls, polls + 1}
  BY DEF Poll, GiveUp, ReachEnd
<1>3. TypeOK'
  <2>1. Size' = Size /\ pos' = pos /\ before' = before /\ log' = log
    BY <1>2 DEF Size, logVars
  <2>2. polls' \in 0..MaxPolls
    BY <1>1, PollsAssumption DEF TypeOK, Poll, GiveUp, ReachEnd
  <2> QED
    BY <1>2, <2>1, <2>2 DEF TypeOK, logVars, Poll, GiveUp, ReachEnd, End
<1>4. LogInv'
  BY <1>2 DEF LogInv, logVars, Logged, Whole
<1>5. ReadInv'
  <2> USE <1>1, <1>2 DEF ReadInv, BeyondBefore, logVars
  <2>1. CASE Poll
    <3>1. polls' # 0
      BY <2>1 DEF Poll
    <3> QED BY <2>1, <3>1 DEF Poll
  <2>2. CASE GiveUp
    BY <2>2 DEF GiveUp, End
  <2>3. CASE ReachEnd
    <3>1. pos >= 2 * before
      BY <2>3 DEF ReachEnd
    <3> QED BY <2>3, <3>1 DEF ReachEnd
  <2> QED BY <2>1, <2>2, <2>3
<1>6. EndInv'
  <2>1. SaidBefore' = SaidBefore
    BY <1>2 DEF SaidBefore, logVars
  <2> QED BY <1>1, <1>2, <2>1 DEF EndInv, ReadInv, Passed, Poll, GiveUp, ReachEnd, End
<1> QED BY <1>3, <1>4, <1>5, <1>6

LEMMA SeekEndSound ==
  ASSUME Inv, SeekEnd
  PROVE  Inv'
<1> USE DEF Inv
<1>1. /\ Size \in Nat /\ Whole \in Nat /\ Len(log) \in Nat /\ 2 * Whole <= Size
      /\ pos \in Nat /\ pos <= Size /\ before \in Nat /\ polls \in Nat
      /\ before <= Whole /\ pos >= 2 * before
  BY Measures DEF LogInv, ReadInv, BeyondBefore, SeekEnd
<1>2. /\ UNCHANGED <<logVars, found, progressed, polls, before, result>>
      /\ pos' = Size /\ poller = "at_end" /\ poller' = "check"
  BY DEF SeekEnd
<1>3. TypeOK'
  <2>1. Size' = Size
    BY <1>2 DEF Size, logVars
  <2>2. pos' \in 0..Size'
    BY <1>1, <1>2, <2>1
  <2> QED BY <1>2, <2>2 DEF TypeOK, logVars
<1>4. LogInv'
  BY <1>2 DEF LogInv, logVars, Logged, Whole
<1>5. ReadInv'
  <2>1. \A i \in 1..before : 2 * i <= pos
    BY <1>1
  <2>2. pos' >= 2 * before'
    BY <1>1, <1>2
  <2>3. result = "none" /\ polls # 0
    BY <1>2 DEF EndInv, ReadInv
  <2> QED BY <1>1, <1>2, <2>1, <2>2, <2>3 DEF ReadInv, BeyondBefore, logVars
<1>6. EndInv'
  BY <1>2 DEF EndInv, logVars
<1> QED BY <1>3, <1>4, <1>5, <1>6

\* After a poll the signals of the lines from the beginning are found.
LEMMA CheckSound ==
  ASSUME Inv, Check
  PROVE  Inv'
<1> USE DEF Inv
<1>1. /\ pos \in Nat /\ before \in Nat /\ before <= Len(log) /\ Len(log) \in Nat
      /\ pos >= 2 * before /\ result = "none" /\ polls # 0
  BY Measures DEF ReadInv, EndInv, BeyondBefore, Check
<1>2. UNCHANGED <<logVars, pos, found, progressed, polls, before>>
  BY DEF Check
<1>3. SaidBefore \cap Signals \subseteq found
  <2>1. \A i \in 1..before : 2 * i <= pos
    BY <1>1
  <2> QED BY <2>1 DEF ReadInv, SaidBefore
<1>4. ~Passed /\ found \cap Failing = {} => ~(Required \subseteq SaidBefore)
  BY <1>3 DEF Passed, Signals
<1>5. TypeOK'
  BY <1>2 DEF TypeOK, logVars, Size, Check, End
<1>6. LogInv'
  BY <1>2 DEF LogInv, logVars, Logged, Whole
<1>7. ReadInv'
  BY <1>1, <1>2 DEF ReadInv, BeyondBefore, logVars, Check, End
<1>8. EndInv'
  <2>1. SaidBefore' = SaidBefore /\ Passed' = Passed
    BY <1>2 DEF SaidBefore, Passed, logVars
  <2> QED BY <1>1, <1>4, <2>1 DEF EndInv, Check, End
<1> QED BY <1>5, <1>6, <1>7, <1>8

\* A line from the beginning is read as a whole: such a line is complete, and
\* no position within it is ever reached.
LEMMA ReadLineSound ==
  ASSUME Inv, ReadLine
  PROVE  Inv'
<1> USE DEF Inv
<1> DEFINE i    == (pos \div 2) + 1
           last == IF 2 * i <= Size THEN 2 * i ELSE Size
           said == {log[i]} \cap Signals
<1>1. /\ Size \in Nat /\ Whole \in Nat /\ Len(log) \in Nat
      /\ 2 * Whole <= Size /\ Size <= 2 * Len(log)
      /\ pos \in Nat /\ pos < Size /\ before \in Nat /\ before <= Whole
      /\ poller = "reading" /\ polls \in Nat
  BY Measures DEF LogInv, ReadLine
<1>2. /\ i \in 1..Len(log) /\ last \in Nat /\ pos < last /\ last <= 2 * i
      /\ last <= Size /\ (pos % 2 = 0 => pos = 2 * (i - 1))
      /\ last # 2 * i => last = Size
  BY <1>1
<1>3. pos < 2 * before => pos % 2 = 0 /\ i \in 1..before /\ last = 2 * i
  <2>1. pos < 2 * before => pos % 2 # 1
    BY <1>1 DEF ReadInv, BeyondBefore
  <2> QED BY <1>1, <1>2, <2>1
<1>4. /\ UNCHANGED <<logVars, polls, before, result>>
      /\ pos' = last
      /\ poller' = IF last = 2 * i THEN "reading" ELSE "at_end"
      /\ (pos % 2 = 0 /\ last = 2 * i) => found' = found \cup said
      /\ \/ found' = found \cup said /\ progressed' = (progressed \/ said \ found # {})
         \/ found' = found /\ progressed' = (progressed \/ {} \ found # {})
  BY DEF ReadLine, Find
<1> HIDE DEF i, last, said
<1>5. found \subseteq found' /\ found' \subseteq found \cup said
  BY <1>4
<1>6. said \subseteq Signals \cap Logged
  BY <1>2 DEF said, Logged
<1>7. TypeOK'
  <2>1. Size' = Size /\ log' = log
    BY <1>4 DEF Size, logVars
  <2>2. pos' \in 0..Size'
    BY <1>1, <1>2, <1>4, <2>1
  <2>3. progressed' \in BOOLEAN
    BY <1>4
  <2> QED BY <1>4, <1>5, <1>6, <2>1, <2>2, <2>3 DEF TypeOK, logVars
<1>8. LogInv'
  BY <1>4, <1>5, <1>6 DEF LogInv, logVars, Logged, Whole
<1>9. ReadInv'
  <2>1. pos >= 2 * before => pos' >= 2 * before'
    BY <1>1, <1>2, <1>4
  <2>2. pos < 2 * before => pos' % 2 = 0 /\ poller' = "reading"
    <3>1. 2 * i % 2 = 0
      BY <1>2
    <3> QED BY <1>3, <1>4, <3>1
  <2>3. \A k \in 1..before' : 2 * k <= pos' /\ log'[k] \in Signals => log'[k] \in found'
    <3> SUFFICES ASSUME NEW k \in 1..before, 2 * k <= last, log[k] \in Signals
                 PROVE  log[k] \in found'
      BY <1>4 DEF logVars
    <3>1. CASE 2 * k <= pos
      BY <1>5, <3>1 DEF ReadInv
    <3>2. CASE pos < 2 * k
      <4>1. pos < 2 * before
        BY <1>1, <3>2
      <4>2. pos = 2 * (i - 1) /\ last = 2 * i /\ i \in Nat /\ k \in Nat
        BY <1>1, <1>2, <1>3, <4>1
      <4>3. k = i
        BY <3>2, <4>2
      <4> QED BY <1>3, <1>4, <4>1, <4>3 DEF said
    <3> QED BY <1>1, <3>1, <3>2
  <2>4. /\ poller' \in {"reading", "at_end"} /\ result' = result /\ result = "none"
        /\ polls' = polls /\ polls # 0
    BY <1>1, <1>4 DEF EndInv, ReadInv
  <2>5. pos' >= 2 * before' \/ (pos' % 2 = 0 /\ poller' = "reading")
    BY <1>1, <2>1, <2>2
  <2>6. pos' % 2 = 0 => pos' % 2 # 1
    OBVIOUS
  <2> QED BY <2>3, <2>4, <2>5, <2>6 DEF ReadInv, BeyondBefore
<1>10. EndInv'
  BY <1>1, <1>4 DEF EndInv
<1> QED BY <1>7, <1>8, <1>9, <1>10

-----------------------------------------------------------------------------
(* The theorems.                                                           *)

LEMMA StepSound ==
  ASSUME Inv, [Next]_vars
  PROVE  Inv'
<1>1. CASE Server
  BY <1>1, ServerSound
<1>2. CASE PollerRuns
  BY <1>2, StartSound, PollSound, ReadLineSound, SeekEndSound, CheckSound DEF PollerRuns
<1>3. CASE Ended \/ UNCHANGED vars
  <2> USE <1>3 DEF Inv, Ended, vars, logVars, pollerVars
  <2>1. TypeOK' /\ LogInv'
    BY DEF TypeOK, Size, LogInv, Whole, Logged
  <2>2. ReadInv' /\ EndInv'
    BY DEF ReadInv, BeyondBefore, EndInv, Passed, SaidBefore
  <2> QED BY <2>1, <2>2
<1> QED BY <1>1, <1>2, <1>3 DEF Next

\* The invariant the theorems after it rest on holds of every verification.
THEOREM Invariance == Spec => []Inv
<1>1. Init => Inv
  BY InvInitially
<1>2. Inv /\ [Next]_vars => Inv'
  BY StepSound
<1> QED BY <1>1, <1>2, PTL DEF Spec

\* Every variable keeps a value the code can give it: lastPos never lies beyond
\* the log and no poll begins after the deadline, for any log and deadline.
THEOREM TypeCorrect == Spec => []TypeOK
<1>1. Inv => TypeOK
  BY DEF Inv
<1> QED BY <1>1, Invariance, PTL

\* A job whose signals were in the log when the verification began is not given
\* up as stalled or timed out once the log was read.
THEOREM PrintedJobsAreVerified == Spec => []PrintedIsVerified
<1>1. Inv => PrintedIsVerified
  BY Measures DEF Inv, EndInv, PrintedIsVerified
<1> QED BY <1>1, Invariance, PTL

\* A print is verified only if the log holds its three signals and had not said
\* when the verification began that the job failed or was cancelled.
THEOREM PassesAreTrue == Spec => []PassIsTrue
<1>1. Inv => PassIsTrue
  <2> SUFFICES ASSUME Inv, result = "passed"
               PROVE  Required \subseteq Logged /\ SaidBefore \cap Failing = {}
    BY DEF PassIsTrue
  <2>1. /\ Required \subseteq found /\ found \cap Failing = {}
        /\ found \subseteq Logged /\ pos >= 2 * before
    BY DEF Inv, EndInv, Passed, LogInv, ReadInv, BeyondBefore
  <2>2. pos \in Nat /\ before \in Nat
    BY Measures DEF Inv
  <2>3. \A i \in 1..before : 2 * i <= pos
    BY <2>1, <2>2
  <2>4. SaidBefore \cap Signals \subseteq found
    BY <2>3 DEF Inv, ReadInv, SaidBefore
  <2> QED BY <2>1, <2>4 DEF Signals
<1> QED BY <1>1, Invariance, PTL

=============================================================================
