---------------------------- MODULE AdapterProofs ----------------------------
(***************************************************************************)
(* Safety of the adapter's job, for pipes of any size and any number of    *)
(* lines.                                                                  *)
(***************************************************************************)
EXTENDS Adapter, SequenceTheorems, TLAPS

Inv == TypeOK /\ RecordInv /\ ProcessInv /\ PipeInv

Todo == [to : {"out", "err"}, line : Lines]

-----------------------------------------------------------------------------
(* Lines and sequences of them.                                            *)

LEMMA LinesAreLines ==
  /\ Text \in Lines
  /\ \A e \in {"none", "created", "completed", "failed"}, c \in Codes \cup {"none"} :
       Line(e, c) \in Lines
BY DEF Text, Line, Lines

LEMMA HeadIsMember ==
  ASSUME NEW S, NEW s \in Seq(S), s # <<>>
  PROVE  /\ 1 \in DOMAIN s /\ Head(s) = s[1] /\ Head(s) \in S
         /\ Tail(s) \in Seq(S) /\ Len(Tail(s)) = Len(s) - 1
         /\ \A i \in DOMAIN Tail(s) : i + 1 \in DOMAIN s /\ Tail(s)[i] = s[i + 1]
<1>1. Len(s) \in Nat /\ Len(s) # 0
  OBVIOUS
<1> QED BY <1>1

LEMMA AppendIsMember ==
  ASSUME NEW s \in Seq(Lines), NEW e \in Lines
  PROVE  /\ Append(s, e) \in Seq(Lines) /\ Len(Append(s, e)) = Len(s) + 1
         /\ \A i \in DOMAIN Append(s, e) :
              \/ i \in DOMAIN s /\ Append(s, e)[i] = s[i]
              \/ i = Len(s) + 1 /\ Append(s, e)[i] = e
         /\ \A i \in DOMAIN s : i < Len(s) + 1
  OBVIOUS

LEMMA InvInitially == Init => Inv
<1> SUFFICES ASSUME Init PROVE Inv
  OBVIOUS
<1> USE PipeAssumption, BoundsAssumption DEF Init, RipInit
<1>1. TypeOK
  <2>1. RipTypeOK
    <3>1. /\ \A S : <<>> \in Seq(S)
          /\ Len(<<>>) <= PipeSize
      OBVIOUS
    <3>2. progress \in 0..MaxProgress /\ warnings \in 0..MaxStderr
      OBVIOUS
    <3> QED BY <3>1, <3>2 DEF RipTypeOK
  <2> QED BY <2>1 DEF TypeOK, NoCopy
<1>2. RecordInv
  BY DEF RecordInv, NoCopy, Terminal
<1>3. ProcessInv
  BY DEF ProcessInv
<1>4. PipeInv
  BY DEF PipeInv, Terminal
<1> QED BY <1>1, <1>2, <1>3, <1>4 DEF Inv

-----------------------------------------------------------------------------
(* The process's steps.                                                    *)

\* A line goes into a pipe.
LEMMA WriteLineSound ==
  ASSUME Inv, WriteLine, UNCHANGED <<record, thread, copy>>
  PROVE  Inv'
<1> USE DEF Inv, record
<1>1. todo \in Seq(Todo) /\ todo # <<>> /\ out \in Seq(Lines) /\ err \in Seq(Lines)
  BY DEF TypeOK, RipTypeOK, WriteLine, Todo
<1>2. /\ 1 \in DOMAIN todo /\ Head(todo) = todo[1] /\ Head(todo) \in Todo
      /\ todo' \in Seq(Todo)
      /\ \A i \in DOMAIN todo' : i + 1 \in DOMAIN todo /\ todo'[i] = todo[i + 1]
  BY <1>1, HeadIsMember DEF WriteLine
<1>3. Head(todo).line \in Lines /\ Text \in Lines /\ Text.event = "none"
  BY <1>2, LinesAreLines DEF Text, Todo
<1>4. /\ rip' = rip /\ verdict' = verdict /\ exitCode' = exitCode /\ late' = late
      /\ progress' = progress /\ warnings' = warnings
  BY DEF WriteLine
<1>5. RecordInv' /\ ProcessInv'
  BY <1>4 DEF RecordInv, ProcessInv
<1>6. ASSUME NEW line \in {Head(todo).line, Text}, Len(out) < PipeSize,
             out' = Append(out, line), err' = err
      PROVE  Inv'
  <2>1. /\ out' \in Seq(Lines) /\ Len(out') = Len(out) + 1
        /\ \A i \in DOMAIN out' :
             \/ i \in DOMAIN out /\ out'[i] = out[i]
             \/ i = Len(out) + 1 /\ out'[i] = line
        /\ \A i \in DOMAIN out : i < Len(out) + 1
    <3>1. line \in Lines
      BY <1>3
    <3> QED BY <1>1, <1>6, <3>1, AppendIsMember
  <2>2. TypeOK'
    BY <1>2, <1>4, <1>6, <2>1, PipeAssumption DEF TypeOK, RipTypeOK, Todo
  <2>3. line.event \in Terminal => line = todo[1].line
    BY <1>2, <1>3, <1>6 DEF Terminal
  <2>4. (\A i \in DOMAIN out : Agrees(out[i]))'
    BY <1>2, <1>4, <2>1, <2>3 DEF PipeInv, Agrees, Terminal
  <2>5. (\A i \in DOMAIN todo : Agrees(todo[i].line))'
    BY <1>2, <1>4 DEF PipeInv, Agrees, Terminal
  <2>6. line.event \in {todo[1].line.event, "none"}
    BY <1>2, <1>3, <1>6
  <2>7. \A i, j \in DOMAIN out' :
          i < j /\ out'[i].event \in Terminal => out'[j].event = "none"
    BY <1>2, <2>1, <2>6 DEF PipeInv
  <2>8. \A i \in DOMAIN todo' : 1 < i + 1
    BY <1>2
  <2>9. \A i \in DOMAIN out', j \in DOMAIN todo' :
          out'[i].event \in Terminal => todo'[j].line.event = "none"
    BY <1>2, <2>1, <2>3, <2>8 DEF PipeInv
  <2>10. \A i, j \in DOMAIN todo' :
          i < j /\ todo'[i].line.event \in Terminal => todo'[j].line.event = "none"
    BY <1>2 DEF PipeInv
  <2>11. (status \in Terminal /\ thread = "stdout")' =>
           /\ verdict' # "none"
           /\ \A i \in DOMAIN out' : out'[i].event = "none"
           /\ \A i \in DOMAIN todo' : todo'[i].line.event = "none"
    BY <1>2, <1>4, <2>1, <2>6 DEF PipeInv
  <2>12. PipeInv'
    BY <1>6, <2>4, <2>5, <2>7, <2>9, <2>10, <2>11 DEF PipeInv
  <2> QED BY <1>5, <2>2, <2>12
<1>7. ASSUME Len(err) < PipeSize, err' = Append(err, Text), out' = out
      PROVE  Inv'
  <2>1. /\ err' \in Seq(Lines) /\ Len(err') = Len(err) + 1
        /\ \A i \in DOMAIN err' : err'[i] = Text \/ (i \in DOMAIN err /\ err'[i] = err[i])
    BY <1>1, <1>3, <1>7, AppendIsMember
  <2>2. TypeOK'
    BY <1>2, <1>4, <1>7, <2>1, PipeAssumption DEF TypeOK, RipTypeOK, Todo
  <2>3. PipeInv'
    BY <1>2, <1>4, <1>7, <2>1 DEF PipeInv, Agrees, Terminal
  <2> QED BY <1>5, <2>2, <2>3
<1> QED BY <1>6, <1>7 DEF WriteLine

\* While main is on its way nothing has ended the job, so it may go on and write
\* any lines of which only the last one ends the job, if one does.
LEMMA NextLinesSound ==
  ASSUME Inv, rip \in {"setup", "session", "verify"}, todo = <<>>,
         UNCHANGED <<out, err, record, thread, copy>>,
         rip' \in {"session", "verify", "exiting"},
         exitCode' \in {"zero", "nonzero"}, verdict' \in {"none", "ok", "help", "failed"},
         verdict' # "none" => rip' = "exiting",
         rip' = "exiting" /\ exitCode' = "zero" => verdict' \in {"ok", "help"},
         late' \in BOOLEAN, progress' \in 0..MaxProgress, warnings' \in 0..MaxStderr,
         todo' \in Seq(Todo),
         \A i \in DOMAIN todo' :
           /\ todo'[i].line.event \in Terminal => i = Len(todo') /\ verdict' # "none"
           /\ todo'[i].line.event = "completed" => verdict' = "ok"
  PROVE  Inv'
<1> USE DEF Inv, record
<1>1. verdict = "none"
  BY DEF ProcessInv, TypeOK, RipTypeOK
<1>2. TypeOK'
  BY DEF TypeOK, RipTypeOK, Todo
<1>3. RecordInv'
  BY <1>1 DEF RecordInv
<1>4. ProcessInv'
  BY DEF ProcessInv
<1>5. PipeInv'
  <2>1. \A i \in DOMAIN out : out[i].event \notin Terminal
    BY <1>1 DEF PipeInv, Agrees
  <2>2. ~(status \in Terminal /\ thread = "stdout")
    BY <1>1 DEF PipeInv
  <2>3. (\A i \in DOMAIN out : Agrees(out[i]))'
    BY <2>1 DEF Agrees, Terminal
  <2>4. (\A i \in DOMAIN todo : Agrees(todo[i].line))'
    BY DEF Agrees
  <2>5. \A i, j \in DOMAIN todo' :
          i < j => todo'[i].line.event \notin Terminal
    <3>1. \A i, j \in DOMAIN todo' : i < j => i # Len(todo')
      OBVIOUS
    <3> QED BY <3>1
  <2> QED BY <2>1, <2>2, <2>3, <2>4, <2>5 DEF PipeInv
<1> QED BY <1>2, <1>3, <1>4, <1>5

\* The lists of lines main writes.
LEMMA ListsOfLines ==
  /\ <<>> \in Seq(Todo)
  /\ ToErr \in Todo /\ ToErr.line.event = "none"
  /\ <<ToErr>> \in Seq(Todo) /\ Len(<<ToErr>>) = 1
  /\ \A e \in {"none", "created", "completed", "failed"}, c \in Codes \cup {"none"} :
       /\ ToOut(Line(e, c)) \in Todo /\ ToOut(Line(e, c)).line.event = e
       /\ <<ToOut(Line(e, c))>> \in Seq(Todo) /\ Len(<<ToOut(Line(e, c))>>) = 1
  /\ \A c \in Codes :
       /\ FailLines(c) \in Seq(Todo) /\ Len(FailLines(c)) = 3
       /\ FailLines(c)[1].line.event = "none" /\ FailLines(c)[2].line.event = "none"
       /\ FailLines(c)[3].line.event = "failed"
<1>1. ToErr \in Todo /\ ToErr.line.event = "none"
  BY LinesAreLines DEF ToErr, Todo, Text
<1>2. ASSUME NEW e \in {"none", "created", "completed", "failed"}, NEW c \in Codes \cup {"none"}
      PROVE  ToOut(Line(e, c)) \in Todo /\ ToOut(Line(e, c)).line.event = e
  <2>1. Line(e, c) \in Lines
    BY LinesAreLines
  <2> QED BY <2>1 DEF ToOut, Todo, Line
<1>3. ASSUME NEW c \in Codes
      PROVE  /\ FailLines(c) \in Seq(Todo) /\ Len(FailLines(c)) = 3
             /\ FailLines(c)[1].line.event = "none" /\ FailLines(c)[2].line.event = "none"
             /\ FailLines(c)[3].line.event = "failed"
  <2> DEFINE a == ToOut(Line("none", c))
             b == ToOut(Line("failed", c))
  <2>1. /\ a \in Todo /\ a.line.event = "none"
        /\ b \in Todo /\ b.line.event = "failed"
    BY <1>2
  <2>2. FailLines(c) = <<ToErr, a, b>>
    BY DEF FailLines
  <2> HIDE DEF a, b
  <2> QED BY <1>1, <2>1, <2>2
<1> QED BY <1>1, <1>2, <1>3

\* return fail(c, ...), from wherever main has come.
LEMMA FailSound ==
  ASSUME Inv, rip \in {"setup", "session", "verify"}, todo = <<>>, NEW c \in Codes,
         Fail(c), late' \in BOOLEAN, UNCHANGED <<record, thread, copy>>
  PROVE  Inv'
<1>1. progress \in 0..MaxProgress /\ warnings \in 0..MaxStderr
  BY DEF Inv, TypeOK, RipTypeOK
<1>2. /\ todo' \in Seq(Todo)
      /\ \A i \in DOMAIN todo' :
           /\ todo'[i].line.event \in Terminal => i = Len(todo') /\ verdict' # "none"
           /\ todo'[i].line.event = "completed" => verdict' = "ok"
  <2>1. todo' = FailLines(c) /\ verdict' = "failed"
    BY DEF Fail
  <2>2. DOMAIN FailLines(c) = 1..3
    BY ListsOfLines
  <2> QED BY <2>1, <2>2, ListsOfLines DEF Terminal
<1> QED BY <1>1, <1>2, NextLinesSound DEF Fail

LEMMA CompleteSound ==
  ASSUME Inv, rip \in {"setup", "session", "verify"}, todo = <<>>,
         Complete, UNCHANGED <<record, thread, copy>>
  PROVE  Inv'
<1>1. progress \in 0..MaxProgress /\ warnings \in 0..MaxStderr /\ late \in BOOLEAN
  BY DEF Inv, TypeOK, RipTypeOK
<1>2. /\ todo' \in Seq(Todo)
      /\ \A i \in DOMAIN todo' : i = Len(todo')
    BY ListsOfLines DEF Complete
<1> QED BY <1>1, <1>2, NextLinesSound DEF Complete

\* The process's steps but writing a line and exiting: it writes one more line,
\* or fails, or completes.
LEMMA MainSound ==
  ASSUME Inv, UNCHANGED <<record, thread, copy>>,
         ShowHelp \/ SetUp \/ LogProgress \/ LogWarning \/ SessionFails
           \/ LegacyFails \/ SessionSucceeds \/ Verify
  PROVE  Inv'
<1>1. /\ rip \in {"setup", "session", "verify"} /\ todo = <<>>
      /\ StandardCodes \subseteq Codes
  BY DEF At, ShowHelp, SetUp, LogProgress, LogWarning, SessionFails, LegacyFails,
         SessionSucceeds, Verify, Codes
<1>2. /\ progress \in 0..MaxProgress /\ warnings \in 0..MaxStderr /\ late \in BOOLEAN
      /\ verdict = "none" /\ exitCode \in {"zero", "nonzero"}
  BY <1>1 DEF Inv, TypeOK, RipTypeOK, ProcessInv
<1>3. <<>> \in Seq(Todo) /\ <<ToErr>> \in Seq(Todo)
  BY ListsOfLines
<1>4. CASE ShowHelp
  <2>1. /\ rip' = "exiting" /\ verdict' = "help" /\ todo' = <<>>
        /\ exitCode' = exitCode /\ late' = late /\ progress' = progress
        /\ warnings' = warnings /\ out' = out /\ err' = err
    BY <1>1, <1>4 DEF ShowHelp
  <2> QED BY <1>1, <1>2, <1>3, <2>1, NextLinesSound
<1>5. CASE SetUp
  <2>1. ASSUME NEW c \in {"RIP_INVALID_ARGS", "RIP_RUNTIME_EXCEPTION"}, Fail(c), late' = late
        PROVE  Inv'
    BY <1>1, <1>2, <2>1, FailSound DEF StandardCodes
  <2>2. CASE Complete
    BY <1>1, <2>2, CompleteSound
  <2>3. ASSUME rip' = "session", todo' = <<ToOut(Line("created", "none"))>>,
               UNCHANGED <<exitCode, verdict, late, progress, warnings, out, err>>
        PROVE  Inv'
    <3>1. /\ todo' \in Seq(Todo)
          /\ \A i \in DOMAIN todo' : todo'[i].line.event = "created"
      BY <2>3, ListsOfLines
    <3> QED BY <1>1, <1>2, <2>3, <3>1, NextLinesSound DEF Terminal
  <2> QED BY <1>5, <2>1, <2>2, <2>3 DEF SetUp
<1>6. CASE LogProgress
  <2>1. /\ todo' \in Seq(Todo)
        /\ \A i \in DOMAIN todo' : todo'[i].line.event = "none"
    BY <1>6, ListsOfLines DEF LogProgress, Codes
  <2>2. progress' \in 0..MaxProgress
    BY <1>2, <1>6, BoundsAssumption DEF LogProgress
  <2> QED BY <1>1, <1>2, <1>6, <2>1, <2>2, NextLinesSound DEF LogProgress, At, Terminal
<1>7. CASE LogWarning
  <2>1. /\ todo' \in Seq(Todo)
        /\ \A i \in DOMAIN todo' : todo'[i].line.event = "none"
    BY <1>7, ListsOfLines DEF LogWarning
  <2>2. warnings' \in 0..MaxStderr
    BY <1>2, <1>7, BoundsAssumption DEF LogWarning
  <2>3. rip' \in {"session", "verify"}
    BY <1>7 DEF LogWarning, At
  <2> QED BY <1>1, <1>2, <1>7, <2>1, <2>2, <2>3, NextLinesSound DEF LogWarning, Terminal
<1>8. CASE SessionFails
  BY <1>1, <1>8, FailSound DEF SessionFails, StandardCodes
<1>9. CASE LegacyFails
  <2>1. /\ todo' \in Seq(Todo)
        /\ \A i \in DOMAIN todo' : todo'[i].line.event = "none"
    BY <1>9, ListsOfLines DEF LegacyFails
  <2> QED BY <1>1, <1>2, <1>9, <2>1, NextLinesSound DEF LegacyFails, Terminal
<1>10. CASE SessionSucceeds
  <2>1. /\ rip' = "verify" /\ verdict' = verdict /\ todo' = <<>>
        /\ exitCode' = exitCode /\ late' = late /\ progress' = progress
        /\ warnings' = warnings /\ out' = out /\ err' = err
    BY <1>1, <1>10 DEF SessionSucceeds
  <2> QED BY <1>1, <1>2, <1>3, <2>1, NextLinesSound
<1>11. CASE Verify
  <2>1. ASSUME NEW c \in {"RIP_VERIFICATION_FAILED", "RIP_RUNTIME_EXCEPTION"}, Fail(c), late' = late
        PROVE  Inv'
    BY <1>1, <1>2, <2>1, FailSound DEF StandardCodes
  <2> QED BY <1>1, <1>11, <2>1, CompleteSound DEF Verify
<1> QED
  BY <1>4, <1>5, <1>6, <1>7, <1>8, <1>9, <1>10, <1>11

\* The process ends, in its own time or not.
LEMMA EndSound ==
  ASSUME Inv, RipExits \/ RipCrashes, UNCHANGED <<record, thread, copy>>
  PROVE  Inv'
<1> USE DEF Inv, record
<1>1. /\ rip \notin {"none", "exited"} /\ rip' = "exited" /\ verdict' = verdict
      /\ out' = out /\ err' = err /\ todo' = <<>> /\ todo' \in Seq(Todo)
      /\ late' = late /\ progress' = progress /\ warnings' = warnings
      /\ exitCode' \in {"zero", "nonzero"}
  BY ListsOfLines DEF TypeOK, RipTypeOK, RipExits, RipCrashes, At, Alive
<1>2. TypeOK'
  BY <1>1 DEF TypeOK, RipTypeOK, Todo
<1>3. RecordInv'
  BY <1>1 DEF RecordInv
<1>4. ProcessInv'
  BY <1>1 DEF ProcessInv, RipExits, RipCrashes, At
<1>5. PipeInv'
  BY <1>1 DEF PipeInv, Agrees
<1> QED BY <1>2, <1>3, <1>4, <1>5

LEMMA RipSound ==
  ASSUME Inv, Rip
  PROVE  Inv'
BY WriteLineSound, MainSound, EndSound DEF Rip, RipSteps, RipRuns

-----------------------------------------------------------------------------
(* The adapter's steps.                                                    *)

\* Steps that touch neither the process nor its pipes.
LEMMA RecordStepSound ==
  ASSUME Inv,
         Register \/ StartJob \/ StartJobFails \/ ThreadRuns \/ LaunchFails
           \/ StdoutEnds \/ StderrEnds \/ WaitReturns \/ CopyRecord \/ Answer
  PROVE  Inv'
<1> USE DEF Inv, record
<1>1. UNCHANGED ripVars
  BY DEF Register, StartJob, StartJobFails, ThreadRuns, LaunchFails, StdoutEnds,
         StderrEnds, WaitReturns, CopyRecord, Answer
<1>2. TypeOK'
  <2>1. RipTypeOK'
    BY <1>1 DEF TypeOK, RipTypeOK, ripVars
  <2> USE <2>1 DEF TypeOK, Terminal, Codes, StandardCodes, NoCopy
  <2>2. CASE Register \/ StartJob \/ ThreadRuns \/ StdoutEnds \/ StderrEnds
    BY <2>2 DEF Register, StartJob, ThreadRuns, StdoutEnds, StderrEnds
  <2>3. CASE StartJobFails
    BY <2>3 DEF StartJobFails
  <2>4. CASE LaunchFails
    BY <2>4 DEF LaunchFails
  <2>5. CASE WaitReturns
    <3>1. exitCode \in {"zero", "nonzero"}
      BY DEF RipTypeOK
    <3> QED BY <2>5, <3>1 DEF WaitReturns
  <2>6. CASE CopyRecord \/ Answer
    BY <2>6 DEF CopyRecord, Answer
  <2> QED
    BY <2>2, <2>3, <2>4, <2>5, <2>6
<1>3. RecordInv'
  BY <1>1 DEF RecordInv, ProcessInv, TypeOK, RipTypeOK, ripVars, Terminal, NoCopy,
      Register, StartJob, StartJobFails, ThreadRuns, LaunchFails, StdoutEnds,
      StderrEnds, WaitReturns, CopyRecord, Answer
<1>4. ProcessInv'
  BY <1>1 DEF ProcessInv, ripVars,
      Register, StartJob, StartJobFails, ThreadRuns, LaunchFails, StdoutEnds,
      StderrEnds, WaitReturns, CopyRecord, Answer
<1>5. PipeInv'
  <2>1. thread' = "stdout" => thread = "stdout" /\ status' = status
    BY DEF Register, StartJob, StartJobFails, ThreadRuns, LaunchFails, StdoutEnds,
      StderrEnds, WaitReturns, CopyRecord, Answer
  <2> QED BY <1>1, <2>1 DEF PipeInv, Agrees, ripVars
<1> QED BY <1>2, <1>3, <1>4, <1>5

LEMMA LaunchSound ==
  ASSUME Inv, Launch
  PROVE  Inv'
<1> USE DEF Inv, record, Launch, RipStarts
<1>1. TypeOK'
  BY DEF TypeOK, RipTypeOK
<1>2. RecordInv'
  BY DEF RecordInv
<1>3. ProcessInv'
  BY DEF ProcessInv
<1>4. PipeInv'
  BY DEF PipeInv, Agrees, RecordInv
<1> QED BY <1>1, <1>2, <1>3, <1>4

\* What reading a line does to the record.
LEMMA ConsumeLineEffect ==
  ASSUME TypeOK, RecordInv, NEW line \in Lines, ConsumeLine(line),
         line.event = "completed" => verdict = "ok",
         thread \in {"stdout", "stderr"},
         UNCHANGED <<verdict, thread, copy>>
  PROVE  /\ RecordInv'
         /\ status' \in {"none", "queued", "running", "preparing"} \cup Terminal
         /\ events' \subseteq {"created", "completed", "failed"}
         /\ code' \in Codes \cup {"none"} /\ exit' = exit
         /\ line.event = "none" => status' = status
         /\ status' \in Terminal => status' = line.event \/ status' = status
<1>1. /\ line.event \in {"none", "created", "completed", "failed"}
      /\ line.code \in Codes \cup {"none"}
  BY DEF Lines
<1>2. exit = "none"
  BY DEF RecordInv
<1> QED BY <1>1, <1>2
  DEF TypeOK, RecordInv, ConsumeLine, StatusAfter, CodeAfter, Terminal

\* A line leaves a pipe.
LEMMA ReadStdoutSound ==
  ASSUME Inv, ReadStdout
  PROVE  Inv' /\ (status \in Terminal => status' = status)
<1> USE DEF Inv
<1> DEFINE line == Head(out)
<1>1. out \in Seq(Lines) /\ out # <<>> /\ out' = Tail(out)
  BY DEF ReadStdout, TypeOK, RipTypeOK
<1>2. /\ 1 \in DOMAIN out /\ line = out[1] /\ line \in Lines
      /\ out' \in Seq(Lines) /\ Len(out') = Len(out) - 1
      /\ \A i \in DOMAIN out' : i + 1 \in DOMAIN out /\ out'[i] = out[i + 1] /\ 1 < i + 1
  BY <1>1, HeadIsMember
<1>3. /\ line.event \in Terminal => verdict # "none"
      /\ line.event = "completed" => verdict = "ok"
  BY <1>2 DEF PipeInv, Agrees
<1>4. /\ ConsumeLine(line) /\ thread = "stdout" /\ thread' = thread /\ copy' = copy
      /\ rip' = rip /\ todo' = todo /\ exitCode' = exitCode /\ verdict' = verdict
      /\ late' = late /\ progress' = progress /\ warnings' = warnings /\ err' = err
  BY DEF ReadStdout
<1> HIDE DEF line
<1>5. /\ RecordInv'
      /\ status' \in {"none", "queued", "running", "preparing"} \cup Terminal
      /\ events' \subseteq {"created", "completed", "failed"}
      /\ code' \in Codes \cup {"none"} /\ exit' = exit
      /\ line.event = "none" => status' = status
      /\ status' \in Terminal => status' = line.event \/ status' = status
  BY <1>2, <1>3, <1>4, ConsumeLineEffect
<1>6. TypeOK'
  <2>1. RipTypeOK'
    <3>1. Len(out') <= PipeSize
      BY <1>1, <1>2, PipeAssumption DEF TypeOK, RipTypeOK
    <3> QED BY <1>2, <1>4, <3>1 DEF TypeOK, RipTypeOK
  <2> QED BY <1>4, <1>5, <2>1 DEF TypeOK
<1>7. ProcessInv'
  BY <1>4 DEF ProcessInv
<1>8. status \in Terminal => status' = status
  BY <1>2, <1>4, <1>5 DEF PipeInv
<1>9. PipeInv'
  <2>1. (\A i \in DOMAIN out : Agrees(out[i]))'
    BY <1>2, <1>4 DEF PipeInv, Agrees
  <2>2. \A i, j \in DOMAIN out' :
          i < j /\ out'[i].event \in Terminal => out'[j].event = "none"
    <3>1. \A i, j \in DOMAIN out' : i < j => i + 1 < j + 1
      BY <1>2
    <3> QED BY <1>2, <3>1 DEF PipeInv
  <2>3. (status \in Terminal)' =>
          /\ verdict' # "none"
          /\ \A i \in DOMAIN out' : out'[i].event = "none"
          /\ \A i \in DOMAIN todo' : todo'[i].line.event = "none"
    <3>1. CASE status' = status
      BY <1>2, <1>4, <3>1 DEF PipeInv
    <3>2. CASE line.event \in Terminal
      BY <1>2, <1>3, <1>4, <3>2 DEF PipeInv
    <3> QED BY <1>5, <3>1, <3>2
  <2> QED BY <1>2, <1>4, <2>1, <2>2, <2>3 DEF PipeInv, Agrees
<1> QED BY <1>5, <1>6, <1>7, <1>8, <1>9

LEMMA ReadStderrSound ==
  ASSUME Inv, ReadStderr
  PROVE  Inv' /\ status' = status
<1> USE DEF Inv
<1> DEFINE line == Head(err)
<1>1. err \in Seq(Lines) /\ err # <<>> /\ err' = Tail(err)
  BY DEF ReadStderr, TypeOK, RipTypeOK
<1>2. /\ 1 \in DOMAIN err /\ line = err[1] /\ line \in Lines
      /\ err' \in Seq(Lines) /\ Len(err') = Len(err) - 1
      /\ \A i \in DOMAIN err' : i + 1 \in DOMAIN err /\ err'[i] = err[i + 1]
  BY <1>1, HeadIsMember
<1>3. line.event = "none"
  BY <1>2 DEF PipeInv, Text
<1>4. /\ ConsumeLine(line) /\ thread = "stderr" /\ thread' = thread /\ copy' = copy
      /\ rip' = rip /\ todo' = todo /\ exitCode' = exitCode /\ verdict' = verdict
      /\ late' = late /\ progress' = progress /\ warnings' = warnings /\ out' = out
  BY DEF ReadStderr
<1> HIDE DEF line
<1>5. /\ RecordInv'
      /\ status' \in {"none", "queued", "running", "preparing"} \cup Terminal
      /\ events' \subseteq {"created", "completed", "failed"}
      /\ code' \in Codes \cup {"none"} /\ exit' = exit /\ status' = status
  BY <1>2, <1>3, <1>4, ConsumeLineEffect
<1>6. TypeOK'
  <2>1. RipTypeOK'
    <3>1. Len(err') <= PipeSize
      BY <1>1, <1>2, PipeAssumption DEF TypeOK, RipTypeOK
    <3> QED BY <1>2, <1>4, <3>1 DEF TypeOK, RipTypeOK
  <2> QED BY <1>4, <1>5, <2>1 DEF TypeOK
<1>7. ProcessInv'
  BY <1>4 DEF ProcessInv
<1>8. PipeInv'
  BY <1>2, <1>4, <1>5 DEF PipeInv, Agrees
<1> QED BY <1>5, <1>6, <1>7, <1>8

-----------------------------------------------------------------------------
(* The theorems.                                                           *)

LEMMA StepSound ==
  ASSUME Inv, [Next]_vars
  PROVE  Inv' /\ (status \in Terminal => status' = status)
<1>1. CASE Rip
  BY <1>1, RipSound DEF Rip, RipSteps, record
<1>2. CASE Launch
  BY <1>2, LaunchSound DEF Launch, record
<1>3. CASE ReadStdout
  BY <1>3, ReadStdoutSound
<1>4. CASE ReadStderr
  BY <1>4, ReadStderrSound
<1>5. CASE \/ Register \/ StartJob \/ StartJobFails \/ ThreadRuns \/ LaunchFails
           \/ StdoutEnds \/ StderrEnds \/ WaitReturns \/ CopyRecord \/ Answer
  <2>1. Inv'
    BY <1>5, RecordStepSound
  <2>2. status \in Terminal => status' = status
    BY <1>5 DEF Inv, RecordInv, Terminal, record, Register, StartJob, StartJobFails,
      ThreadRuns, LaunchFails, StdoutEnds, StderrEnds, WaitReturns, CopyRecord, Answer
  <2> QED BY <2>1, <2>2
<1>6. CASE UNCHANGED vars
  <2> USE <1>6 DEF Inv, vars, record, ripVars
  <2>1. TypeOK'
    BY DEF TypeOK, RipTypeOK
  <2>2. RecordInv' /\ ProcessInv'
    BY DEF RecordInv, ProcessInv
  <2>3. PipeInv'
    BY DEF PipeInv, Agrees
  <2> QED BY <2>1, <2>2, <2>3
<1> QED
  BY <1>1, <1>2, <1>3, <1>4, <1>5, <1>6 DEF Next, RunJob

\* The invariant the theorems after it rest on holds of every job.
THEOREM Invariance == Spec => []Inv
<1>1. Init => Inv
  BY InvInitially
<1>2. Inv /\ [Next]_vars => Inv'
  BY StepSound
<1> QED BY <1>1, <1>2, PTL DEF Spec

\* Every variable keeps a value the code can give it, and no pipe holds more
\* than it has room for, however large it is.
THEOREM TypeCorrect == Spec => []TypeOK
<1>1. Inv => TypeOK
  BY DEF Inv
<1> QED BY <1>1, Invariance, PTL

\* A job is called completed only if the RIP found it to be, whatever the
\* pipes hold, whenever the process is killed and whatever garbles a line.
THEOREM CompletedJobsAreOk == Spec => []CompletedIsOk
<1>1. Inv => CompletedIsOk
  BY DEF Inv, RecordInv, CompletedIsOk
<1> QED BY <1>1, Invariance, PTL

\* A client told that a job ended is shown the event that ended it.
THEOREM AnswersShowTheEnd == Spec => []AnswerShowsEnd
<1>1. Inv => AnswerShowsEnd
  BY DEF Inv, RecordInv, AnswerShowsEnd
<1> QED BY <1>1, Invariance, PTL

\* A job whose exit code is known has ended.
THEOREM ExitSettlesJobs == Spec => []ExitSettles
<1>1. Inv => ExitSettles
  BY DEF Inv, RecordInv, ExitSettles
<1> QED BY <1>1, Invariance, PTL

\* No line, exit code or crash changes the end of a job that ended.
THEOREM EndsAreFinal == Spec => EndIsFinal
<1>1. Inv /\ [Next]_vars => [(status \in Terminal) => (status' = status)]_vars
  BY StepSound
<1> QED BY <1>1, Invariance, PTL DEF Spec, EndIsFinal

=============================================================================
