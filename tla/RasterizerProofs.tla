-------------------------- MODULE RasterizerProofs ---------------------------
(***************************************************************************)
(* Safety of Rasterizer for any number of calls and leftovers.  What a     *)
(* call leaves behind holds whatever is cleaned up.  That no cleanup takes *)
(* a file in use, and so that no bad page gets through, needs enough files *)
(* to be kept: the number is the count below.                              *)
(***************************************************************************)
EXTENDS Rasterizer, FiniteSetTheorems, TLAPS

-----------------------------------------------------------------------------
(* The directory.                                                          *)

\* A step that leaves c the parts P and no other call's files changed.
Effect(c, P) ==
  /\ StampInv'
  /\ PartsOf(c)' = P
  /\ \A d \in Calls \ {c} : PartsOf(d)' = PartsOf(d)

LEMMA FilesAreOfCalls ==
  ASSUME NEW c \in Calls, NEW part \in Parts
  PROVE  <<c, part>> \in Files /\ <<c, part>>[1] = c /\ c \notin Leftovers
  BY CallsAssumption DEF Files

LEMMA WrittenSound ==
  ASSUME TypeOK, StampInv, NEW c \in Calls, NEW P \in SUBSET Parts,
         files' = Written(c, P), now' = now
  PROVE  Effect(c, PartsOf(c) \cup P)
<1>1. Present' = Present \cup ({c} \X P)
  BY DEF Written, Present
<1>2. \A f \in Present' : files'[f] = IF f \in {c} \X P THEN now ELSE files[f]
  BY <1>1 DEF Written, Present
<1>3. \A f \in {c} \X P : f \in Files /\ f[1] = c /\ c \in Calls /\ c \notin Leftovers
  BY FilesAreOfCalls
<1>4. now \in 1..now
  BY ClockAssumption DEF TypeOK
<1>5. StampInv'
  BY <1>1, <1>2, <1>3, <1>4 DEF StampInv
<1>6. /\ PartsOf(c)' = PartsOf(c) \cup P
      /\ \A d \in Calls \ {c} : PartsOf(d)' = PartsOf(d)
  BY <1>1 DEF PartsOf, Has
<1> QED BY <1>5, <1>6 DEF Effect

LEMMA WithoutSound ==
  ASSUME StampInv, NEW c \in Calls, NEW P \in SUBSET Parts,
         files' = Without(c, P), now' = now
  PROVE  Effect(c, PartsOf(c) \ P)
<1>1. Present' = Present \ ({c} \X P)
  BY DEF Without, Restrict, Present
<1>2. \A f \in Present' : files'[f] = files[f]
  BY <1>1 DEF Without, Restrict, Present
<1>3. StampInv'
  BY <1>1, <1>2 DEF StampInv
<1>4. /\ PartsOf(c)' = PartsOf(c) \ P
      /\ \A d \in Calls \ {c} : PartsOf(d)' = PartsOf(d)
  BY <1>1 DEF PartsOf, Has
<1> QED BY <1>3, <1>4 DEF Effect

LEMMA ClosedSound ==
  ASSUME TypeOK, StampInv, NEW c \in Calls, NEW part \in Parts, NEW gone \in SUBSET Parts,
         Present' = Present \ ({c} \X gone),
         \A f \in Present' : files'[f] = Closed(c, part)[f],
         now' = now
  PROVE  Effect(c, PartsOf(c) \ gone)
<1>1. \A f \in Present' : files'[f] = IF f = <<c, part>> THEN now ELSE files[f]
  BY DEF Closed
<1>2. now \in 1..now
  BY ClockAssumption DEF TypeOK
<1>3. StampInv'
  BY <1>1, <1>2, FilesAreOfCalls DEF StampInv
<1>4. /\ PartsOf(c)' = PartsOf(c) \ gone
      /\ \A d \in Calls \ {c} : PartsOf(d)' = PartsOf(d)
  BY DEF PartsOf, Has
<1> QED BY <1>3, <1>4 DEF Effect

LEMMA UntouchedSound ==
  ASSUME StampInv, NEW c \in Calls, UNCHANGED <<files, now>>
  PROVE  Effect(c, PartsOf(c))
  BY DEF StampInv, Effect, PartsOf, Has, Present

LEMMA AttemptsFiles ==
  ASSUME NEW c
  PROVE  /\ Output(c) \in {"a1", "a2"} /\ Stderr(c) \in {"a1.stderr", "a2.stderr"}
         /\ Output(c) \in Parts /\ Stderr(c) \in Parts
  BY DEF Output, Stderr, Parts

-----------------------------------------------------------------------------
(* What a call leaves behind.                                              *)

Base == TypeOK /\ StampInv /\ TidyInv

\* What of Base follows from the files alone.
LEMMA FilesTyped ==
  ASSUME StampInv', now' \in 1..MaxNow
  PROVE  /\ Present' \subseteq Files
         /\ \A f \in Present' : files'[f] \in 0..now'
<1> SUFFICES ASSUME NEW f \in Present' PROVE f \in Files /\ files'[f] \in 0..now'
  OBVIOUS
<1>1. f \in Files /\ (f[1] \in Calls \/ f[1] \in Leftovers)
  BY DEF StampInv, Files
<1> QED BY <1>1, ClockAssumption DEF StampInv

\* A step of c keeps Base if it keeps the types and leaves c itself tidy.
LEMMA OthersTidy ==
  ASSUME Base, NEW c \in Calls, NEW P, Effect(c, P),
         /\ pc' \in [Calls -> Steps]
         /\ mode' \in [Calls -> {"cmyk", "mono"}]
         /\ attempt' \in [Calls -> 1..2]
         /\ source' \in [Calls -> BOOLEAN]
         /\ content' \in [Calls -> {"none", "whole", "short", "undrawn"}]
         /\ picture' \in [Calls -> {"none", "whole", "short", "undrawn", "unread"}]
         /\ doomed' \in [Calls -> SUBSET Files],
         now' = now,
         \A d \in Calls \ {c} :
           pc'[d] = pc[d] /\ mode'[d] = mode[d] /\ attempt'[d] = attempt[d],
         Tidy(c)'
  PROVE  Base'
<1>1. TypeOK'
  BY FilesTyped DEF Base, TypeOK, Effect
<1>2. \A d \in Calls \ {c} : Tidy(d)'
  BY DEF Base, TidyInv, Tidy, Holds, Output, Stderr, Effect
<1>3. TidyInv'
  BY <1>2 DEF TidyInv
<1> QED BY <1>1, <1>3 DEF Base, Effect

LEMMA BeginSound ==
  ASSUME Base, NEW c \in Calls, Begin(c)
  PROVE  Base'
<1> USE DEF Begin, Goto, Steps, Ended
<1>1. PartsOf(c) = {}
  BY DEF Base, TidyInv, Tidy, Holds
<1>2. CASE UNCHANGED files
  <2>1. Effect(c, {})
    BY <1>1, <1>2, UntouchedSound DEF Base
  <2>2. Tidy(c)'
    BY <1>2, <2>1 DEF Base, TypeOK, TidyInv, Tidy, Holds, Effect
  <2> QED BY <2>1, <2>2, OthersTidy DEF Base, TypeOK
<1>3. CASE Goto(c, "normalise") /\ files' = Written(c, {"pdf", "pdf.stderr"}) /\ UNCHANGED mode
  <2>1. Effect(c, {"pdf", "pdf.stderr"})
    BY <1>1, <1>3, WrittenSound DEF Base, Parts
  <2>2. Tidy(c)'
    BY <1>3, <2>1 DEF Base, TypeOK, TidyInv, Tidy, Holds, Effect
  <2> QED BY <1>3, <2>1, <2>2, OthersTidy DEF Base, TypeOK
<1> QED BY <1>2, <1>3

LEMMA EndNormaliseSound ==
  ASSUME Base, NEW c \in Calls, EndNormalise(c)
  PROVE  Base'
<1> USE DEF EndNormalise, Goto, Steps, Ended
<1>1. PartsOf(c) \subseteq {"pdf", "pdf.stderr"} /\ mode[c] = "cmyk"
  BY DEF Base, TidyInv, Tidy, Holds
<1>2. CASE Goto(c, "failed") /\ files' = Without(c, {"pdf", "pdf.stderr"})
  <2>1. Effect(c, {})
    <3>1. Effect(c, PartsOf(c) \ {"pdf", "pdf.stderr"})
      BY <1>2, WithoutSound DEF Base, Parts
    <3>2. PartsOf(c) \ {"pdf", "pdf.stderr"} = {}
      BY <1>1
    <3> QED BY <3>1, <3>2
  <2>2. Tidy(c)'
    BY <1>2, <2>1 DEF Base, TypeOK, TidyInv, Tidy, Holds, Effect
  <2> QED BY <1>2, <2>1, <2>2, OthersTidy DEF Base, TypeOK
<1>3. CASE /\ Goto(c, "scan")
           /\ files' = Restrict(Closed(c, "pdf"), Present \ {<<c, "pdf.stderr">>})
  <2>1. Effect(c, PartsOf(c) \ {"pdf.stderr"})
    <3>1. Present' = Present \ ({c} \X {"pdf.stderr"})
      BY <1>3 DEF Restrict, Present
    <3>2. \A f \in Present' : files'[f] = Closed(c, "pdf")[f]
      BY <1>3, <3>1 DEF Restrict, Present
    <3> QED BY <3>1, <3>2, ClosedSound DEF Base, Parts
  <2>2. Tidy(c)'
    BY <1>1, <1>3, <2>1 DEF Base, TypeOK, TidyInv, Tidy, Holds, Effect
  <2> QED BY <1>3, <2>1, <2>2, OthersTidy DEF Base, TypeOK
<1> QED BY <1>2, <1>3

\* What is doomed is a set of candidates.
LEMMA ScanSound ==
  ASSUME Base, NEW c \in Calls, Scan(c)
  PROVE  Base'
<1> USE DEF Scan, Goto, Steps, Ended
<1>1. Effect(c, PartsOf(c))
  BY UntouchedSound DEF Base
<1>2. Tidy(c)'
  BY <1>1 DEF Base, TypeOK, TidyInv, Tidy, Holds, Effect
<1>3. doomed' \in [Calls -> SUBSET Files]
  <2>1. \A D \in Doomable : D \subseteq Files
    BY DEF Doomable, Candidates, Base, TypeOK
  <2> QED BY <2>1 DEF Base, TypeOK
<1> QED BY <1>1, <1>2, <1>3, OthersTidy DEF Base, TypeOK

\* Another process only takes files away.
LEMMA SweepSound ==
  ASSUME Base, NEW c \in Calls, Sweep(c)
  PROVE  Base'
<1>1. PICK D \in SUBSET doomed[c] : files' = Restrict(files, Present \ D)
  BY DEF Sweep
<1>2. Present' = Present \ D /\ \A f \in Present' : files'[f] = files[f]
  BY <1>1 DEF Restrict, Present
<1>3. StampInv'
  BY <1>2 DEF Base, StampInv, Sweep
<1>4. TypeOK'
  BY <1>3, FilesTyped DEF Base, TypeOK, Sweep, Goto, Steps
<1>5. \A d \in Calls : PartsOf(d)' \subseteq PartsOf(d)
  BY <1>2 DEF PartsOf, Has
<1>6. ASSUME NEW d \in Calls PROVE Tidy(d)'
  <2>1. CASE d = c
    <3>1. pc[c] = "sweep" /\ pc'[c] = "estimate" /\ mode' = mode
      BY DEF Sweep, Goto, Base, TypeOK
    <3>2. PartsOf(c) \subseteq {"pdf"} /\ mode[c] = "cmyk"
      BY <3>1 DEF Base, TidyInv, Tidy, Holds
    <3> QED BY <1>5, <2>1, <3>1, <3>2 DEF Tidy, Holds
  <2>2. CASE d # c
    <3>1. pc'[d] = pc[d] /\ mode'[d] = mode[d] /\ attempt'[d] = attempt[d] /\ Tidy(d)
      BY <2>2 DEF Sweep, Goto, Base, TypeOK, TidyInv
    <3> QED BY <1>5, <3>1 DEF Tidy, Holds, Output, Stderr
  <2> QED BY <2>1, <2>2
<1> QED BY <1>3, <1>4, <1>6 DEF Base, TidyInv

LEMMA EstimateSound ==
  ASSUME Base, NEW c \in Calls, StartEstimate(c) \/ EndEstimate(c) \/ Preflight(c)
  PROVE  Base'
<1> USE DEF StartEstimate, EndEstimate, Preflight, Goto, Steps, Ended
<1>1. mode[c] = "cmyk" /\ PartsOf(c) \subseteq {"pdf", "bbox.stderr"}
  BY DEF Base, TidyInv, Tidy, Holds
<1>2. CASE StartEstimate(c)
  <2>1. Effect(c, PartsOf(c) \cup {"bbox.stderr"})
    BY <1>2, WrittenSound DEF Base, Parts
  <2>2. Tidy(c)'
    BY <1>1, <1>2, <2>1 DEF Base, TypeOK, TidyInv, Tidy, Holds, Effect
  <2>3. source' \in [Calls -> BOOLEAN]
    BY <1>2 DEF Base, TypeOK, Has
  <2> QED BY <1>2, <2>1, <2>2, <2>3, OthersTidy DEF Base, TypeOK
<1>3. CASE EndEstimate(c)
  <2>1. Effect(c, PartsOf(c) \ {"bbox.stderr"})
    BY <1>3, WithoutSound DEF Base, Parts
  <2>2. Tidy(c)'
    BY <1>1, <1>3, <2>1 DEF Base, TypeOK, TidyInv, Tidy, Holds, Effect
  <2> QED BY <1>3, <2>1, <2>2, OthersTidy DEF Base, TypeOK
<1>4. CASE Preflight(c)
  <2>1. Effect(c, PartsOf(c))
    BY <1>4, UntouchedSound DEF Base
  <2>2. Tidy(c)'
    BY <1>1, <1>4, <2>1 DEF Base, TypeOK, TidyInv, Tidy, Holds, Effect
  <2> QED BY <1>4, <2>1, <2>2, OthersTidy DEF Base, TypeOK
<1> QED BY <1>2, <1>3, <1>4

\* An attempt's files come with the Ghostscript that writes them.
LEMMA StartRasterSound ==
  ASSUME Base, NEW c \in Calls, StartRaster(c)
  PROVE  Base'
<1> USE DEF StartRaster, Goto, Steps, Ended
<1>1. PartsOf(c) \subseteq (IF mode[c] = "cmyk" THEN {"pdf"} ELSE {})
  BY DEF Base, TidyInv, Tidy, Holds
<1>2. Effect(c, PartsOf(c) \cup {Output(c), Stderr(c)})
  BY WrittenSound, AttemptsFiles DEF Base
<1>3. Tidy(c)'
  BY <1>1, <1>2 DEF Base, TypeOK, TidyInv, Tidy, Holds, Effect, Output, Stderr
<1>4. source' \in [Calls -> BOOLEAN]
  BY DEF Base, TypeOK, Has
<1> QED BY <1>2, <1>3, <1>4, OthersTidy DEF Base, TypeOK

LEMMA AttemptHolds ==
  ASSUME Base, NEW c \in Calls, pc[c] \in {"rastering", "validate", "read"}
  PROVE  PartsOf(c) \subseteq
           (IF mode[c] = "cmyk" THEN {"pdf"} ELSE {}) \cup {Output(c), Stderr(c)}
  BY DEF Base, TidyInv, Tidy, Holds

LEMMA EndRasterSound ==
  ASSUME Base, NEW c \in Calls, EndRaster(c)
  PROVE  Base'
<1> USE DEF EndRaster, Goto, Steps, Ended
<1>1. PartsOf(c) \subseteq
        (IF mode[c] = "cmyk" THEN {"pdf"} ELSE {}) \cup {Output(c), Stderr(c)}
  BY AttemptHolds
<1>2. CASE Goto(c, "conclude") /\ files' = Without(c, {Output(c), Stderr(c)})
           /\ UNCHANGED content
  <2>1. Effect(c, PartsOf(c) \ {Output(c), Stderr(c)})
    BY <1>2, WithoutSound, AttemptsFiles DEF Base
  <2>2. Tidy(c)'
    BY <1>1, <1>2, <2>1 DEF Base, TypeOK, TidyInv, Tidy, Holds, Effect
  <2> QED BY <1>2, <2>1, <2>2, OthersTidy DEF Base, TypeOK
<1>3. ASSUME NEW made \in {"whole", "short", "undrawn"}, Goto(c, "validate"),
             files' = Closed(c, Output(c)), content' = [content EXCEPT ![c] = made]
      PROVE  Base'
  <2>1. Effect(c, PartsOf(c))
    <3>1. Present' = Present \ ({c} \X {})
      BY <1>3 DEF Closed, Present
    <3>2. Effect(c, PartsOf(c) \ {})
      BY <1>3, <3>1, ClosedSound, AttemptsFiles DEF Base
    <3> QED BY <3>2
  <2>2. Tidy(c)'
    BY <1>1, <1>3, <2>1 DEF Base, TypeOK, TidyInv, Tidy, Holds, Effect, Output, Stderr
  <2> QED BY <1>3, <2>1, <2>2, OthersTidy DEF Base, TypeOK
<1> QED BY <1>2, <1>3

\* The catch of either attempt.
LEMMA RefuseSound ==
  ASSUME Base, NEW c \in Calls, pc[c] \in {"validate", "read"}, Refuse(c),
         picture' \in [Calls -> {"none", "whole", "short", "undrawn", "unread"}],
         UNCHANGED <<mode, source, content, doomed, now>>
  PROVE  Base'
<1>1. PartsOf(c) \subseteq
        (IF mode[c] = "cmyk" THEN {"pdf"} ELSE {}) \cup {Output(c), Stderr(c)}
  BY AttemptHolds
<1>2. Effect(c, PartsOf(c) \ {Output(c), Stderr(c)})
  BY WithoutSound, AttemptsFiles DEF Base, Refuse
<1>3. PartsOf(c)' \subseteq (IF mode[c] = "cmyk" THEN {"pdf"} ELSE {})
  BY <1>1, <1>2 DEF Effect
<1>4. Tidy(c)'
  BY <1>3 DEF Base, TypeOK, TidyInv, Tidy, Holds, Refuse, Goto
<1>5. /\ attempt' \in [Calls -> 1..2] /\ pc' \in [Calls -> Steps]
      /\ \A d \in Calls \ {c} : pc'[d] = pc[d] /\ attempt'[d] = attempt[d]
  BY DEF Base, TypeOK, Refuse, Goto, Steps
<1> QED BY <1>2, <1>4, <1>5, OthersTidy DEF Base, TypeOK

LEMMA ValidateSound ==
  ASSUME Base, NEW c \in Calls, ValidatePam(c) \/ ValidatePgm(c) \/ Read(c)
  PROVE  Base'
<1> USE DEF ValidatePam, ValidatePgm, Read, Goto, Steps, Ended
<1>1. PartsOf(c) \subseteq
        (IF mode[c] = "cmyk" THEN {"pdf"} ELSE {}) \cup {Output(c), Stderr(c)}
  BY AttemptHolds
<1>2. CASE Refuse(c)
  <2>1. picture' \in [Calls -> {"none", "whole", "short", "undrawn", "unread"}]
    BY DEF Base, TypeOK
  <2> QED BY <1>2, <2>1, RefuseSound
<1>3. CASE ValidatePam(c) /\ ~Refuse(c)
  <2>1. Effect(c, PartsOf(c))
    BY <1>3, UntouchedSound DEF Base
  <2>2. Tidy(c)'
    BY <1>1, <1>3, <2>1 DEF Base, TypeOK, TidyInv, Tidy, Holds, Effect, Output, Stderr
  <2> QED BY <1>3, <2>1, <2>2, OthersTidy DEF Base, TypeOK
<1>4. CASE (ValidatePgm(c) \/ Read(c)) /\ ~Refuse(c)
  <2>1. Effect(c, PartsOf(c) \ {Stderr(c)})
    BY <1>4, WithoutSound, AttemptsFiles DEF Base
  <2>2. Tidy(c)'
    BY <1>1, <1>4, <2>1 DEF Base, TypeOK, TidyInv, Tidy, Holds, Effect, Output, Stderr
  <2> QED BY <1>4, <2>1, <2>2, OthersTidy DEF Base, TypeOK
<1> QED BY <1>2, <1>3, <1>4

LEMMA ConcludeSound ==
  ASSUME Base, NEW c \in Calls, Conclude(c) \/ Release(c)
  PROVE  Base'
<1> USE DEF Conclude, Release, Goto, Steps, Ended
<1>1. CASE Conclude(c)
  <2>1. Effect(c, PartsOf(c) \ {Output(c), "pdf"})
    BY <1>1, WithoutSound, AttemptsFiles DEF Base, Parts
  <2>2. PartsOf(c) \subseteq {Output(c), "pdf"}
    BY <1>1 DEF Base, TidyInv, Tidy, Holds
  <2>3. Tidy(c)'
    BY <1>1, <2>1, <2>2 DEF Base, TypeOK, TidyInv, Tidy, Holds, Effect
  <2> QED BY <1>1, <2>1, <2>3, OthersTidy DEF Base, TypeOK
<1>2. CASE Release(c)
  <2>1. Effect(c, PartsOf(c) \ {Output(c)})
    BY <1>2, WithoutSound, AttemptsFiles DEF Base, Parts
  <2>2. PartsOf(c) \subseteq {Output(c)}
    BY <1>2 DEF Base, TidyInv, Tidy, Holds
  <2>3. Tidy(c)'
    BY <1>2, <2>1, <2>2 DEF Base, TypeOK, TidyInv, Tidy, Holds, Effect
  <2> QED BY <1>2, <2>1, <2>3, OthersTidy DEF Base, TypeOK
<1> QED BY <1>1, <1>2

\* A process that is killed leaves what it had, at most one file of each kind.
LEMMA KillSound ==
  ASSUME Base, NEW c \in Calls, Kill(c)
  PROVE  Base'
<1> USE DEF Kill, Goto, Steps, Ended
<1>1. Effect(c, PartsOf(c))
  BY UntouchedSound DEF Base
<1>2. \E output \in {"a1", "a2"}, stderr \in Parts \ {"pdf", "a1", "a2"} :
        PartsOf(c) \subseteq {"pdf", output, stderr}
  BY DEF Base, TypeOK, TidyInv, Tidy, Holds, Output, Stderr, Parts
<1>3. Tidy(c)'
  BY <1>1, <1>2 DEF Base, TypeOK, Tidy, Effect
<1> QED BY <1>1, <1>3, OthersTidy DEF Base, TypeOK

LEMMA TickSound ==
  ASSUME Base, Tick
  PROVE  Base'
<1>1. StampInv'
  BY ClockAssumption DEF Base, TypeOK, StampInv, Tick, Present
<1>2. TypeOK'
  BY <1>1, FilesTyped, ClockAssumption DEF Base, TypeOK, Tick
<1>3. TidyInv'
  BY DEF Base, TidyInv, Tidy, Holds, Output, Stderr, PartsOf, Has, Present, Tick
<1> QED BY <1>1, <1>2, <1>3 DEF Base

LEMMA BaseInitially == Init => Base
<1> SUFFICES ASSUME Init PROVE Base
  OBVIOUS
<1>1. PICK L \in SUBSET Leftovers : files = [f \in L \X {"pdf"} |-> 0]
  BY DEF Init
<1>2. Present = L \X {"pdf"} /\ \A f \in Present : files[f] = 0
  BY <1>1 DEF Present
<1>3. StampInv
  BY <1>2, CallsAssumption DEF StampInv, Files, Parts
<1>4. TypeOK
  BY <1>2, ClockAssumption DEF Init, TypeOK, Steps, Files, Parts
<1>5. TidyInv
  BY <1>2, CallsAssumption DEF Init, TidyInv, Tidy, Holds, PartsOf, Has
<1> QED BY <1>3, <1>4, <1>5 DEF Base

LEMMA BasePreserved == Base /\ [Next]_vars => Base'
<1> SUFFICES ASSUME Base, [Next]_vars PROVE Base'
  OBVIOUS
<1>1. CASE UNCHANGED vars
  BY <1>1 DEF vars, Base, TypeOK, StampInv, TidyInv, Tidy, Holds, Output, Stderr,
              PartsOf, Has, Present
<1>2. ASSUME NEW c \in Calls, Step(c) \/ Kill(c) PROVE Base'
  BY <1>2, BeginSound, EndNormaliseSound, ScanSound, SweepSound, EstimateSound,
     StartRasterSound, EndRasterSound, ValidateSound, ConcludeSound, KillSound DEF Step
<1> QED BY <1>1, <1>2, TickSound DEF Next

LEMMA BaseAlways == Spec => []Base
  BY BaseInitially, BasePreserved, PTL DEF Spec

\* Every variable keeps its type, for any calls, leftovers and limits.
THEOREM TypeCorrect == Spec => []TypeOK
<1>1. Base => TypeOK
  BY DEF Base
<1> QED BY <1>1, BaseAlways, PTL

\* A call that ended by itself has left nothing behind but, without an estimate
\* or room, its normalised PDF (rasterizeToCmykPlanes and its TempFileGuard).
THEOREM NothingLeftBehind == Spec => []LeftBehind
<1>1. Base => LeftBehind
  <2> SUFFICES ASSUME Base, NEW c \in Calls, pc[c] \in Ended \ {"killed"},
                      NEW f \in Present, f[1] = c
               PROVE  pc[c] = "no_room" /\ f = <<c, "pdf">>
    BY DEF LeftBehind
  <2>1. PICK part \in Parts : f = <<c, part>>
    BY DEF Base, TypeOK, Files
  <2>2. part \in PartsOf(c)
    BY <2>1 DEF PartsOf, Has
  <2> QED BY <2>1, <2>2 DEF Base, TidyInv, Tidy, Holds, Ended
<1> QED BY <1>1, BaseAlways, PTL

-----------------------------------------------------------------------------
(* How many files there can be.                                            *)

\* A call has at most one file of each kind.
Kind(part) ==
  IF part = "pdf" THEN 1 ELSE IF part \in {"a1", "a2"} THEN 2 ELSE 3

LEMMA OneOfAKind ==
  ASSUME Base, NEW c \in Calls, NEW p \in PartsOf(c), NEW q \in PartsOf(c),
         Kind(p) = Kind(q)
  PROVE  p = q
<1>1. CASE pc[c] = "killed"
  <2>1. PICK output \in {"a1", "a2"}, stderr \in Parts \ {"pdf", "a1", "a2"} :
          PartsOf(c) \subseteq {"pdf", output, stderr}
    BY <1>1 DEF Base, TidyInv, Tidy
  <2> QED BY <2>1 DEF Kind
<1>2. CASE pc[c] # "killed"
  <2>1. p \in Holds(c) /\ q \in Holds(c)
    BY <1>2 DEF Base, TidyInv, Tidy
  <2> QED BY <2>1 DEF Holds, Kind, Output, Stderr
<1> QED BY <1>1, <1>2

LEMMA IntervalsAreFinite ==
  ASSUME NEW n \in Nat \ {0}
  PROVE  IsFiniteSet(1..n) /\ Cardinality(1..n) = n
<1>1. 1 \in Int /\ n \in Int /\ ~(1 > n) /\ n - 1 + 1 = n
  OBVIOUS
<1>2. IsFiniteSet(1..n) /\ Cardinality(1..n) = IF 1 > n THEN 0 ELSE n - 1 + 1
  BY <1>1, FS_Interval, Zenon
<1> QED BY <1>1, <1>2

LEMMA CandidatesAreFinite ==
  ASSUME Base
  PROVE  IsFiniteSet(Candidates)
<1> DEFINE number == [part \in Parts |->
             CASE part = "pdf" -> 1 [] part = "pdf.stderr" -> 2 [] part = "bbox.stderr" -> 3
               [] part = "a1" -> 4 [] part = "a2" -> 5 [] part = "a1.stderr" -> 6
               [] OTHER -> 7]
<1>1. number \in Injection(Parts, 1..7)
  BY DEF Injection, IsInjective, Parts
<1>2. IsFiniteSet(Parts)
  <2>1. IsFiniteSet(1..7)
    <3>1. 7 \in Nat \ {0}
      OBVIOUS
    <3> QED BY <3>1, IntervalsAreFinite, Zenon
  <2> HIDE DEF number
  <2> QED BY <1>1, <2>1, FS_Injection
<1>3. IsFiniteSet(Files)
  BY <1>2, CallsAssumption, FS_Union, FS_Product DEF Files
<1>4. Candidates \subseteq Files
  BY DEF Candidates, Base, TypeOK
<1> QED BY <1>3, <1>4, FS_Subset

CallFiles == {f \in Candidates : f[1] \in Calls}

\* While c lists, three of each other call and its own normalised PDF.
LEMMA CountOfFiles ==
  ASSUME Base, NEW c \in Calls, pc[c] = "scan"
  PROVE  Cardinality(CallFiles) <= 3 * Cardinality(Calls) - 2
<1> DEFINE others == Calls \ {c}
           places == (others \X (1..3)) \cup {<<c, 1>>}
           place  == [f \in CallFiles |-> <<f[1], Kind(f[2])>>]
<1>1. \A f \in CallFiles : /\ f = <<f[1], f[2]>> /\ f[1] \in Calls
                          /\ f[2] \in PartsOf(f[1])
  BY DEF CallFiles, Candidates, Base, TypeOK, Files, PartsOf, Has
<1>2. \A f \in CallFiles : place[f] \in places
  <2> SUFFICES ASSUME NEW f \in CallFiles PROVE <<f[1], Kind(f[2])>> \in places
    OBVIOUS
  <2>1. Kind(f[2]) \in 1..3
    BY DEF Kind
  <2>2. CASE f[1] = c
    <3>1. f[2] = "pdf"
      BY <1>1, <2>2 DEF Base, TidyInv, Tidy, Holds
    <3> QED BY <2>2, <3>1 DEF Kind
  <2> QED BY <1>1, <2>1, <2>2
<1>3. \A f, g \in CallFiles : place[f] = place[g] => f = g
  <2> SUFFICES ASSUME NEW f \in CallFiles, NEW g \in CallFiles,
                      f[1] = g[1], Kind(f[2]) = Kind(g[2])
               PROVE  f = g
    OBVIOUS
  <2> QED BY <1>1, OneOfAKind
<1>4. place \in Injection(CallFiles, places)
  BY <1>2, <1>3 DEF Injection, IsInjective
<1>5. IsFiniteSet(others) /\ Cardinality(others) = Cardinality(Calls) - 1
  BY CallsAssumption, FS_RemoveElement
<1>6. IsFiniteSet(1..3) /\ Cardinality(1..3) = 3
  <2>1. 3 \in Nat \ {0}
    OBVIOUS
  <2> QED BY <2>1, IntervalsAreFinite, Zenon
<1>7. /\ IsFiniteSet(others \X (1..3))
      /\ Cardinality(others \X (1..3)) = Cardinality(others) * Cardinality(1..3)
  BY <1>5, <1>6, FS_Product
<1>8. /\ IsFiniteSet(places)
      /\ Cardinality(places) = Cardinality(others \X (1..3)) + 1
  <2>1. <<c, 1>> \notin others \X (1..3)
    OBVIOUS
  <2> QED BY <1>7, <2>1, FS_AddElement
<1>9. Cardinality(Calls) \in Nat
  BY CallsAssumption, FS_CardinalityType
<1>10. Cardinality(CallFiles) <= Cardinality(places)
  <2> HIDE DEF place, places
  <2> QED BY <1>4, <1>8, FS_Injection
<1> QED BY <1>5, <1>6, <1>7, <1>8, <1>9, <1>10

\* The files of calls are the latest of all, so they are kept if so many are.
LEMMA CallFilesAreKept ==
  ASSUME Base, KeepsEnough, NEW c \in Calls, pc[c] = "scan",
         NEW kept \in SUBSET Candidates, Keepable(kept)
  PROVE  CallFiles \subseteq kept
<1> SUFFICES ASSUME NEW f \in CallFiles, f \notin kept PROVE FALSE
  OBVIOUS
<1>1. KeepLatest >= 0 /\ KeepLatest >= 3 * Cardinality(Calls) - 2 /\ KeepLatest \in Int
  BY LimitsAssumption DEF KeepsEnough, Keepable, CallFiles
<1>2. kept \subseteq CallFiles \ {f}
  <2> SUFFICES ASSUME NEW g \in kept PROVE g[1] \in Calls
    BY DEF CallFiles
  <2>1. f \in Candidates \ kept /\ files[g] >= files[f] /\ files[f] \in 1..now
    BY DEF CallFiles, Keepable, Candidates, Base, StampInv
  <2>2. g \in Files /\ (g[1] \in Leftovers => files[g] = 0) /\ now \in Int
    BY ClockAssumption DEF Candidates, Base, StampInv, TypeOK
  <2> QED BY <2>1, <2>2 DEF Files
<1>3. /\ IsFiniteSet(CallFiles) /\ Cardinality(CallFiles) <= Cardinality(Candidates)
      /\ Cardinality(CallFiles) \in Nat /\ Cardinality(Candidates) \in Nat
  BY CandidatesAreFinite, FS_Subset, FS_CardinalityType DEF CallFiles
<1>4. Cardinality(kept) < Cardinality(CallFiles)
  <2>1. /\ IsFiniteSet(CallFiles \ {f})
        /\ Cardinality(CallFiles \ {f}) = Cardinality(CallFiles) - 1
    BY <1>3, FS_RemoveElement
  <2>2. Cardinality(kept) <= Cardinality(CallFiles \ {f}) /\ Cardinality(kept) \in Nat
    BY <1>2, <2>1, FS_Subset, FS_CardinalityType
  <2> QED BY <1>3, <2>1, <2>2
<1>5. Cardinality(kept) = KeepLatest \/ Cardinality(kept) = Cardinality(Candidates)
  BY <1>1 DEF Keepable
<1>6. Cardinality(CallFiles) <= 3 * Cardinality(Calls) - 2
  BY CountOfFiles
<1>7. Cardinality(Calls) \in Nat
  BY CallsAssumption, FS_CardinalityType
<1> QED BY <1>1, <1>3, <1>4, <1>5, <1>6, <1>7

-----------------------------------------------------------------------------
(* No file in use is deleted, and no bad page gets through.                *)

Safe == Base /\ DoomedInv /\ RunningIsSpared /\ CheckedInv

\* What c's step does to its own files, when it leaves the others'.
Directory(c, parts) ==
  /\ \A part \in Parts : Has(c, part)' <=> part \in parts
  /\ \A d \in Calls \ {c}, part \in Parts : Has(d, part)' <=> Has(d, part)

LEMMA DirectoryAfter ==
  ASSUME NEW c \in Calls, NEW P \in SUBSET Parts, NEW part \in Parts
  PROVE  /\ UNCHANGED files => Directory(c, PartsOf(c))
         /\ files' = Written(c, P) => Directory(c, PartsOf(c) \cup P)
         /\ files' = Without(c, P) => Directory(c, PartsOf(c) \ P)
         /\ files' = Closed(c, part) => Directory(c, PartsOf(c))
         /\ files' = Restrict(Closed(c, part), Present \ {<<c, "pdf.stderr">>})
              => Directory(c, PartsOf(c) \ {"pdf.stderr"})
<1> USE DEF Directory, PartsOf, Has, Present
<1>1. ASSUME UNCHANGED files PROVE Directory(c, PartsOf(c))
  BY <1>1
<1>2. ASSUME files' = Written(c, P) PROVE Directory(c, PartsOf(c) \cup P)
  BY <1>2 DEF Written
<1>3. ASSUME files' = Without(c, P) PROVE Directory(c, PartsOf(c) \ P)
  BY <1>3 DEF Without, Restrict
<1>4. ASSUME files' = Closed(c, part) PROVE Directory(c, PartsOf(c))
  BY <1>4 DEF Closed
<1>5. ASSUME files' = Restrict(Closed(c, part), Present \ {<<c, "pdf.stderr">>})
      PROVE  Directory(c, PartsOf(c) \ {"pdf.stderr"})
  BY <1>5 DEF Closed, Restrict
<1> QED BY <1>1, <1>2, <1>3, <1>4, <1>5

\* A step of c that dooms nothing keeps all calls safe if it keeps c so.
LEMMA OthersSafe ==
  ASSUME Safe, NEW c \in Calls, NEW parts, Directory(c, parts), UNCHANGED doomed,
         \A d \in Calls \ {c} :
           /\ pc'[d] = pc[d] /\ mode'[d] = mode[d] /\ attempt'[d] = attempt[d]
           /\ content'[d] = content[d] /\ picture'[d] = picture[d],
         Spared(c)', Checked(c)', Base'
  PROVE  Safe'
<1>1. ASSUME NEW d \in Calls \ {c} PROVE Spared(d)' /\ Checked(d)'
  <2>1. /\ Output(d) \in Parts /\ Stderr(d) \in Parts
        /\ "pdf" \in Parts /\ "bbox.stderr" \in Parts
    BY AttemptsFiles DEF Parts
  <2>2. Output(d)' = Output(d) /\ Stderr(d)' = Stderr(d)
    BY DEF Output, Stderr
  <2>3. \A part \in Parts : Has(d, part) => Has(d, part)'
    BY DEF Directory
  <2>4. Has(d, Output(d)) => Has(d, Output(d))'
    BY <2>1, <2>2, <2>3 DEF Has
  <2>5. Has(d, Stderr(d)) => Has(d, Stderr(d))'
    BY <2>1, <2>2, <2>3 DEF Has
  <2>6. Spared(d) /\ Checked(d)
    BY DEF Safe, RunningIsSpared, CheckedInv
  <2>7. Spared(d)'
    BY <2>1, <2>3, <2>4, <2>5, <2>6 DEF Spared
  <2>8. Checked(d)'
    BY <2>1, <2>3, <2>6 DEF Checked
  <2> QED BY <2>7, <2>8
<1>2. RunningIsSpared' /\ CheckedInv'
  BY <1>1 DEF RunningIsSpared, CheckedInv
<1>3. DoomedInv'
  BY DEF Safe, DoomedInv
<1> QED BY <1>2, <1>3 DEF Safe

\* The steps that come before the attempts, and after them.
LEMMA PreparationSafe ==
  ASSUME Safe, Base', NEW c \in Calls,
         Begin(c) \/ EndNormalise(c) \/ StartEstimate(c) \/ EndEstimate(c) \/ Preflight(c)
  PROVE  Safe'
<1> USE DEF Goto, Base, TypeOK, Parts
<1>1. Spared(c) /\ Checked(c) /\ Tidy(c)
  BY DEF Safe, RunningIsSpared, CheckedInv, TidyInv
<1>2. CASE Begin(c)
  <2>1. CASE UNCHANGED files /\ pc'[c] \in {"raster", "failed"}
    <3>1. Directory(c, PartsOf(c))
      BY <2>1, DirectoryAfter
    <3>2. Spared(c)' /\ Checked(c)'
      BY <1>1, <1>2, <2>1 DEF Safe, Spared, Checked, Begin
    <3> QED BY <1>2, <3>1, <3>2, OthersSafe DEF Begin, Safe
  <2>2. CASE files' = Written(c, {"pdf", "pdf.stderr"}) /\ pc'[c] = "normalise"
    <3>1. Directory(c, PartsOf(c) \cup {"pdf", "pdf.stderr"})
      BY <2>2, DirectoryAfter
    <3>2. Has(c, "pdf")'
      BY <3>1 DEF Directory
    <3>3. Spared(c)' /\ Checked(c)'
      BY <1>1, <1>2, <2>2, <3>2 DEF Safe, Spared, Checked, Begin
    <3> QED BY <1>2, <3>1, <3>3, OthersSafe DEF Begin, Safe
  <2> QED BY <1>2, <2>1, <2>2 DEF Begin
<1>3. CASE EndNormalise(c)
  <2>1. PICK parts :
          /\ Directory(c, parts)
          /\ pc'[c] = "scan" => parts = PartsOf(c) \ {"pdf.stderr"}
    BY <1>3, DirectoryAfter DEF EndNormalise, Safe
  <2>2. pc'[c] = "scan" => "pdf" \in parts
    BY <1>1, <1>3, <2>1 DEF Checked, EndNormalise, PartsOf
  <2>3. Spared(c)' /\ Checked(c)'
    BY <1>1, <1>3, <2>1, <2>2 DEF Safe, Spared, Checked, EndNormalise, Directory
  <2> QED BY <1>3, <2>1, <2>3, OthersSafe DEF EndNormalise, Safe
<1>4. CASE StartEstimate(c)
  <2>1. Directory(c, PartsOf(c) \cup {"bbox.stderr"})
    BY <1>4, DirectoryAfter DEF StartEstimate
  <2>2. Spared(c)' /\ Checked(c)'
    BY <1>1, <1>4, <2>1 DEF Safe, Spared, Checked, StartEstimate, Directory, PartsOf
  <2> QED BY <1>4, <2>1, <2>2, OthersSafe DEF StartEstimate, Safe
<1>5. CASE EndEstimate(c)
  <2>1. Directory(c, PartsOf(c) \ {"bbox.stderr"})
    BY <1>5, DirectoryAfter DEF EndEstimate
  <2>2. Spared(c)' /\ Checked(c)'
    BY <1>1, <1>5, <2>1 DEF Safe, Spared, Checked, EndEstimate, Directory, PartsOf
  <2> QED BY <1>5, <2>1, <2>2, OthersSafe DEF EndEstimate, Safe
<1>6. CASE Preflight(c)
  <2>1. Directory(c, PartsOf(c))
    BY <1>6, DirectoryAfter DEF Preflight
  <2>2. Spared(c)' /\ Checked(c)'
    BY <1>1, <1>6, <2>1 DEF Safe, Spared, Checked, Preflight, Directory, PartsOf
  <2> QED BY <1>6, <2>1, <2>2, OthersSafe DEF Preflight, Safe
<1> QED BY <1>2, <1>3, <1>4, <1>5, <1>6

LEMMA ConclusionSafe ==
  ASSUME Safe, Base', NEW c \in Calls, Conclude(c) \/ Release(c) \/ Kill(c)
  PROVE  Safe'
<1> USE DEF Conclude, Release, Kill, Goto, Base, TypeOK, Parts
<1>1. Checked(c)
  BY DEF Safe, CheckedInv
<1>2. \E parts : Directory(c, parts)
  BY AttemptsFiles, DirectoryAfter
<1>3. Spared(c)' /\ Checked(c)'
  BY <1>1 DEF Safe, Spared, Checked
<1> QED BY <1>2, <1>3, OthersSafe DEF Safe

\* The listing dooms only what is of long ago, for all else is kept and young.
LEMMA ScanSafe ==
  ASSUME Safe, Base', KeepsEnough, NEW c \in Calls, Scan(c)
  PROVE  Safe'
<1>1. ASSUME NEW D \in Doomable, NEW f \in D PROVE f[1] \in Leftovers
  <2>1. PICK kept \in SUBSET Candidates :
          Keepable(kept) /\ D = (Candidates \ kept) \cup {g \in Candidates : TooOld(g)}
    BY DEF Doomable
  <2>2. f \in Candidates /\ f \in Files
    BY <2>1 DEF Safe, Base, TypeOK, Candidates
  <2>3. CASE f \notin kept
    <3>1. f \notin CallFiles
      BY <2>1, <2>3, CallFilesAreKept DEF Safe, Scan
    <3> QED BY <2>2, <3>1 DEF CallFiles, Files
  <2>4. CASE TooOld(f)
    <3>1. MaxAge >= MaxNow - 1 /\ MaxAge \in Int /\ now - files[f] > MaxAge
      BY <2>4, LimitsAssumption DEF KeepsEnough, TooOld
    <3>2. f[1] \in Calls => files[f] \in 1..now
      BY <2>2 DEF Safe, Base, StampInv, Candidates
    <3>3. now \in 1..MaxNow
      BY DEF Safe, Base, TypeOK
    <3> QED BY <2>2, <3>1, <3>2, <3>3, ClockAssumption DEF Files
  <2> QED BY <2>1, <2>3, <2>4
<1>2. DoomedInv'
  BY <1>1 DEF Scan, Safe, DoomedInv, Base, TypeOK
<1>3. /\ \A d \in Calls : pc'[d] = pc[d] \/ (d = c /\ pc'[d] \in {"estimate", "sweep"})
      /\ pc[c] = "scan"
  BY DEF Scan, Goto, Safe, Base, TypeOK
<1>4. RunningIsSpared' /\ CheckedInv'
  BY <1>3 DEF Scan, Safe, RunningIsSpared, Spared, CheckedInv, Checked, Has, Present,
              Output, Stderr
<1> QED BY <1>2, <1>4 DEF Safe

\* So the deletions take no call's file.
LEMMA SweepSafe ==
  ASSUME Safe, Base', NEW c \in Calls, Sweep(c)
  PROVE  Safe'
<1>1. PICK D \in SUBSET doomed[c] : files' = Restrict(files, Present \ D)
  BY DEF Sweep
<1>2. \A d \in Calls, part \in Parts : Has(d, part)' <=> Has(d, part)
  <2>1. \A f \in D : f[1] \notin Calls
    BY CallsAssumption DEF Safe, DoomedInv
  <2>2. \A d \in Calls, part \in Parts : <<d, part>> \notin D
    BY <2>1, FilesAreOfCalls
  <2> QED BY <1>1, <2>2 DEF Has, Present, Restrict
<1>3. DoomedInv'
  BY DEF Sweep, Safe, DoomedInv, Base, TypeOK
<1>4. /\ \A d \in Calls : pc'[d] = pc[d] \/ (d = c /\ pc'[d] = "estimate")
      /\ pc[c] = "sweep" /\ UNCHANGED <<mode, attempt, content, picture>>
  BY DEF Sweep, Goto, Safe, Base, TypeOK
<1>5. ASSUME NEW d \in Calls PROVE Spared(d)' /\ Checked(d)'
  <2>1. Output(d)' = Output(d) /\ Stderr(d)' = Stderr(d)
    BY <1>4 DEF Output, Stderr
  <2>2. (Has(d, Output(d)))' <=> Has(d, Output(d))
    BY <1>2, <2>1, AttemptsFiles DEF Has
  <2>3. (Has(d, Stderr(d)))' <=> Has(d, Stderr(d))
    BY <1>2, <2>1, AttemptsFiles DEF Has
  <2>4. (Has(d, "pdf")' <=> Has(d, "pdf")) /\ (Has(d, "bbox.stderr")' <=> Has(d, "bbox.stderr"))
    BY <1>2 DEF Parts
  <2>5. Spared(d) /\ Checked(d)
    BY DEF Safe, RunningIsSpared, CheckedInv
  <2> QED BY <1>4, <2>2, <2>3, <2>4, <2>5 DEF Spared, Checked
<1> QED BY <1>3, <1>5 DEF Safe, RunningIsSpared, CheckedInv

\* The catch: the attempt's own files go, and only those.
LEMMA RefuseSafe ==
  ASSUME Safe, Base', NEW c \in Calls, pc[c] \in {"validate", "read"}, Refuse(c),
         UNCHANGED <<mode, content, doomed>>,
         picture'[c] \in {"none", "whole", "unread"},
         picture'[c] = "unread" => mode[c] = "cmyk",
         \A d \in Calls \ {c} : picture'[d] = picture[d]
  PROVE  Safe'
<1> USE DEF Goto, Base, TypeOK, Parts
<1>1. Spared(c) /\ Checked(c)
  BY DEF Safe, RunningIsSpared, CheckedInv
<1>2. Directory(c, PartsOf(c) \ {Output(c), Stderr(c)})
  BY DirectoryAfter, AttemptsFiles DEF Refuse
<1>3. Has(c, "pdf") => Has(c, "pdf")'
  BY <1>2, AttemptsFiles DEF Directory, PartsOf
<1>4. pc'[c] \in {"raster", "conclude"} /\ mode'[c] = mode[c] /\ attempt'[c] = 2
  BY DEF Refuse, Safe
<1>5. Spared(c)' /\ Checked(c)'
  BY <1>1, <1>3, <1>4 DEF Spared, Checked
<1>6. \A d \in Calls \ {c} :
        /\ pc'[d] = pc[d] /\ mode'[d] = mode[d] /\ attempt'[d] = attempt[d]
        /\ content'[d] = content[d] /\ picture'[d] = picture[d]
  BY DEF Refuse, Safe
<1> QED BY <1>2, <1>5, <1>6, OthersSafe

\* The words that tell an undrawn page are read while they are there.
LEMMA RasterSafe ==
  ASSUME Safe, Base', NEW c \in Calls, StartRaster(c) \/ EndRaster(c)
  PROVE  Safe'
<1> USE DEF Goto, Base, TypeOK, Parts
<1>1. Spared(c) /\ Checked(c)
  BY DEF Safe, RunningIsSpared, CheckedInv
<1>2. CASE StartRaster(c)
  <2>1. Directory(c, PartsOf(c) \cup {Output(c), Stderr(c)})
    BY <1>2, DirectoryAfter, AttemptsFiles DEF StartRaster
  <2>2. Output(c)' = Output(c) /\ Stderr(c)' = Stderr(c)
    BY <1>2 DEF StartRaster, Output, Stderr
  <2>3. (Has(c, Output(c)))' /\ (Has(c, Stderr(c)))' /\ (Has(c, "pdf") => Has(c, "pdf")')
    BY <2>1, <2>2, AttemptsFiles DEF Directory, PartsOf, Has
  <2>4. Spared(c)' /\ Checked(c)'
    BY <1>1, <1>2, <2>3 DEF Safe, Spared, Checked, StartRaster
  <2> QED BY <1>2, <2>1, <2>4, OthersSafe DEF StartRaster, Safe
<1>3. CASE EndRaster(c) /\ pc'[c] = "conclude"
  <2>1. Directory(c, PartsOf(c) \ {Output(c), Stderr(c)})
    BY <1>3, DirectoryAfter, AttemptsFiles DEF EndRaster, Safe
  <2>2. Spared(c)' /\ Checked(c)'
    BY <1>1, <1>3 DEF Safe, Spared, Checked, EndRaster
  <2>3. UNCHANGED content
    BY <1>3 DEF EndRaster, Safe
  <2> QED BY <1>3, <2>1, <2>2, <2>3, OthersSafe DEF EndRaster, Safe
<1>4. CASE EndRaster(c) /\ pc'[c] # "conclude"
  <2>1. PICK made \in {"whole", "short", "undrawn"} :
          /\ pc' = [pc EXCEPT ![c] = "validate"] /\ ~DrawFailure(c, made)
          /\ files' = Closed(c, Output(c)) /\ content' = [content EXCEPT ![c] = made]
    BY <1>4 DEF EndRaster, Safe
  <2>2. Directory(c, PartsOf(c))
    BY <2>1, DirectoryAfter, AttemptsFiles
  <2>3. made \in {"whole", "short"}
    BY <1>1, <1>4, <2>1 DEF DrawFailure, Spared, EndRaster
  <2>4. Output(c)' = Output(c) /\ Stderr(c)' = Stderr(c)
    BY <1>4 DEF EndRaster, Output, Stderr
  <2>5. /\ (Has(c, Output(c)))' <=> Has(c, Output(c))
        /\ (Has(c, Stderr(c)))' <=> Has(c, Stderr(c))
        /\ Has(c, "pdf")' <=> Has(c, "pdf")
    BY <2>2, <2>4, AttemptsFiles DEF Directory, PartsOf, Has
  <2>6. Spared(c)' /\ Checked(c)'
    BY <1>1, <1>4, <2>1, <2>3, <2>5 DEF Safe, Spared, Checked, EndRaster
  <2> QED BY <1>4, <2>1, <2>2, <2>6, OthersSafe DEF EndRaster, Safe
<1> QED BY <1>2, <1>3, <1>4

LEMMA ValidationSafe ==
  ASSUME Safe, Base', NEW c \in Calls, ValidatePam(c) \/ ValidatePgm(c) \/ Read(c)
  PROVE  Safe'
<1> USE DEF Goto, Base, TypeOK, Parts
<1>1. Spared(c) /\ Checked(c)
  BY DEF Safe, RunningIsSpared, CheckedInv
<1>2. CASE Refuse(c)
  <2>1. picture'[c] \in {"none", "whole", "unread"}
    <3>1. picture \in [Calls -> {"none", "whole", "short", "undrawn", "unread"}]
          /\ picture[c] \in {"none", "whole", "unread"}
      BY <1>1 DEF Checked, Safe
    <3>2. CASE ValidatePam(c)
      BY <3>1, <3>2 DEF ValidatePam
    <3>3. CASE ValidatePgm(c)
      BY <1>1, <3>1, <3>3 DEF ValidatePgm, SizeIsRight, Checked
    <3>4. CASE Read(c)
      BY <1>1, <3>1, <3>4 DEF Read, Checked
    <3> QED BY <3>2, <3>3, <3>4
  <2>2. \A d \in Calls \ {c} : picture'[d] = picture[d]
    BY DEF ValidatePam, ValidatePgm, Read, Safe
  <2>3. pc[c] \in {"validate", "read"} /\ UNCHANGED <<mode, content, doomed>>
    BY DEF ValidatePam, ValidatePgm, Read
  <2>4. picture'[c] = "unread" => mode[c] = "cmyk"
    <3>1. picture[c] = "unread" => mode[c] = "cmyk"
      BY <1>1 DEF Checked
    <3>2. CASE ValidatePam(c)
      BY <3>2 DEF ValidatePam
    <3>3. CASE ValidatePgm(c)
      BY <1>1, <3>1, <3>3 DEF ValidatePgm, SizeIsRight, Checked, Safe
    <3>4. CASE Read(c)
      <4>1. pc[c] = "read" /\ Tidy(c)
        BY <3>4 DEF Read, Safe, TidyInv
      <4> QED BY <4>1 DEF Tidy
    <3> QED BY <3>2, <3>3, <3>4
  <2> QED BY <1>2, <2>1, <2>2, <2>3, <2>4, RefuseSafe
<1>3. CASE ValidatePam(c) /\ ~Refuse(c)
  <2>1. Directory(c, PartsOf(c)) /\ content[c] = "whole"
    BY <1>1, <1>3, DirectoryAfter DEF ValidatePam, SizeIsRight, Checked
  <2>2. Output(c)' = Output(c) /\ Stderr(c)' = Stderr(c)
    BY <1>3 DEF ValidatePam, Output, Stderr
  <2>3. /\ (Has(c, Output(c)))' <=> Has(c, Output(c))
        /\ (Has(c, Stderr(c)))' <=> Has(c, Stderr(c))
        /\ Has(c, "pdf")' <=> Has(c, "pdf")
    BY <2>1, <2>2, AttemptsFiles DEF Directory, PartsOf, Has
  <2>4. Spared(c)' /\ Checked(c)'
    BY <1>1, <1>3, <2>1, <2>3 DEF Safe, Spared, Checked, ValidatePam
  <2> QED BY <1>3, <2>1, <2>4, OthersSafe DEF ValidatePam, Safe
<1>4. CASE (ValidatePgm(c) \/ Read(c)) /\ ~Refuse(c)
  <2>1. Directory(c, PartsOf(c) \ {Stderr(c)}) /\ content[c] = "whole"
    BY <1>1, <1>4, DirectoryAfter, AttemptsFiles
       DEF ValidatePgm, Read, SizeIsRight, Checked
  <2>2. Spared(c)' /\ Checked(c)'
    BY <1>1, <1>4, <2>1 DEF Safe, Spared, Checked, ValidatePgm, Read
  <2>3. \A d \in Calls \ {c} :
          /\ pc'[d] = pc[d] /\ mode'[d] = mode[d] /\ attempt'[d] = attempt[d]
          /\ content'[d] = content[d] /\ picture'[d] = picture[d]
    BY <1>4 DEF ValidatePgm, Read, Safe
  <2>4. UNCHANGED doomed
    BY DEF ValidatePam, ValidatePgm, Read
  <2> QED BY <2>1, <2>2, <2>3, <2>4, OthersSafe
<1> QED BY <1>2, <1>3, <1>4

LEMMA SafeInitially == Init => Safe
<1> SUFFICES ASSUME Init PROVE Safe
  OBVIOUS
<1>1. DoomedInv /\ RunningIsSpared /\ CheckedInv
  BY DEF Init, DoomedInv, RunningIsSpared, Spared, CheckedInv, Checked
<1> QED BY <1>1, BaseInitially DEF Safe

LEMMA SafePreserved ==
  ASSUME KeepsEnough
  PROVE  Safe /\ [Next]_vars => Safe'
<1> SUFFICES ASSUME Safe, [Next]_vars PROVE Safe'
  OBVIOUS
<1>1. Base'
  BY BasePreserved DEF Safe
<1>2. CASE UNCHANGED vars \/ Tick
  BY <1>1, <1>2 DEF vars, Tick, Safe, DoomedInv, RunningIsSpared, Spared, CheckedInv,
                    Checked, Has, Present, Output, Stderr
<1>3. ASSUME NEW c \in Calls, Step(c) \/ Kill(c) PROVE Safe'
  BY <1>1, <1>3, PreparationSafe, ScanSafe, SweepSafe, RasterSafe, ValidationSafe,
     ConclusionSafe DEF Step
<1> QED BY <1>2, <1>3 DEF Next

\* For any number of RIP processes, if at least 3N - 2 files are kept and none of
\* them gets too old while it runs, no cleanup takes a file in use, in whatever
\* order processes list and delete (cleanupRipTempArtifacts).
THEOREM FilesInUseAreSpared ==
  ASSUME KeepsEnough
  PROVE  Spec => []RunningIsSpared
<1>1. Safe => RunningIsSpared
  BY DEF Safe
<1> QED BY <1>1, SafeInitially, SafePreserved, PTL DEF Spec

\* And then no picture reaches the conversion that Ghostscript cut short or could
\* not draw, although the words that tell are in a file, nor one that was not read
\* to its end, unless a CMYK picture's first attempt was refused (line 1061).
THEOREM PicturesAreChecked ==
  ASSUME KeepsEnough
  PROVE  Spec => []PictureIsChecked
<1>1. Safe => PictureIsChecked
  BY DEF Safe, CheckedInv, Checked, PictureIsChecked
<1> QED BY <1>1, SafeInitially, SafePreserved, PTL DEF Spec
=============================================================================
