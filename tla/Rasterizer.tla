----------------------------- MODULE Rasterizer -----------------------------
(***************************************************************************)
(* The rasterizer of memjet-rip (pdf_rasterizer.cpp): rasterizeToCmykPlanes*)
(* and rasterizeToFile, called by several RIP processes that share one     *)
(* directory for temporary files, each of which also clears that directory *)
(* of the files the others left.  Ghostscript and the disk are choices.    *)
(*                                                                         *)
(* KeepsOneLess, MissesDrawFailure, RetriesForEver, TriesThrice,           *)
(* SkipsSizeCheck and ForgetsPdf are mistaken forms of the definitions     *)
(* beside them; no specification uses them.                                *)
(***************************************************************************)
EXTENDS Integers, FiniteSets, Functions

CONSTANTS
  Calls,      \* calls of the rasterizer, each from a process of its own
  Leftovers,  \* calls of processes long gone, which left a file
  KeepLatest, \* RIP_TEMP_CLEANUP_KEEP_LATEST; negative to keep all
  MaxAge,     \* RIP_TEMP_CLEANUP_MAX_AGE_HOURS; negative for no limit
  MaxNow      \* the clock stops here

ASSUME CallsAssumption  ==
  IsFiniteSet(Calls) /\ IsFiniteSet(Leftovers) /\ Calls \cap Leftovers = {}
ASSUME LimitsAssumption == {KeepLatest, MaxAge} \subseteq Int
ASSUME ClockAssumption  == MaxNow \in Nat \ {0}

VARIABLES
  pc,      \* where each call is
  mode,    \* the picture it makes
  attempt, \* its attempt
  source,  \* whether the Ghostscript it started could open its input
  content, \* what that Ghostscript put in the attempt's file
  picture, \* interleaved: the picture read so far
  doomed,  \* the files its cleanup has decided to delete
  files,   \* when each file there is was last written
  now      \* the clock

vars == <<pc, mode, attempt, source, content, picture, doomed, files, now>>

Ended == {"returned", "failed", "no_room", "killed"}
Steps == {"begin", "normalise", "scan", "sweep", "estimate", "estimating",
          "preflight", "raster", "rastering", "validate", "read", "conclude",
          "held"} \cup Ended
Parts == {"pdf", "pdf.stderr", "bbox.stderr", "a1", "a2", "a1.stderr", "a2.stderr"}
Files == (Calls \cup Leftovers) \X Parts

\* The attempt's files.
Output(c) == IF attempt[c] = 1 THEN "a1" ELSE "a2"
Stderr(c) == IF attempt[c] = 1 THEN "a1.stderr" ELSE "a2.stderr"

-----------------------------------------------------------------------------
(* The directory.                                                          *)

Present == DOMAIN files

Has(c, part) == <<c, part>> \in Present

Written(c, parts) ==
  [f \in Present \cup ({c} \X parts) |-> IF f \in {c} \X parts THEN now ELSE files[f]]

\* A file another process deleted stays deleted, even while it is written.
Closed(c, part) == [f \in Present |-> IF f = <<c, part>> THEN now ELSE files[f]]

Without(c, parts) == Restrict(files, Present \ ({c} \X parts))

Goto(c, step) == pc' = [pc EXCEPT ![c] = step]

\* The names of a monochrome picture end in .pgm; only those with .pam count.
Candidates ==
  {f \in Present : f[1] \in Leftovers \/ mode[f[1]] = "cmyk"}

TooOld(f) == MaxAge >= 0 /\ now - files[f] > MaxAge

KeepsOneLess(kept) ==
  /\ Cardinality(kept) = IF KeepLatest - 1 < Cardinality(Candidates)
                         THEN KeepLatest - 1 ELSE Cardinality(Candidates)
  /\ \A f \in kept, g \in Candidates \ kept : files[f] >= files[g]

\* The latest KeepLatest candidates; the sort is free among equals.
Keepable(kept) ==
  /\ KeepLatest >= 0 =>
       Cardinality(kept) = IF KeepLatest < Cardinality(Candidates)
                           THEN KeepLatest ELSE Cardinality(Candidates)
  /\ KeepLatest < 0 => kept = Candidates
  /\ \A f \in kept, g \in Candidates \ kept : files[f] >= files[g]

Doomable ==
  {(Candidates \ kept) \cup {f \in Candidates : TooOld(f)} :
     kept \in {k \in SUBSET Candidates : Keepable(k)}}

-----------------------------------------------------------------------------
(* The preparation of a CMYK picture.                                      *)

\* A monochrome picture needs none; without the ICC profile there is none.
Begin(c) ==
  /\ pc[c] = "begin"
  /\ \/ /\ mode' = [mode EXCEPT ![c] = "mono"]
        /\ Goto(c, "raster")
        /\ UNCHANGED files
     \/ /\ Goto(c, "failed")
        /\ UNCHANGED <<mode, files>>
     \/ /\ Goto(c, "normalise")
        /\ files' = Written(c, {"pdf", "pdf.stderr"})
        /\ UNCHANGED mode
  /\ UNCHANGED <<attempt, source, content, picture, doomed, now>>

EndNormalise(c) ==
  /\ pc[c] = "normalise"
  /\ \/ /\ Goto(c, "failed")
        /\ files' = Without(c, {"pdf", "pdf.stderr"})
     \/ /\ Goto(c, "scan")
        /\ files' = Restrict(Closed(c, "pdf"), Present \ {<<c, "pdf.stderr">>})
  /\ UNCHANGED <<mode, attempt, source, content, picture, doomed, now>>

\* cleanupRipTempArtifacts: first the list; switched off or on a dry run it
\* deletes nothing.
Scan(c) ==
  /\ pc[c] = "scan"
  /\ \/ Goto(c, "estimate") /\ UNCHANGED doomed
     \/ /\ Goto(c, "sweep")
        /\ \E D \in Doomable : doomed' = [doomed EXCEPT ![c] = D]
  /\ UNCHANGED <<mode, attempt, source, content, picture, files, now>>

\* Then the deletions, any of which may fail.
Sweep(c) ==
  /\ pc[c] = "sweep"
  /\ Goto(c, "estimate")
  /\ \E D \in SUBSET doomed[c] : files' = Restrict(files, Present \ D)
  /\ doomed' = [doomed EXCEPT ![c] = {}]
  /\ UNCHANGED <<mode, attempt, source, content, picture, now>>

StartEstimate(c) ==
  /\ pc[c] = "estimate"
  /\ Goto(c, "estimating")
  /\ source' = [source EXCEPT ![c] = Has(c, "pdf")]
  /\ files' = Written(c, {"bbox.stderr"})
  /\ UNCHANGED <<mode, attempt, content, picture, doomed, now>>

\* Without an estimate the call throws and leaves its normalised PDF.
EndEstimate(c) ==
  /\ pc[c] = "estimating"
  /\ \/ /\ source[c] /\ Has(c, "bbox.stderr")
        /\ Goto(c, "preflight")
     \/ Goto(c, "no_room")
  /\ files' = Without(c, {"bbox.stderr"})
  /\ UNCHANGED <<mode, attempt, source, content, picture, doomed, now>>

\* preflightTempSpaceForPam throws when the disk has no room, and leaves it too.
Preflight(c) ==
  /\ pc[c] = "preflight"
  /\ Goto(c, "raster") \/ Goto(c, "no_room")
  /\ UNCHANGED <<mode, attempt, source, content, picture, doomed, files, now>>

-----------------------------------------------------------------------------
(* The attempts.                                                           *)

StartRaster(c) ==
  /\ pc[c] = "raster"
  /\ Goto(c, "rastering")
  /\ source' = [source EXCEPT ![c] = mode[c] = "mono" \/ Has(c, "pdf")]
  /\ files' = Written(c, {Output(c), Stderr(c)})
  /\ UNCHANGED <<mode, attempt, content, picture, doomed, now>>

MissesDrawFailure(c, made) == FALSE

\* A page that could not be drawn is told by the words on stderr alone.
DrawFailure(c, made) == made = "undrawn" /\ Has(c, Stderr(c))

EndRaster(c) ==
  /\ pc[c] = "rastering"
  /\ \/ /\ Goto(c, "conclude")
        /\ files' = Without(c, {Output(c), Stderr(c)})
        /\ UNCHANGED content
     \/ \E made \in {"whole", "short", "undrawn"} :
          /\ source[c]
          /\ IF DrawFailure(c, made)
             THEN /\ Goto(c, "conclude")
                  /\ files' = Without(c, {Output(c), Stderr(c)})
                  /\ UNCHANGED content
             ELSE /\ Goto(c, "validate")
                  /\ files' = Closed(c, Output(c))
                  /\ content' = [content EXCEPT ![c] = made]
  /\ UNCHANGED <<mode, attempt, source, picture, doomed, now>>

RetriesForEver(c) ==
  /\ files' = Without(c, {Output(c), Stderr(c)})
  /\ Goto(c, "raster")
  /\ UNCHANGED attempt

TriesThrice(c) ==
  /\ files' = Without(c, {Output(c), Stderr(c)})
  /\ IF attempt[c] <= 2
     THEN attempt' = [attempt EXCEPT ![c] = @ + 1] /\ Goto(c, "raster")
     ELSE Goto(c, "conclude") /\ UNCHANGED attempt

\* The catch: one retry, in files of its own.
Refuse(c) ==
  /\ files' = Without(c, {Output(c), Stderr(c)})
  /\ IF attempt[c] = 1
     THEN attempt' = [attempt EXCEPT ![c] = 2] /\ Goto(c, "raster")
     ELSE Goto(c, "conclude") /\ UNCHANGED attempt

SkipsSizeCheck(c) == Has(c, Output(c))

SizeIsRight(c) == Has(c, Output(c)) /\ content[c] # "short"

\* The header and the size: parsePAMHeader, then validatePamPayload.
ValidatePam(c) ==
  /\ pc[c] = "validate" /\ mode[c] = "cmyk"
  /\ \/ /\ SizeIsRight(c)
        /\ Goto(c, "read")
        /\ UNCHANGED <<attempt, files>>
     \/ ~SizeIsRight(c) /\ Refuse(c)
  /\ UNCHANGED <<mode, source, content, picture, doomed, now>>

\* rasterizeToFile returns once parsePGMHeader is content; main keeps the file.
ValidatePgm(c) ==
  /\ pc[c] = "validate" /\ mode[c] = "mono"
  /\ \/ /\ SizeIsRight(c)
        /\ Goto(c, "held")
        /\ picture' = [picture EXCEPT ![c] = content[c]]
        /\ files' = Without(c, {Stderr(c)})
        /\ UNCHANGED attempt
     \/ ~SizeIsRight(c) /\ Refuse(c) /\ UNCHANGED picture
  /\ UNCHANGED <<mode, source, content, doomed, now>>

\* The buffer is not emptied when the bytes cannot all be read.
Read(c) ==
  /\ pc[c] = "read"
  /\ \/ /\ Has(c, Output(c)) /\ content[c] # "short"
        /\ Goto(c, "conclude")
        /\ picture' = [picture EXCEPT ![c] = content[c]]
        /\ files' = Without(c, {Stderr(c)})
        /\ UNCHANGED attempt
     \/ /\ Has(c, Output(c))
        /\ Refuse(c)
        /\ picture' = [picture EXCEPT ![c] =
                         IF content[c] = "short" THEN "short" ELSE "unread"]
     \/ /\ Refuse(c)
        /\ UNCHANGED picture
  /\ UNCHANGED <<mode, source, content, doomed, now>>

ForgetsPdf(c) ==
  /\ pc[c] = "conclude"
  /\ Goto(c, IF picture[c] = "none" THEN "failed" ELSE "returned")
  /\ files' = Without(c, {Output(c)})
  /\ UNCHANGED <<mode, attempt, source, content, picture, doomed, now>>

\* Anything in the buffer is a picture.
Conclude(c) ==
  /\ pc[c] = "conclude"
  /\ Goto(c, IF picture[c] = "none" THEN "failed" ELSE "returned")
  /\ files' = Without(c, {Output(c), "pdf"})
  /\ UNCHANGED <<mode, attempt, source, content, picture, doomed, now>>

\* A monochrome picture stays on disk until main's TempFileGuard goes.
Release(c) ==
  /\ pc[c] = "held"
  /\ Goto(c, "returned")
  /\ files' = Without(c, {Output(c)})
  /\ UNCHANGED <<mode, attempt, source, content, picture, doomed, now>>

-----------------------------------------------------------------------------
\* The process of the call may be killed; its files stay.
Kill(c) ==
  /\ pc[c] \notin Ended
  /\ Goto(c, "killed")
  /\ UNCHANGED <<mode, attempt, source, content, picture, doomed, files, now>>

Tick ==
  /\ now < MaxNow
  /\ now' = now + 1
  /\ UNCHANGED <<pc, mode, attempt, source, content, picture, doomed, files>>

Init ==
  /\ pc = [c \in Calls |-> "begin"]
  /\ mode = [c \in Calls |-> "cmyk"]
  /\ attempt = [c \in Calls |-> 1]
  /\ source = [c \in Calls |-> FALSE]
  /\ content = [c \in Calls |-> "none"]
  /\ picture = [c \in Calls |-> "none"]
  /\ doomed = [c \in Calls |-> {}]
  /\ \E L \in SUBSET Leftovers : files = [f \in L \X {"pdf"} |-> 0]
  /\ now = 1

Step(c) ==
  \/ Begin(c) \/ EndNormalise(c) \/ Scan(c) \/ Sweep(c)
  \/ StartEstimate(c) \/ EndEstimate(c) \/ Preflight(c)
  \/ StartRaster(c) \/ EndRaster(c)
  \/ ValidatePam(c) \/ ValidatePgm(c) \/ Read(c) \/ Conclude(c) \/ Release(c)

Next ==
  \/ \E c \in Calls : Step(c) \/ Kill(c)
  \/ Tick

Spec     == Init /\ [][Next]_vars
FairSpec == Spec /\ \A c \in Calls : WF_vars(Step(c))

-----------------------------------------------------------------------------
(* Properties.                                                             *)

\* Every variable has its type.
TypeOK ==
  /\ pc \in [Calls -> Steps]
  /\ mode \in [Calls -> {"cmyk", "mono"}]
  /\ attempt \in [Calls -> 1..2]
  /\ source \in [Calls -> BOOLEAN]
  /\ content \in [Calls -> {"none", "whole", "short", "undrawn"}]
  /\ picture \in [Calls -> {"none", "whole", "short", "undrawn", "unread"}]
  /\ doomed \in [Calls -> SUBSET Files]
  /\ Present \subseteq Files
  /\ \A f \in Present : files[f] \in 0..now
  /\ now \in 1..MaxNow

\* A picture that reaches the conversion is one that Ghostscript drew whole and
\* that was read to its end (VALIDATION.md: fail fast, validation before use),
\* even though the words that tell an undrawn page are in a file other processes
\* may delete, and anything left in the buffer counts.  The one exception is a
\* CMYK picture whose first attempt was refused and whose reading failed: see
\* OnlyWholePictures.
PictureIsChecked ==
  \A c \in Calls :
    pc[c] \in {"held", "returned"} =>
      \/ picture[c] = "whole"
      \/ picture[c] = "unread" /\ mode[c] = "cmyk" /\ attempt[c] = 2

\* "One retry is attempted at same DPI with a fresh temp .pam path, then
\* hard-fails" (VALIDATION.md:108): nothing but a whole picture is used.  The
\* code does not keep this: the buffer of an attempt whose read failed is not
\* emptied, so that it passes for a picture whatever becomes of the retry.
OnlyWholePictures ==
  \A c \in Calls : pc[c] \in {"held", "returned"} => picture[c] = "whole"

Spared(c) ==
  /\ mode[c] = "cmyk" /\ pc[c] \in {"scan", "sweep", "estimate", "estimating",
                                    "preflight", "raster", "rastering",
                                    "validate", "read"}
       => Has(c, "pdf")
  /\ pc[c] = "estimating" => Has(c, "bbox.stderr")
  /\ pc[c] \in {"rastering", "validate", "read"}
       => Has(c, Output(c)) /\ Has(c, Stderr(c))

\* No process deletes a file a running call still needs, whatever the order of
\* their listings and deletions: its normalised PDF from the end of the
\* normalisation to the last attempt, and the files of the Ghostscript it is
\* waiting for or has just run.  This is where KeepLatest must cover all files
\* of every process but the one that lists, and that one's PDF.
RunningIsSpared == \A c \in Calls : Spared(c)

\* A call that ended by itself leaves nothing behind, whichever of its steps
\* failed; only one that got no estimate or no room leaves its normalised PDF.
LeftBehind ==
  \A c \in Calls : pc[c] \in Ended \ {"killed"} =>
    {f \in Present : f[1] = c} \subseteq
      IF pc[c] = "no_room" THEN {<<c, "pdf">>} ELSE {}

\* Every call ends: of the two attempts there is never a third.
CallEnds == \A c \in Calls : <>(pc[c] \in Ended)

-----------------------------------------------------------------------------
(* The inductive invariants behind the safety properties.                  *)

PartsOf(c) == {part \in Parts : Has(c, part)}

\* The parts a call that was not killed may have at its step.
Holds(c) ==
  LET pdf == IF mode[c] = "cmyk" THEN {"pdf"} ELSE {} IN
  CASE pc[c] = "normalise"  -> {"pdf", "pdf.stderr"}
    [] pc[c] = "estimating" -> {"pdf", "bbox.stderr"}
    [] pc[c] \in {"rastering", "validate", "read"} -> pdf \cup {Output(c), Stderr(c)}
    [] pc[c] = "conclude"   -> pdf \cup {Output(c)}
    [] pc[c] = "held"       -> {Output(c)}
    [] pc[c] \in {"begin", "returned", "failed", "killed"} -> {}
    [] OTHER -> pdf

\* Files of long ago are older than any call's, and the clock has not run past any.
StampInv ==
  \A f \in Present :
    /\ f \in Files
    /\ f[1] \in Calls => files[f] \in 1..now
    /\ f[1] \in Leftovers => files[f] = 0

\* A call's files are those of its step; one that was killed has at most its PDF,
\* one output and one stderr.
Tidy(c) ==
  /\ pc[c] # "killed" => PartsOf(c) \subseteq Holds(c)
  /\ pc[c] = "killed" =>
       \E output \in {"a1", "a2"}, stderr \in Parts \ {"pdf", "a1", "a2"} :
         PartsOf(c) \subseteq {"pdf", output, stderr}
  /\ pc[c] \in {"begin", "normalise", "scan", "sweep", "estimate", "estimating",
                "preflight", "read", "no_room"} => mode[c] = "cmyk"
  /\ pc[c] = "held" => mode[c] = "mono"

TidyInv == \A c \in Calls : Tidy(c)

\* Enough is kept for every file of every call but the one that lists, and for that
\* one's PDF; and no call's file gets too old.
KeepsEnough ==
  /\ KeepLatest < 0 \/ KeepLatest >= 3 * Cardinality(Calls) - 2
  /\ MaxAge < 0 \/ MaxAge >= MaxNow - 1

\* Then only files of long ago are ever deleted by another process ...
DoomedInv == \A c \in Calls : \A f \in doomed[c] : f[1] \in Leftovers

\* ... and what Ghostscript put in a file is what the call judges it by.
Checked(c) ==
  /\ pc[c] = "normalise" => Has(c, "pdf")
  /\ pc[c] = "validate" => content[c] \in {"whole", "short"}
  /\ pc[c] = "read" => content[c] = "whole"
  /\ pc[c] = "begin" => picture[c] = "none"
  /\ picture[c] \in {"none", "whole", "unread"}
  /\ picture[c] = "unread" => mode[c] = "cmyk" /\ attempt[c] = 2
  /\ pc[c] \in {"held", "returned"} => picture[c] # "none"

CheckedInv == \A c \in Calls : Checked(c)
=============================================================================
