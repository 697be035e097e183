-------------------------------- MODULE Page --------------------------------
(***************************************************************************)
(* Step 2 of the RIP's main and the hand-over of its result: the settings  *)
(* are loaded, the picture rasterized, each colour plane converted, laid   *)
(* out in memory and filed under planes, and the job opened with a strip   *)
(* the planes must fit.                                                    *)
(*                                                                         *)
(* A plane's memory is a number of bits and the set of those that are one. *)
(* Bit b of the memory is bit b % 32 of its little-endian word b \div 32.  *)
(*                                                                         *)
(* Mono and gray planes go through module Streaming, step by step.  A CMYK *)
(* plane is converted with all of it in memory (ErrorDiffusion, which      *)
(* Streaming implements); its dots are one of InkPatterns here.            *)
(*                                                                         *)
(* Mistaken forms, used by no specification: PadsToWord, CopiesWhole,      *)
(* ThrowIsCaught.                                                          *)
(***************************************************************************)
EXTENDS Streaming, RuntimeConfig, Sequences

CONSTANT Envs    \* the environments and command lines: records of args and env

VARIABLES
    env,      \* one of Envs
    stage,    \* how far main has come
    cfg,      \* the settings, once loaded
    planes,   \* the planes filed so far
    job       \* the job opened for them: strip and colours

pageVars == <<env, stage, cfg, planes, job>>
vars == <<streamVars, pageVars>>

Stages == {"config", "rasterize", "convert", "send", "submitted", "dry", "failed"}

-----------------------------------------------------------------------------
\* A line is padded to a whole number of 128-bit words.
PadsToWord(w) == (w + 31) \div 32

WordsPerLine(w) ==
    LET words == (w + 31) \div 32
    IN  IF words % 4 # 0 THEN words + (4 - (words % 4)) ELSE words

BitsPerLine(w) == 32 * WordsPerLine(w)

\* The memory of a picture w wide and h high with the given dots.
Packed(dots, w, h) ==
    [bits |-> {d[2] * BitsPerLine(w) + d[1] : d \in dots}, size |-> BitsPerLine(w) * h]

\* The dots the printhead finds in the memory if it takes lines of lineBits.
DotsIn(data, lineBits) == {<<b % lineBits, b \div lineBits>> : b \in data.bits}

StripWords(w) == (((w + 31) \div 32 + 3) \div 4) * 4

CopiesWhole(data, w, h, strip) ==
    IF strip <= w THEN data ELSE [data EXCEPT !.size = 32 * StripWords(strip) * h]

repackToStripWidth(data, w, h, strip) ==
    IF strip <= w THEN data
    ELSE LET from == 32 * StripWords(w)
             to   == 32 * StripWords(strip)
         IN  [bits |-> {(b \div from) * to + (b % from) :
                           b \in {c \in data.bits : c % from < w}},
              size |-> to * h]

testPattern(data, color) ==
    [data EXCEPT !.bits = IF color = "M" THEN 0 .. data.size - 1 ELSE {}]

invertBits(data) == [data EXCEPT !.bits = (0 .. data.size - 1) \ @]

-----------------------------------------------------------------------------
planeColors == IF cfg.forceFastMono THEN <<"K">> ELSE <<"M", "C", "K", "Y">>

\* 0 is no setting: the strip is as wide as the raster.
targetStripWidth == IF cfg.stripWidth > 0 THEN cfg.stripWidth ELSE Width

color == planeColors[Len(planes) + 1]

\* The plane's memory, from the dots the converter has set.
PlaneData(dots) ==
    LET fitted == repackToStripWidth(Packed(dots, Width, Height), Width, Height,
                                     targetStripWidth)
        filled == IF cfg.testPattern THEN testPattern(fitted, color) ELSE fitted
    IN  IF cfg.invertBits THEN invertBits(filled) ELSE filled

\* dots is no field of the code's PageData: it records what was drawn.
FilePlane(dots) ==
    /\ planes' = Append(planes, [color |-> color, data |-> PlaneData(dots),
                                 width |-> targetStripWidth, height |-> Height,
                                 dots |-> dots])
    /\ stage' = IF Len(planes) + 1 = Len(planeColors) THEN "send" ELSE "convert"

\* What a CMYK plane may look like.
InkPatterns ==
    {{}, (0 .. Width - 1) \X (0 .. Height - 1), {0} \X (0 .. Height - 1),
     {<<Width - 1, Height - 1>>}}

NoConfig == loadRuntimeConfig([cmyk |-> FALSE, legacyJsl |-> FALSE],
                              [switch |-> [s \in Switches |-> "unset"],
                               number |-> [n \in DOMAIN Numbers |-> Unset]])

-----------------------------------------------------------------------------
PageInit ==
    /\ Init
    /\ env \in Envs
    /\ stage = "config"
    /\ cfg = NoConfig
    /\ planes = <<>>
    /\ job = [stripStart |-> 0, stripWidth |-> 0, pageHeight |-> 0]

LoadConfig ==
    /\ stage = "config"
    /\ IF Accepted(env.env)
         THEN /\ cfg' = loadRuntimeConfig(env.args, env.env)
              /\ stage' = "rasterize"
         ELSE /\ stage' = "failed"
              /\ UNCHANGED cfg
    /\ UNCHANGED <<streamVars, env, planes, job>>

\* picture is what the rasterizer delivers (module Rasterizer), if it does.
Rasterize ==
    /\ stage = "rasterize"
    /\ stage' \in {"convert", "failed"}
    /\ UNCHANGED <<streamVars, env, cfg, planes, job>>

\* A step of convertAndPackStreaming; what it throws ends main.
ThrowIsCaught == stage' = stage

ThrowEnds == stage' = IF phase' = "failed" THEN "failed" ELSE stage

ConvertStep ==
    /\ stage = "convert"
    /\ ~cfg.useTrueCmyk
    /\ StreamStep
    /\ ThrowEnds
    /\ UNCHANGED <<env, cfg, planes, job>>

\* The streaming conversion has returned.  The next plane's reads the same file.
FileGray ==
    /\ stage = "convert"
    /\ ~cfg.useTrueCmyk
    /\ phase = "done"
    /\ FilePlane(packed)
    /\ IF stage' = "convert" THEN NextCall(picture) ELSE UNCHANGED streamVars
    /\ UNCHANGED <<env, cfg, job>>

FileInk ==
    /\ stage = "convert"
    /\ cfg.useTrueCmyk
    /\ \E dots \in InkPatterns : FilePlane(dots)
    /\ UNCHANGED <<streamVars, env, cfg, job>>

DryRun ==
    /\ stage = "send"
    /\ env.args.dryRun
    /\ stage' = "dry"
    /\ UNCHANGED <<streamVars, env, cfg, planes, job>>

\* The library does not start, or openJobMultiColor and addPageMultiColor get the
\* strip, never of width 0, and the height of the first plane.
Submit ==
    /\ stage = "send"
    /\ ~env.args.dryRun
    /\ \/ /\ stage' = "failed"
          /\ UNCHANGED job
       \/ /\ job' = [stripStart |-> cfg.stripStart,
                     stripWidth |-> LET w == targetStripWidth IN IF w = 0 THEN 1 ELSE w,
                     pageHeight |-> planes[1].height]
          /\ stage' = "submitted"
    /\ UNCHANGED <<streamVars, env, cfg, planes>>

PageNext == LoadConfig \/ Rasterize \/ ConvertStep \/ FileGray \/ FileInk \/ DryRun \/ Submit

PageSpec == PageInit /\ [][PageNext]_vars /\ WF_vars(PageNext)

-----------------------------------------------------------------------------
TypeOK ==
    /\ phase \in {"read", "diffuse", "done", "failed"}
    /\ x \in 0..Width /\ y \in 0..Height
    /\ phase \in {"read", "diffuse"} => y < Height
    /\ packed \subseteq (0 .. Width - 1) \X (0 .. Height - 1)
    /\ env \in Envs
    /\ stage \in Stages
    /\ Len(planes) \in 0..4

\* A submitted job has all its planes, and each fits the job's strip: the
\* library, which knows nothing but the strip's width and the page's height,
\* finds in the plane's memory as many lines as it expects and in them the dots
\* that were drawn (or the others, if they are to be inverted), wherever the
\* strip is not narrower than the raster.
PlanesFitStrip ==
    stage = "submitted" /\ job.stripWidth >= Width =>
        /\ Len(planes) = Len(planeColors)
        /\ \A i \in DOMAIN planes :
              LET data == planes[i].data
                  found == DotsIn(data, BitsPerLine(job.stripWidth))
                              \cap ((0 .. Width - 1) \X (0 .. Height - 1))
              IN  /\ data.size = job.pageHeight * BitsPerLine(job.stripWidth)
                  /\ ~cfg.testPattern =>
                        found = IF cfg.invertBits
                                  THEN ((0 .. Width - 1) \X (0 .. Height - 1)) \ planes[i].dots
                                  ELSE planes[i].dots

\* Outside the picture a plane that is neither inverted nor a test pattern has
\* no dots, however its lines are padded and its strip is widened.
PaddingIsBlank ==
    stage = "submitted" /\ ~cfg.invertBits /\ ~cfg.testPattern =>
        \A i \in DOMAIN planes :
            \A d \in DotsIn(planes[i].data, BitsPerLine(IF planes[i].width >= Width
                                                        THEN planes[i].width ELSE Width)) :
                d[1] < Width /\ d[2] < Height

\* main comes to an end of its own.
PageEnds == <>(stage \in {"submitted", "dry", "failed"})
=============================================================================
