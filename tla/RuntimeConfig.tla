--------------------------- MODULE RuntimeConfig ----------------------------
(***************************************************************************)
(* loadRuntimeConfig: what the RIP makes of its environment variables.     *)
(*                                                                         *)
(* A switch is "unset", "empty", "off" (0, false, no, off in any case) or  *)
(* "on" (anything else).  A number is unset (or empty), a text that does   *)
(* not begin with an int, or a number.  The tone settings, whose           *)
(* arithmetic is in floating point, and the paths are left out.            *)
(***************************************************************************)
EXTENDS Integers

Switches == {"USE_FAST_MONO", "USE_TRUE_CMYK", "JSL_INVERT_BITS", "JSL_TEST_PATTERN",
             "USE_LEGACY_ORCHESTRATION", "JSL_IMMEDIATE_FINISH"}

Number(fallback, min, max) == [fallback |-> fallback, range |-> min..max]

\* Each number's fallback and the range it must be in.
Numbers ==
    [JSL_STRIP_START            |-> Number(0, 0, 1000000),
     JSL_STRIP_WIDTH            |-> Number(0, 0, 1000000),
     THRIFT_CONTROL_PORT        |-> Number(13001, 1, 65535),
     THRIFT_WAIT_JOB_TIMEOUT_MS |-> Number(8000, 1, 300000),
     THRIFT_WAIT_JOB_POLL_MS    |-> Number(250, 1, 30000),
     JSL_POST_START_HOLD_MS     |-> Number(8000, 0, 300000)]

Unset      == [kind |-> "unset"]
Text       == [kind |-> "text"]
Value(n)   == [kind |-> "number", value |-> n]

parseBool(raw, fallback) ==
    IF raw = "unset" THEN fallback ELSE raw \notin {"empty", "off"}

\* parseInt refuses a text and a number out of range; the first refusal ends
\* the program.
Accepts(name, raw) ==
    \/ raw.kind = "unset"
    \/ raw.kind = "number" /\ raw.value \in Numbers[name].range

parseInt(name, raw) == IF raw.kind = "unset" THEN Numbers[name].fallback ELSE raw.value

\* args: what the command line says; env: the switches and numbers set.
Accepted(env) == \A name \in DOMAIN Numbers : Accepts(name, env.number[name])

loadRuntimeConfig(args, env) ==
    LET fast == parseBool(env.switch["USE_FAST_MONO"], FALSE)
        number(name) == parseInt(name, env.number[name])
    IN  [forceFastMono   |-> fast,
         useTrueCmyk     |-> ~fast /\ parseBool(env.switch["USE_TRUE_CMYK"], args.cmyk),
         invertBits      |-> parseBool(env.switch["JSL_INVERT_BITS"], FALSE),
         testPattern     |-> parseBool(env.switch["JSL_TEST_PATTERN"], FALSE),
         stripStart      |-> number("JSL_STRIP_START"),
         stripWidth      |-> number("JSL_STRIP_WIDTH"),
         useLegacyOrchestration |->
             args.legacyJsl \/ parseBool(env.switch["USE_LEGACY_ORCHESTRATION"], FALSE),
         waitJobTimeoutMs |-> number("THRIFT_WAIT_JOB_TIMEOUT_MS"),
         waitJobPollMs   |-> number("THRIFT_WAIT_JOB_POLL_MS"),
         immediateFinish |-> parseBool(env.switch["JSL_IMMEDIATE_FINISH"], FALSE)]

\* How often the legacy session looks for its job: once at least.
MaxTries(cfg) ==
    LET tries == cfg.waitJobTimeoutMs \div cfg.waitJobPollMs
    IN  IF tries >= 1 THEN tries ELSE 1
=============================================================================
