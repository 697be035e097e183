------------------------------- MODULE MCPage -------------------------------
(* Page on small pictures and settings. *)
EXTENDS Page, FiniteSets

CONSTANT Levels    \* the gray values of the small pictures

Picture(w, h, gray) == [width |-> w, height |-> h, gray |-> gray]

\* Two lines of three pixels: an inner pixel with all its neighbours, both edges
\* and the last line.
SmallPictures ==
    {Picture(3, 2, gray) : gray \in [0..1 -> [0..2 -> Levels]]}

\* One dot wider than a 128-bit word.
WidePicture == Picture(129, 1, [j \in 0..0 |-> [i \in 0..128 |-> 100]])

MCPictures == SmallPictures \cup {WidePicture}

Env(mono, cmyk, invert, pattern, start, strip, dry) ==
    [args |-> [cmyk |-> FALSE, legacyJsl |-> FALSE, dryRun |-> dry],
     env  |-> [switch |-> [s \in Switches |->
                              CASE s = "USE_FAST_MONO"    -> mono
                                [] s = "USE_TRUE_CMYK"    -> cmyk
                                [] s = "JSL_INVERT_BITS"  -> invert
                                [] s = "JSL_TEST_PATTERN" -> pattern
                                [] OTHER -> "unset"],
               number |-> [n \in DOMAIN Numbers |->
                              CASE n = "JSL_STRIP_START" -> start
                                [] n = "JSL_STRIP_WIDTH" -> strip
                                [] OTHER -> Unset]]]

Strips == {Unset, Value(1), Value(3), Value(130), Value(300)}

\* Every mode with every strip; the patterns and what is refused once.
MCEnvs ==
    {Env(mode[1], mode[2], invert, "unset", Unset, strip, FALSE) :
        mode \in {<<"on", "on">>, <<"unset", "on">>, <<"unset", "empty">>},
        invert \in {"unset", "on"}, strip \in Strips}
    \cup {Env("unset", "unset", "off", "on", Value(7), Value(130), FALSE),
          Env("on", "unset", "unset", "unset", Unset, Unset, TRUE),
          Env("on", "unset", "unset", "unset", Text, Unset, FALSE),
          Env("on", "unset", "unset", "unset", Unset, Value(1000001), FALSE)}
=============================================================================
