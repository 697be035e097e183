--------------------------- MODULE ErrorDiffusion ---------------------------
(***************************************************************************)
(* Floyd-Steinberg error diffusion with the whole picture in memory:       *)
(* BilevelConverter::convertToBilevelErrorDiffusion.  One step per pixel,  *)
(* in the order of the code's two loops.  A picture is a record of its     *)
(* width, its height and its gray values, gray[y][x].                      *)
(*                                                                         *)
(* It is also the abstract specification of the conversion that holds only *)
(* two rows at a time (module Streaming).                                  *)
(*                                                                         *)
(* working is the code's int16 copy of the picture.  The value of a pixel  *)
(* that has been done is never read again; it is 0 here.                   *)
(***************************************************************************)
EXTENDS Integers

CONSTANT Pictures

Cols(p) == 0 .. p.width - 1
Rows(p) == 0 .. p.height - 1

\* A value stored in an int16_t.
Int16(v) == ((v + 32768) % 65536) - 32768

\* Integer division by 16 as C++ does it: toward zero.
Sixteenth(v) == IF v >= 0 THEN v \div 16 ELSE -((-v) \div 16)

\* A pixel prints a dot if it is dark; the error is what printing it, or not,
\* leaves over.
IsDot(value) == value < 128
ErrorOf(value) == IF IsDot(value) THEN value ELSE value - 255

\* The sixteenths of the error that go to the pixel dx to the right and dy down.
Weight(dx, dy) ==
    CASE dx = 1  /\ dy = 0 -> 7
      [] dx = -1 /\ dy = 1 -> 3
      [] dx = 0  /\ dy = 1 -> 5
      [] dx = 1  /\ dy = 1 -> 1
      [] OTHER -> 0

VARIABLES picture, working, bilevel, x, y

wholeVars == <<picture, working, bilevel, x, y>>

-----------------------------------------------------------------------------
\* A call: the working copy is the picture, no pixel is done.
Init ==
    /\ picture \in Pictures
    /\ working = picture.gray
    /\ bilevel = {}
    /\ x = 0
    /\ y = 0

DiffusePixel ==
    /\ y < picture.height
    /\ LET error == ErrorOf(working[y][x])
       IN  /\ bilevel' = IF IsDot(working[y][x]) THEN bilevel \cup {<<x, y>>}
                                                 ELSE bilevel
           /\ working' = [j \in Rows(picture) |-> [i \in Cols(picture) |->
                 IF i = x /\ j = y THEN 0
                 ELSE Int16(working[j][i] + Sixteenth(error * Weight(i - x, j - y)))]]
    /\ IF x + 1 < picture.width THEN x' = x + 1 /\ y' = y
                                ELSE x' = 0 /\ y' = y + 1
    /\ UNCHANGED picture

\* The next call, once this one has returned.
NextCall ==
    /\ y = picture.height
    /\ picture' \in Pictures
    /\ working' = picture'.gray
    /\ bilevel' = {}
    /\ x' = 0
    /\ y' = 0

Next == DiffusePixel \/ NextCall

Spec == Init /\ [][Next]_wholeVars
=============================================================================
