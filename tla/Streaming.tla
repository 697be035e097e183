------------------------------ MODULE Streaming ------------------------------
(***************************************************************************)
(* BilevelConverter::convertAndPackStreaming: the picture is read from the *)
(* raster file one line at a time, and of the errors only two rows are     *)
(* held, curRow for the line at hand and nxtRow for the one below it.      *)
(*                                                                         *)
(* packed is the set of bits <<x, y>> that are set: bit x of packed line   *)
(* y, that is bit x % 32 of its word x \div 32.  (How lines follow one     *)
(* another in memory is in module Page.)                                   *)
(*                                                                         *)
(* phase is where the loop over y stands: "read" before a line is read,    *)
(* "diffuse" in the loops over its words and bits, "done" when the call    *)
(* has returned, "failed" when it has thrown.                              *)
(*                                                                         *)
(* Mistaken forms, used by no specification: KeepsNextRow, ClearsBoth,     *)
(* OneLineMore.                                                            *)
(***************************************************************************)
EXTENDS Integers

CONSTANT Pictures

ASSUME PicturesAssumption ==
    \A p \in Pictures :
        /\ p.width \in Nat \ {0}
        /\ p.height \in Nat \ {0}
        /\ p.gray \in [0 .. p.height - 1 -> [0 .. p.width - 1 -> 0..255]]

VARIABLES picture, curRow, nxtRow, packed, x, y, phase

streamVars == <<picture, curRow, nxtRow, packed, x, y, phase>>

Width  == picture.width
Height == picture.height

\* What is still to be printed of pixel (i, j), errors included.
Pending(i, j) ==
    IF j < y THEN 0
    ELSE IF phase = "diffuse"
           THEN IF j = y THEN IF i < x THEN 0 ELSE curRow[i]
                ELSE IF j = y + 1 THEN nxtRow[i] + picture.gray[j][i]
                ELSE picture.gray[j][i]
           ELSE IF j = y THEN curRow[i] + picture.gray[j][i]
                ELSE picture.gray[j][i]

\* The refinement mapping to the conversion of the whole picture.  A line whose
\* last pixel is done counts as left.
Whole == INSTANCE ErrorDiffusion WITH
    working <- [j \in 0 .. Height - 1 |-> [i \in 0 .. Width - 1 |-> Pending(i, j)]],
    bilevel <- packed,
    x <- IF x = Width THEN 0 ELSE x,
    y <- IF x = Width THEN y + 1 ELSE y

Int16(v) == Whole!Int16(v)
Sixteenth(v) == Whole!Sixteenth(v)

NoErrors(p) == [i \in 0 .. p.width - 1 |-> 0]

-----------------------------------------------------------------------------
Init ==
    /\ picture \in Pictures
    /\ curRow = NoErrors(picture)
    /\ nxtRow = NoErrors(picture)
    /\ packed = {}
    /\ x = 0
    /\ y = 0
    /\ phase = "read"

\* A scanline is read and merged into the errors the line above has left.
ReadLine ==
    /\ phase = "read"
    /\ curRow' = [i \in DOMAIN curRow |-> Int16(curRow[i] + picture.gray[y][i])]
    /\ phase' = "diffuse"
    /\ UNCHANGED <<picture, nxtRow, packed, x, y>>

\* The file cannot be opened, or it ends before the picture does.
Throw ==
    /\ phase = "read"
    /\ phase' = "failed"
    /\ UNCHANGED <<picture, curRow, nxtRow, packed, x, y>>

ToRight(row, error) ==
    [i \in DOMAIN row |-> IF i = x + 1 THEN Int16(row[i] + Sixteenth(error * 7)) ELSE row[i]]

Below(row, error) ==
    [i \in DOMAIN row |->
        IF i = x - 1 THEN Int16(row[i] + Sixteenth(error * 3))
        ELSE IF i = x THEN Int16(row[i] + Sixteenth(error * 5))
        ELSE IF i = x + 1 THEN Int16(row[i] + Sixteenth(error))
        ELSE row[i]]

PackPixel ==
    /\ phase = "diffuse"
    /\ x < Width
    /\ LET isDot == curRow[x] < 128
           error == Int16(curRow[x] - (IF isDot THEN 0 ELSE 255))
       IN  /\ packed' = IF isDot THEN packed \cup {<<x, y>>} ELSE packed
           /\ curRow' = ToRight(curRow, error)
           /\ nxtRow' = IF y + 1 < Height THEN Below(nxtRow, error) ELSE nxtRow
    /\ x' = x + 1
    /\ UNCHANGED <<picture, y, phase>>

\* The line is done: the next row becomes the current one and is cleared.
KeepsNextRow ==
    /\ curRow' = nxtRow
    /\ nxtRow' = nxtRow

ClearsBoth ==
    /\ curRow' = NoErrors(picture)
    /\ nxtRow' = NoErrors(picture)

Rotate ==
    /\ curRow' = nxtRow
    /\ nxtRow' = NoErrors(picture)

OneLineMore == y < Height

MoreLines == y + 1 < Height

EndLine ==
    /\ phase = "diffuse"
    /\ x = Width
    /\ Rotate
    /\ x' = 0
    /\ y' = y + 1
    /\ phase' = IF MoreLines THEN "read" ELSE "done"
    /\ UNCHANGED <<picture, packed>>

StreamStep == ReadLine \/ Throw \/ PackPixel \/ EndLine

\* The next call, once this one has returned: for any picture.
NextCall(p) ==
    /\ phase = "done"
    /\ picture' = p
    /\ curRow' = NoErrors(p)
    /\ nxtRow' = NoErrors(p)
    /\ packed' = {}
    /\ x' = 0
    /\ y' = 0
    /\ phase' = "read"

Next == StreamStep \/ \E p \in Pictures : NextCall(p)

Spec == Init /\ [][Next]_streamVars

-----------------------------------------------------------------------------
\* The arithmetic.  Every value a row can hold is so small that no store into
\* an int16_t wraps: at most 255 + 124 and at least -124.  nxtRow's bounds grow
\* as its three shares arrive; curRow's one as its fourth does.
BelowBound(i) == (IF i <= x THEN 7 ELSE 0) + (IF i < x THEN 39 ELSE 0)
                 + (IF i + 1 < x THEN 23 ELSE 0)

Within(v, lo, hi) == lo <= v /\ v <= hi

ErrorsStaySmall ==
    /\ phase = "read" => \A i \in DOMAIN curRow : Within(curRow[i], -69, 69)
    /\ phase = "diffuse" => \A i \in DOMAIN curRow :
           /\ i > x => Within(curRow[i], -69, 324)
           /\ i = x => Within(curRow[i], -124, 379)
    /\ phase = "diffuse" => \A i \in DOMAIN nxtRow :
           Within(nxtRow[i], -BelowBound(i), BelowBound(i))
    /\ phase # "diffuse" => nxtRow = NoErrors(picture)

\* Two rows are enough: read line by line, a picture gives the very dots that
\* it gives with all of it in memory.
StreamingImplementsWhole == Whole!Spec
=============================================================================
