----------------------------- MODULE PageProofs -----------------------------
(***************************************************************************)
(* Proofs about the streaming conversion and the page made of it, for      *)
(* every picture, every setting and every strip.                           *)
(*                                                                         *)
(* The argument.  StreamType says where a call stands; with it             *)
(* ErrorsStaySmall is inductive: the bound of an entry of nxtRow grows by  *)
(* 7, then 39, then 23, as the pixels above it to the left, above it and   *)
(* above it to the right are done, and never beyond 69.  Since no store    *)
(* wraps, adding the errors to a pixel before or after it is read gives    *)
(* the same, and so each step maps to a step of the whole conversion or to *)
(* a stutter.                                                              *)
(***************************************************************************)
EXTENDS Page, TLAPS

StreamType ==
    /\ picture \in Pictures
    /\ phase \in {"read", "diffuse", "done", "failed"}
    /\ x \in 0..Width
    /\ y \in 0..Height
    /\ phase \in {"read", "diffuse", "failed"} => y < Height
    /\ phase # "diffuse" => x = 0
    /\ phase = "done" => y = Height
    /\ curRow \in [0 .. Width - 1 -> Int]
    /\ nxtRow \in [0 .. Width - 1 -> Int]
    /\ packed \subseteq (0 .. Width - 1) \X (0 .. Height - 1)

StreamInv == StreamType /\ ErrorsStaySmall

-----------------------------------------------------------------------------
\* Arithmetic.
LEMMA Int16Identity ==
    ASSUME NEW v \in Int, -32768 <= v, v <= 32767
    PROVE  Int16(v) = v
BY DEF Int16, Whole!Int16

LEMMA ErrorShares ==
    ASSUME NEW e \in Int, -127 <= e, e <= 127
    PROVE  /\ Sixteenth(e * 7) \in Int /\ -55 <= Sixteenth(e * 7) /\ Sixteenth(e * 7) <= 55
           /\ Sixteenth(e * 5) \in Int /\ -39 <= Sixteenth(e * 5) /\ Sixteenth(e * 5) <= 39
           /\ Sixteenth(e * 3) \in Int /\ -23 <= Sixteenth(e * 3) /\ Sixteenth(e * 3) <= 23
           /\ Sixteenth(e) \in Int /\ -7 <= Sixteenth(e) /\ Sixteenth(e) <= 7
BY DEF Sixteenth, Whole!Sixteenth

LEMMA PictureFacts ==
    ASSUME NEW p \in Pictures
    PROVE  /\ p.width \in Nat \ {0} /\ p.height \in Nat \ {0}
           /\ \A j \in 0 .. p.height - 1 :
                 /\ p.gray[j] \in [0 .. p.width - 1 -> 0..255]
                 /\ \A i \in 0 .. p.width - 1 : p.gray[j][i] \in 0..255
<1>1. /\ p.width \in Nat \ {0} /\ p.height \in Nat \ {0}
      /\ p.gray \in [0 .. p.height - 1 -> [0 .. p.width - 1 -> 0..255]]
  BY PicturesAssumption
<1>2. ASSUME NEW j \in 0 .. p.height - 1
      PROVE  p.gray[j] \in [0 .. p.width - 1 -> 0..255]
  BY <1>1
<1>3. QED BY <1>1, <1>2

-----------------------------------------------------------------------------
\* The steps of the conversion keep the invariant.
LEMMA StreamInit == Init => StreamInv
<1> SUFFICES ASSUME Init PROVE StreamInv
  OBVIOUS
<1>1. picture \in Pictures
  BY DEF Init
<1>2. Width \in Nat \ {0} /\ Height \in Nat \ {0}
  BY <1>1, PictureFacts DEF Width, Height
<1>3. NoErrors(picture) = [i \in 0 .. Width - 1 |-> 0]
  BY DEF NoErrors, Width
<1> QED
  BY <1>1, <1>2, <1>3 DEF Init, StreamInv, StreamType, ErrorsStaySmall, Within

LEMMA SizeFacts ==
    ASSUME picture \in Pictures
    PROVE  /\ Width \in Nat /\ Width > 0
           /\ Height \in Nat /\ Height > 0
           /\ \A j \in 0 .. Height - 1, i \in 0 .. Width - 1 :
                 picture.gray[j][i] \in Int /\ 0 <= picture.gray[j][i] /\ picture.gray[j][i] <= 255
<1>1. Width \in Nat /\ Width > 0 /\ Height \in Nat /\ Height > 0
  BY PictureFacts DEF Width, Height
<1>2. ASSUME NEW j \in 0 .. Height - 1, NEW i \in 0 .. Width - 1
      PROVE  picture.gray[j][i] \in Int /\ 0 <= picture.gray[j][i] /\ picture.gray[j][i] <= 255
  <2>1. picture.gray[j][i] \in 0..255
    BY PictureFacts DEF Width, Height
  <2> QED BY ONLY <2>1
<1>3. QED BY <1>1, <1>2

LEMMA ReadLineKeeps == StreamInv /\ ReadLine => StreamInv'
<1> SUFFICES ASSUME StreamInv, ReadLine PROVE StreamInv'
  OBVIOUS
<1>0. StreamType /\ ErrorsStaySmall
  BY DEF StreamInv
<1>1. /\ picture \in Pictures /\ phase = "read" /\ x = 0 /\ y \in 0..Height /\ y < Height
      /\ curRow \in [0 .. Width - 1 -> Int]
      /\ packed \subseteq (0 .. Width - 1) \X (0 .. Height - 1)
  BY <1>0 DEF StreamType, ReadLine
<1>2. Width \in Nat /\ Width > 0 /\ Height \in Nat /\ Height > 0
  BY <1>1, SizeFacts
<1>3. DOMAIN curRow = 0 .. Width - 1
  BY <1>1
<1>4. /\ \A i \in 0 .. Width - 1 : -69 <= curRow[i] /\ curRow[i] <= 69
      /\ nxtRow = [i \in 0 .. Width - 1 |-> 0]
  BY <1>0, <1>1, <1>3 DEF ErrorsStaySmall, Within, NoErrors, Width
<1>5. /\ phase' = "diffuse" /\ picture' = picture /\ nxtRow' = nxtRow /\ packed' = packed
      /\ x' = x /\ y' = y /\ Width' = Width /\ Height' = Height
      /\ curRow' = [i \in 0 .. Width - 1 |-> Int16(curRow[i] + picture.gray[y][i])]
  BY <1>3 DEF ReadLine, Width, Height
<1>6. \A i \in 0 .. Width - 1 : 
         /\ curRow'[i] = curRow[i] + picture.gray[y][i]
         /\ curRow'[i] \in Int /\ -69 <= curRow'[i] /\ curRow'[i] <= 324
  <2> TAKE i \in 0 .. Width - 1
  <2>1. picture.gray[y][i] \in Int /\ 0 <= picture.gray[y][i] /\ picture.gray[y][i] <= 255
    BY <1>1, <1>2, SizeFacts
  <2>2. curRow[i] \in Int /\ -69 <= curRow[i] /\ curRow[i] <= 69
    BY <1>1, <1>4
  <2>3. curRow'[i] = Int16(curRow[i] + picture.gray[y][i])
    BY <1>5
  <2> QED BY <2>1, <2>2, <2>3, Int16Identity
<1>7. curRow' \in [0 .. Width - 1 -> Int]
  BY <1>5, <1>6
<1>8. StreamType'
  BY <1>1, <1>2, <1>4, <1>5, <1>7 DEF StreamType
<1>9. ErrorsStaySmall'
  BY <1>1, <1>2, <1>4, <1>5, <1>6, <1>7 DEF ErrorsStaySmall, BelowBound, Within
<1> QED BY <1>8, <1>9 DEF StreamInv

LEMMA EndLineKeeps == StreamInv /\ EndLine => StreamInv'
<1> SUFFICES ASSUME StreamInv, EndLine PROVE StreamInv'
  OBVIOUS
<1>0. StreamType /\ ErrorsStaySmall
  BY DEF StreamInv
<1>1. /\ picture \in Pictures /\ phase = "diffuse" /\ x = Width /\ y \in 0..Height /\ y < Height
      /\ nxtRow \in [0 .. Width - 1 -> Int]
      /\ packed \subseteq (0 .. Width - 1) \X (0 .. Height - 1)
  BY <1>0 DEF StreamType, EndLine
<1>2. Width \in Nat /\ Width > 0 /\ Height \in Nat /\ Height > 0
  BY <1>1, SizeFacts
<1>3. \A i \in 0 .. Width - 1 : -69 <= nxtRow[i] /\ nxtRow[i] <= 69
  BY <1>0, <1>1, <1>2 DEF ErrorsStaySmall, BelowBound, Within
<1>4. /\ phase' = IF y + 1 < Height THEN "read" ELSE "done"
      /\ picture' = picture /\ packed' = packed /\ x' = 0 /\ y' = y + 1
      /\ Width' = Width /\ Height' = Height
      /\ curRow' = nxtRow /\ nxtRow' = [i \in 0 .. Width - 1 |-> 0]
  BY DEF EndLine, Rotate, MoreLines, NoErrors, Width, Height
<1>5. StreamType'
  BY <1>1, <1>2, <1>4 DEF StreamType
<1>6. nxtRow' = NoErrors(picture)'
  BY <1>4 DEF NoErrors, Width
<1>7. ErrorsStaySmall'
  BY <1>1, <1>2, <1>3, <1>4, <1>6 DEF ErrorsStaySmall, Within
<1> QED BY <1>5, <1>7 DEF StreamInv

\* What PackPixel does, its stores freed of the wrap that never happens.
ErrorAt == IF curRow[x] < 128 THEN curRow[x] ELSE curRow[x] - 255

LEMMA PackPixelFacts ==
    ASSUME StreamInv, PackPixel
    PROVE  /\ ErrorAt \in Int /\ -127 <= ErrorAt /\ ErrorAt <= 127
           /\ curRow' \in [0 .. Width - 1 -> Int]
           /\ nxtRow' \in [0 .. Width - 1 -> Int]
           /\ \A i \in 0 .. Width - 1 :
                 curRow'[i] = IF i = x + 1 THEN curRow[i] + Sixteenth(ErrorAt * 7)
                                           ELSE curRow[i]
           /\ y + 1 < Height => \A i \in 0 .. Width - 1 :
                 nxtRow'[i] = IF i = x - 1 THEN nxtRow[i] + Sixteenth(ErrorAt * 3)
                                ELSE IF i = x THEN nxtRow[i] + Sixteenth(ErrorAt * 5)
                                ELSE IF i = x + 1 THEN nxtRow[i] + Sixteenth(ErrorAt)
                                ELSE nxtRow[i]
           /\ y + 1 >= Height => nxtRow' = nxtRow
           /\ packed' = IF curRow[x] < 128 THEN packed \cup {<<x, y>>} ELSE packed
<1>0. StreamType /\ ErrorsStaySmall
  BY DEF StreamInv
<1>1. /\ picture \in Pictures /\ phase = "diffuse" /\ x \in 0 .. Width /\ x < Width
      /\ y \in 0..Height /\ y < Height
      /\ curRow \in [0 .. Width - 1 -> Int] /\ nxtRow \in [0 .. Width - 1 -> Int]
  BY <1>0 DEF StreamType, PackPixel
<1>2. Width \in Nat /\ Width > 0 /\ Height \in Nat /\ Height > 0
  BY <1>1, SizeFacts
<1>3. DOMAIN curRow = 0 .. Width - 1 /\ DOMAIN nxtRow = 0 .. Width - 1 /\ x \in 0 .. Width - 1
  BY <1>1, <1>2
<1>4. \A i \in 0 .. Width - 1 :
         /\ i > x => -69 <= curRow[i] /\ curRow[i] <= 324
         /\ i = x => -124 <= curRow[i] /\ curRow[i] <= 379
         /\ -69 <= nxtRow[i] /\ nxtRow[i] <= 69
  BY <1>0, <1>1, <1>3 DEF ErrorsStaySmall, Within, BelowBound
<1>5. ErrorAt \in Int /\ -127 <= ErrorAt /\ ErrorAt <= 127
  BY <1>1, <1>3, <1>4 DEF ErrorAt
<1>7. Int16(curRow[x] - (IF curRow[x] < 128 THEN 0 ELSE 255)) = ErrorAt
  <2>1. ErrorAt = curRow[x] - (IF curRow[x] < 128 THEN 0 ELSE 255)
    BY <1>1, <1>3 DEF ErrorAt
  <2> QED BY <2>1, <1>5, Int16Identity
<1>8. /\ packed' = IF curRow[x] < 128 THEN packed \cup {<<x, y>>} ELSE packed
      /\ curRow' = ToRight(curRow, ErrorAt)
      /\ nxtRow' = IF y + 1 < Height THEN Below(nxtRow, ErrorAt) ELSE nxtRow
  BY <1>7 DEF PackPixel
<1> DEFINE s7 == Sixteenth(ErrorAt * 7)
           s5 == Sixteenth(ErrorAt * 5)
           s3 == Sixteenth(ErrorAt * 3)
           s1 == Sixteenth(ErrorAt)
<1>9. /\ s7 \in Int /\ -55 <= s7 /\ s7 <= 55
      /\ s5 \in Int /\ -39 <= s5 /\ s5 <= 39
      /\ s3 \in Int /\ -23 <= s3 /\ s3 <= 23
      /\ s1 \in Int /\ -7 <= s1 /\ s1 <= 7
  BY <1>5, ErrorShares
<1> HIDE DEF s7, s5, s3, s1
<1>10. \A i \in 0 .. Width - 1 :
          curRow'[i] = IF i = x + 1 THEN curRow[i] + s7 ELSE curRow[i]
  <2> TAKE i \in 0 .. Width - 1
  <2>1. curRow'[i] = IF i = x + 1 THEN Int16(curRow[i] + s7) ELSE curRow[i]
    BY <1>3, <1>8 DEF ToRight, s7
  <2>2. CASE i = x + 1
    <3>1. curRow[i] \in Int /\ -69 <= curRow[i] /\ curRow[i] <= 324
      BY <1>1, <1>4, <2>2
    <3>2. Int16(curRow[i] + s7) = curRow[i] + s7
      BY <3>1, <1>9, Int16Identity
    <3> QED BY <2>1, <2>2, <3>2
  <2>3. CASE i # x + 1
    BY <2>1, <2>3
  <2> QED BY <2>2, <2>3
<1>11. ASSUME y + 1 < Height
       PROVE  \A i \in 0 .. Width - 1 :
                 nxtRow'[i] = IF i = x - 1 THEN nxtRow[i] + s3
                                ELSE IF i = x THEN nxtRow[i] + s5
                                ELSE IF i = x + 1 THEN nxtRow[i] + s1
                                ELSE nxtRow[i]
  <2> TAKE i \in 0 .. Width - 1
  <2>1. nxtRow'[i] = IF i = x - 1 THEN Int16(nxtRow[i] + s3)
                     ELSE IF i = x THEN Int16(nxtRow[i] + s5)
                     ELSE IF i = x + 1 THEN Int16(nxtRow[i] + s1) ELSE nxtRow[i]
    BY <1>3, <1>8, <1>11 DEF Below, s3, s5, s1
  <2>2. nxtRow[i] \in Int /\ -69 <= nxtRow[i] /\ nxtRow[i] <= 69
    BY <1>1, <1>4
  <2>3. /\ Int16(nxtRow[i] + s3) = nxtRow[i] + s3
        /\ Int16(nxtRow[i] + s5) = nxtRow[i] + s5
        /\ Int16(nxtRow[i] + s1) = nxtRow[i] + s1
    BY <2>2, <1>9, Int16Identity
  <2> QED BY <2>1, <2>3, <1>1
<1>12. y + 1 >= Height => nxtRow' = nxtRow
  BY <1>1, <1>2, <1>8
<1>13. /\ curRow' = [i \in 0 .. Width - 1 |-> curRow'[i]]
       /\ nxtRow' = [i \in 0 .. Width - 1 |-> nxtRow'[i]]
  BY <1>1, <1>3, <1>8 DEF ToRight, Below
<1>14. curRow' \in [0 .. Width - 1 -> Int]
  BY <1>1, <1>9, <1>10, <1>13
<1>15. nxtRow' \in [0 .. Width - 1 -> Int]
  <2>1. CASE y + 1 < Height
    <3>1. ASSUME NEW i \in 0 .. Width - 1 PROVE nxtRow'[i] \in Int
      BY <1>1, <1>9, <1>11, <2>1
    <3> QED BY <1>13, <3>1
  <2>2. CASE y + 1 >= Height
    BY <1>1, <1>12, <2>2
  <2> QED BY <1>1, <1>2, <2>1, <2>2
<1> QED
  BY <1>5, <1>8, <1>10, <1>11, <1>12, <1>14, <1>15 DEF s7, s5, s3, s1

LEMMA PackPixelKeeps == StreamInv /\ PackPixel => StreamInv'
<1> SUFFICES ASSUME StreamInv, PackPixel PROVE StreamInv'
  OBVIOUS
<1>0. StreamType /\ ErrorsStaySmall
  BY DEF StreamInv
<1>1. /\ picture \in Pictures /\ phase = "diffuse" /\ x \in 0 .. Width /\ x < Width
      /\ y \in 0..Height /\ y < Height
      /\ curRow \in [0 .. Width - 1 -> Int] /\ nxtRow \in [0 .. Width - 1 -> Int]
      /\ packed \subseteq (0 .. Width - 1) \X (0 .. Height - 1)
  BY <1>0 DEF StreamType, PackPixel
<1>2. Width \in Nat /\ Width > 0 /\ Height \in Nat /\ Height > 0
  BY <1>1, SizeFacts
<1>3. /\ phase' = "diffuse" /\ x' = x + 1 /\ y' = y /\ picture' = picture
      /\ Width' = Width /\ Height' = Height
  BY <1>1 DEF PackPixel, Width, Height
<1> DEFINE s7 == Sixteenth(ErrorAt * 7)
           s5 == Sixteenth(ErrorAt * 5)
           s3 == Sixteenth(ErrorAt * 3)
           s1 == Sixteenth(ErrorAt)
<1>4. /\ s7 \in Int /\ -55 <= s7 /\ s7 <= 55
      /\ s5 \in Int /\ -39 <= s5 /\ s5 <= 39
      /\ s3 \in Int /\ -23 <= s3 /\ s3 <= 23
      /\ s1 \in Int /\ -7 <= s1 /\ s1 <= 7
  BY PackPixelFacts, ErrorShares
<1>5. /\ curRow' \in [0 .. Width - 1 -> Int] /\ nxtRow' \in [0 .. Width - 1 -> Int]
      /\ \A i \in 0 .. Width - 1 :
            curRow'[i] = IF i = x + 1 THEN curRow[i] + s7 ELSE curRow[i]
      /\ y + 1 < Height => \A i \in 0 .. Width - 1 :
            nxtRow'[i] = IF i = x - 1 THEN nxtRow[i] + s3
                           ELSE IF i = x THEN nxtRow[i] + s5
                           ELSE IF i = x + 1 THEN nxtRow[i] + s1
                           ELSE nxtRow[i]
      /\ y + 1 >= Height => nxtRow' = nxtRow
      /\ packed' = IF curRow[x] < 128 THEN packed \cup {<<x, y>>} ELSE packed
  BY PackPixelFacts
<1> HIDE DEF s7, s5, s3, s1
<1>6. StreamType'
  <2>1. x \in 0 .. Width - 1 /\ y \in 0 .. Height - 1
    BY <1>1, <1>2
  <2>2. <<x, y>> \in (0 .. Width - 1) \X (0 .. Height - 1)
    BY <2>1
  <2>3. packed' \subseteq (0 .. Width - 1) \X (0 .. Height - 1)
    BY <1>1, <1>5, <2>2
  <2> QED BY <1>1, <1>2, <1>3, <1>5, <2>3 DEF StreamType
<1>7. \A i \in 0 .. Width - 1 :
         /\ i > x => -69 <= curRow[i] /\ curRow[i] <= 324
         /\ -BelowBound(i) <= nxtRow[i] /\ nxtRow[i] <= BelowBound(i)
  BY <1>0, <1>1 DEF ErrorsStaySmall, Within
<1>8. ASSUME NEW i \in 0 .. Width - 1
      PROVE  /\ i > x' => Within(curRow'[i], -69, 324)
             /\ i = x' => Within(curRow'[i], -124, 379)
  <2>1. curRow[i] \in Int /\ curRow'[i] = IF i = x + 1 THEN curRow[i] + s7 ELSE curRow[i]
    BY <1>1, <1>5
  <2>2. i > x => -69 <= curRow[i] /\ curRow[i] <= 324
    BY <1>7
  <2> QED BY <1>1, <1>3, <1>4, <2>1, <2>2 DEF Within
<1>9. ASSUME NEW i \in 0 .. Width - 1
      PROVE  Within(nxtRow'[i], -BelowBound(i)', BelowBound(i)')
  <2>1. nxtRow[i] \in Int /\ -BelowBound(i) <= nxtRow[i] /\ nxtRow[i] <= BelowBound(i)
    BY <1>1, <1>7
  <2>2. CASE y + 1 < Height
    <3>1. nxtRow'[i] = IF i = x - 1 THEN nxtRow[i] + s3
                         ELSE IF i = x THEN nxtRow[i] + s5
                         ELSE IF i = x + 1 THEN nxtRow[i] + s1
                         ELSE nxtRow[i]
      BY <1>5, <2>2
    <3>2. BelowBound(i)' = BelowBound(i) + (IF i = x - 1 THEN 23 ELSE IF i = x THEN 39
                                             ELSE IF i = x + 1 THEN 7 ELSE 0)
      BY <1>1, <1>3 DEF BelowBound
    <3>3. BelowBound(i) \in Int
      BY <1>1 DEF BelowBound
    <3>4. CASE i = x - 1
      BY <1>1, <1>4, <2>1, <3>1, <3>2, <3>3, <3>4 DEF Within
    <3>5. CASE i = x
      BY <1>1, <1>4, <2>1, <3>1, <3>2, <3>3, <3>5 DEF Within
    <3>6. CASE i = x + 1
      BY <1>1, <1>4, <2>1, <3>1, <3>2, <3>3, <3>6 DEF Within
    <3>7. CASE i \notin {x - 1, x, x + 1}
      BY <1>1, <1>4, <2>1, <3>1, <3>2, <3>3, <3>7 DEF Within
    <3> QED BY <3>4, <3>5, <3>6, <3>7
  <2>3. CASE y + 1 >= Height
    <3>1. nxtRow'[i] = nxtRow[i]
      BY <1>5, <2>3
    <3> QED BY <1>1, <1>3, <2>1, <3>1 DEF Within, BelowBound
  <2> QED BY <1>1, <1>2, <2>2, <2>3
<1>10. ErrorsStaySmall'
  BY <1>3, <1>5, <1>8, <1>9 DEF ErrorsStaySmall
<1> QED BY <1>6, <1>10 DEF StreamInv

LEMMA CallKeeps ==
    ASSUME StreamInv, NEW p \in Pictures, NextCall(p)
    PROVE  StreamInv'
<1>1. picture' \in Pictures
  BY DEF NextCall
<1>2. Width' \in Nat /\ Width' > 0 /\ Height' \in Nat /\ Height' > 0
  BY <1>1, PictureFacts DEF Width, Height
<1>3. NoErrors(picture)' = [i \in 0 .. Width' - 1 |-> 0]
  BY DEF NoErrors, Width
<1>4. /\ curRow' = NoErrors(picture)' /\ nxtRow' = NoErrors(picture)'
      /\ packed' = {} /\ x' = 0 /\ y' = 0 /\ phase' = "read"
  BY DEF NextCall, NoErrors
<1> QED
  BY <1>1, <1>2, <1>3, <1>4 DEF StreamInv, StreamType, ErrorsStaySmall, Within

LEMMA StreamKeeps == StreamInv /\ [Next]_streamVars => StreamInv'
<1> SUFFICES ASSUME StreamInv, [Next]_streamVars PROVE StreamInv'
  OBVIOUS
<1>1. CASE Throw
  <2>1. UNCHANGED <<picture, curRow, nxtRow, packed, x, y>> /\ phase = "read" /\ phase' = "failed"
    BY <1>1 DEF Throw
  <2> QED
    BY <2>1 DEF StreamInv, StreamType, ErrorsStaySmall, Within, NoErrors, Width, Height
<1>2. CASE UNCHANGED streamVars
  BY <1>2 DEF streamVars, StreamInv, StreamType, ErrorsStaySmall, Within, BelowBound,
              NoErrors, Width, Height
<1> QED
  BY <1>1, <1>2, ReadLineKeeps, PackPixelKeeps, EndLineKeeps, CallKeeps DEF Next, StreamStep

-----------------------------------------------------------------------------
\* What the steps of the page do to the conversion.
LEMMA PageStreams == StreamType /\ [PageNext]_vars => [Next]_streamVars
<1> SUFFICES ASSUME StreamType, [PageNext]_vars PROVE [Next]_streamVars
  OBVIOUS
<1>1. CASE FileGray
  BY <1>1 DEF FileGray, Next, StreamType
<1>2. CASE ConvertStep
  BY <1>2 DEF ConvertStep, Next
<1>3. CASE LoadConfig \/ Rasterize \/ FileInk \/ DryRun \/ Submit
  BY <1>3 DEF LoadConfig, Rasterize, FileInk, DryRun, Submit
<1>4. CASE UNCHANGED vars
  BY <1>4 DEF vars
<1> QED BY <1>1, <1>2, <1>3, <1>4 DEF PageNext

LEMMA StreamInvariant == PageSpec => []StreamInv
<1>1. PageInit => StreamInv
  BY StreamInit DEF PageInit
<1>2. StreamInv /\ [PageNext]_vars => StreamInv'
  BY PageStreams, StreamKeeps DEF StreamInv
<1> QED BY <1>1, <1>2, PTL DEF PageSpec

\* No store of the streaming conversion into its int16_t rows ever wraps, for a
\* picture of any size (lines 179-232 of bilevel_converter.cpp).
THEOREM NoWrap == PageSpec => []ErrorsStaySmall
<1>1. StreamInv => ErrorsStaySmall
  BY DEF StreamInv
<1> QED BY <1>1, StreamInvariant, PTL

-----------------------------------------------------------------------------
\* The refinement.
LEMMA Shares ==
    ASSUME NEW e \in Int, NEW dx \in Int, NEW dy \in Int
    PROVE  Sixteenth(e * Whole!Weight(dx, dy)) =
              IF dx = 1 /\ dy = 0 THEN Sixteenth(e * 7)
              ELSE IF dx = -1 /\ dy = 1 THEN Sixteenth(e * 3)
              ELSE IF dx = 0 /\ dy = 1 THEN Sixteenth(e * 5)
              ELSE IF dx = 1 /\ dy = 1 THEN Sixteenth(e)
              ELSE 0
<1>1. CASE dx = 1 /\ dy = 0
  BY <1>1 DEF Whole!Weight
<1>2. CASE dx = -1 /\ dy = 1
  BY <1>2 DEF Whole!Weight
<1>3. CASE dx = 0 /\ dy = 1
  BY <1>3 DEF Whole!Weight
<1>4. CASE dx = 1 /\ dy = 1
  <2>1. Whole!Weight(dx, dy) = 1
    BY <1>4 DEF Whole!Weight
  <2>2. e * 1 = e
    OBVIOUS
  <2> QED BY <1>4, <2>1, <2>2
<1>5. CASE ~(dx = 1 /\ dy = 0) /\ ~(dx = -1 /\ dy = 1) /\ ~(dx = 0 /\ dy = 1) /\ ~(dx = 1 /\ dy = 1)
  <2>1. Whole!Weight(dx, dy) = 0
    BY <1>5 DEF Whole!Weight
  <2>2. e * 0 = 0 /\ Sixteenth(0) = 0
    BY DEF Sixteenth, Whole!Sixteenth
  <2> QED BY <1>5, <2>1, <2>2
<1> QED BY <1>1, <1>2, <1>3, <1>4, <1>5

\* The mapped state.
mappedWorking == [j \in 0 .. Height - 1 |-> [i \in 0 .. Width - 1 |-> Pending(i, j)]]
mappedX == IF x = Width THEN 0 ELSE x
mappedY == IF x = Width THEN y + 1 ELSE y

LEMMA MappedSame ==
    ASSUME Width' = Width, Height' = Height,
           \A j \in 0 .. Height - 1, i \in 0 .. Width - 1 : Pending(i, j)' = Pending(i, j)
    PROVE  mappedWorking' = mappedWorking
BY DEF mappedWorking

LEMMA ReadLineStutters ==
    ASSUME StreamInv, ReadLine
    PROVE  UNCHANGED <<picture, mappedWorking, packed, mappedX, mappedY>>
<1>0. StreamType /\ ErrorsStaySmall
  BY DEF StreamInv
<1>1. /\ picture \in Pictures /\ phase = "read" /\ x = 0 /\ y \in 0..Height /\ y < Height
      /\ curRow \in [0 .. Width - 1 -> Int]
  BY <1>0 DEF StreamType, ReadLine
<1>2. Width \in Nat /\ Width > 0 /\ Height \in Nat /\ Height > 0
  BY <1>1, SizeFacts
<1>3. DOMAIN curRow = 0 .. Width - 1
  BY <1>1
<1>4. /\ \A i \in 0 .. Width - 1 : -69 <= curRow[i] /\ curRow[i] <= 69
      /\ nxtRow = [i \in 0 .. Width - 1 |-> 0]
  BY <1>0, <1>1, <1>3 DEF ErrorsStaySmall, Within, NoErrors, Width
<1>5. /\ phase' = "diffuse" /\ picture' = picture /\ nxtRow' = nxtRow /\ packed' = packed
      /\ x' = x /\ y' = y /\ Width' = Width /\ Height' = Height
      /\ curRow' = [i \in 0 .. Width - 1 |-> Int16(curRow[i] + picture.gray[y][i])]
  BY <1>3 DEF ReadLine, Width, Height
<1>6. ASSUME NEW j \in 0 .. Height - 1, NEW i \in 0 .. Width - 1
      PROVE  Pending(i, j)' = Pending(i, j)
  <2>1. picture.gray[j][i] \in Int /\ 0 <= picture.gray[j][i] /\ picture.gray[j][i] <= 255
    BY <1>1, SizeFacts
  <2>2. curRow[i] \in Int /\ -69 <= curRow[i] /\ curRow[i] <= 69 /\ nxtRow'[i] = 0
    BY <1>1, <1>4, <1>5
  <2>3. CASE j = y
    <3>1. curRow'[i] = Int16(curRow[i] + picture.gray[j][i])
      BY <1>5, <2>3
    <3>2. curRow'[i] = curRow[i] + picture.gray[j][i]
      BY <2>1, <2>2, <3>1, Int16Identity
    <3> QED BY <1>1, <1>5, <2>3, <3>2 DEF Pending
  <2>4. CASE j # y
    BY <1>1, <1>5, <2>1, <2>2, <2>4 DEF Pending
  <2> QED BY <2>3, <2>4
<1>7. mappedWorking' = mappedWorking
  BY <1>5, <1>6, MappedSame
<1> QED BY <1>1, <1>2, <1>5, <1>7 DEF mappedX, mappedY

LEMMA EndLineStutters ==
    ASSUME StreamInv, EndLine
    PROVE  UNCHANGED <<picture, mappedWorking, packed, mappedX, mappedY>>
<1>1. /\ picture \in Pictures /\ phase = "diffuse" /\ x = Width /\ y \in 0..Height /\ y < Height
  BY DEF StreamInv, StreamType, EndLine
<1>2. Width \in Nat /\ Width > 0 /\ Height \in Nat /\ Height > 0
  BY <1>1, SizeFacts
<1>3. /\ phase' = IF y + 1 < Height THEN "read" ELSE "done"
      /\ picture' = picture /\ packed' = packed /\ x' = 0 /\ y' = y + 1
      /\ Width' = Width /\ Height' = Height /\ curRow' = nxtRow
  BY DEF EndLine, Rotate, MoreLines, Width, Height
<1>4. ASSUME NEW j \in 0 .. Height - 1, NEW i \in 0 .. Width - 1
      PROVE  Pending(i, j)' = Pending(i, j)
  <2>1. CASE j <= y
    BY <1>1, <1>2, <1>3, <2>1 DEF Pending
  <2>2. CASE j > y
    BY <1>1, <1>2, <1>3, <2>2 DEF Pending
  <2> QED BY <1>1, <2>1, <2>2
<1>5. mappedWorking' = mappedWorking
  BY <1>3, <1>4, MappedSame
<1> QED BY <1>1, <1>2, <1>3, <1>5 DEF mappedX, mappedY

LEMMA ThrowStutters ==
    ASSUME StreamInv, Throw
    PROVE  UNCHANGED <<picture, mappedWorking, packed, mappedX, mappedY>>
<1>1. /\ UNCHANGED <<picture, curRow, nxtRow, packed, x, y>> /\ phase = "read" /\ phase' = "failed"
      /\ Width' = Width /\ Height' = Height
  BY DEF Throw, Width, Height
<1>2. ASSUME NEW j \in 0 .. Height - 1, NEW i \in 0 .. Width - 1
      PROVE  Pending(i, j)' = Pending(i, j)
  BY <1>1 DEF Pending
<1> QED BY <1>1, <1>2, MappedSame DEF mappedX, mappedY

LEMMA PackPixelDiffuses == StreamInv /\ PackPixel => Whole!DiffusePixel
<1> SUFFICES ASSUME StreamInv, PackPixel PROVE Whole!DiffusePixel
  OBVIOUS
<1>0. StreamType /\ ErrorsStaySmall
  BY DEF StreamInv
<1>1. /\ picture \in Pictures /\ phase = "diffuse" /\ x \in 0 .. Width /\ x < Width
      /\ y \in 0..Height /\ y < Height
      /\ curRow \in [0 .. Width - 1 -> Int] /\ nxtRow \in [0 .. Width - 1 -> Int]
  BY <1>0 DEF StreamType, PackPixel
<1>2. Width \in Nat /\ Width > 0 /\ Height \in Nat /\ Height > 0
  BY <1>1, SizeFacts
<1>3. /\ phase' = "diffuse" /\ x' = x + 1 /\ y' = y /\ picture' = picture
      /\ Width' = Width /\ Height' = Height
  BY <1>1 DEF PackPixel, Width, Height
<1>4. x \in 0 .. Width - 1 /\ y \in 0 .. Height - 1 /\ mappedX = x /\ mappedY = y
  BY <1>1, <1>2 DEF mappedX, mappedY
<1>5. mappedWorking[y][x] = curRow[x]
  BY <1>1, <1>4 DEF mappedWorking, Pending
<1>6. Whole!ErrorOf(curRow[x]) = ErrorAt /\ (Whole!IsDot(curRow[x]) <=> curRow[x] < 128)
  BY DEF Whole!ErrorOf, Whole!IsDot, ErrorAt
<1>7. ErrorAt \in Int /\ -127 <= ErrorAt /\ ErrorAt <= 127
  BY PackPixelFacts
<1> DEFINE s7 == Sixteenth(ErrorAt * 7)
           s5 == Sixteenth(ErrorAt * 5)
           s3 == Sixteenth(ErrorAt * 3)
           s1 == Sixteenth(ErrorAt)
           share(dx, dy) == Sixteenth(ErrorAt * Whole!Weight(dx, dy))
<1>8. /\ s7 \in Int /\ -55 <= s7 /\ s7 <= 55
      /\ s5 \in Int /\ -39 <= s5 /\ s5 <= 39
      /\ s3 \in Int /\ -23 <= s3 /\ s3 <= 23
      /\ s1 \in Int /\ -7 <= s1 /\ s1 <= 7
  BY <1>7, ErrorShares
<1>9. /\ \A i \in 0 .. Width - 1 :
            curRow'[i] = IF i = x + 1 THEN curRow[i] + s7 ELSE curRow[i]
      /\ y + 1 < Height => \A i \in 0 .. Width - 1 :
            nxtRow'[i] = IF i = x - 1 THEN nxtRow[i] + s3
                         ELSE IF i = x THEN nxtRow[i] + s5
                         ELSE IF i = x + 1 THEN nxtRow[i] + s1
                         ELSE nxtRow[i]
      /\ packed' = IF curRow[x] < 128 THEN packed \cup {<<x, y>>} ELSE packed
  BY PackPixelFacts
<1>10. \A dx, dy \in Int : share(dx, dy) =
              IF dx = 1 /\ dy = 0 THEN s7
              ELSE IF dx = -1 /\ dy = 1 THEN s3
              ELSE IF dx = 0 /\ dy = 1 THEN s5
              ELSE IF dx = 1 /\ dy = 1 THEN s1
              ELSE 0
  BY <1>7, Shares
<1> HIDE DEF s7, s5, s3, s1, share
<1>11. \A i \in 0 .. Width - 1 :
         /\ i > x => -69 <= curRow[i] /\ curRow[i] <= 324
         /\ -69 <= nxtRow[i] /\ nxtRow[i] <= 69
  BY <1>0, <1>1 DEF ErrorsStaySmall, Within, BelowBound
<1>12. ASSUME NEW j \in 0 .. Height - 1, NEW i \in 0 .. Width - 1
       PROVE  Pending(i, j)' = IF i = x /\ j = y THEN 0
                               ELSE Int16(mappedWorking[j][i] + share(i - x, j - y))
  <2>1. /\ picture.gray[j][i] \in Int /\ 0 <= picture.gray[j][i] /\ picture.gray[j][i] <= 255
        /\ curRow[i] \in Int /\ nxtRow[i] \in Int
        /\ i > x => -69 <= curRow[i] /\ curRow[i] <= 324
        /\ -69 <= nxtRow[i] /\ nxtRow[i] <= 69
    BY <1>1, <1>11, SizeFacts
  <2>2. mappedWorking[j][i] = Pending(i, j)
    BY DEF mappedWorking
  <2>3. i - x \in Int /\ j - y \in Int
    BY <1>1
  <2>4. CASE j < y
    <3>1. share(i - x, j - y) = 0 /\ Pending(i, j) = 0 /\ Pending(i, j)' = 0
      BY <1>1, <1>3, <1>10, <2>3, <2>4 DEF Pending
    <3> QED BY <2>2, <2>4, <3>1, Int16Identity
  <2>5. CASE j = y /\ i < x
    <3>1. share(i - x, j - y) = 0 /\ Pending(i, j) = 0 /\ Pending(i, j)' = 0
      BY <1>1, <1>3, <1>10, <2>3, <2>5 DEF Pending
    <3> QED BY <2>2, <2>5, <3>1, Int16Identity
  <2>6. CASE j = y /\ i = x
    BY <1>1, <1>3, <2>6 DEF Pending
  <2>7. CASE j = y /\ i > x
    <3>1. share(i - x, j - y) = IF i = x + 1 THEN s7 ELSE 0
      BY <1>1, <1>10, <2>3, <2>7
    <3>2. Pending(i, j) = curRow[i] /\ Pending(i, j)' = curRow'[i]
      BY <1>1, <1>3, <2>7 DEF Pending
    <3>3. curRow'[i] = curRow[i] + share(i - x, j - y)
      BY <1>9, <2>1, <3>1
    <3>4. Int16(curRow[i] + share(i - x, j - y)) = curRow[i] + share(i - x, j - y)
      BY <1>8, <2>1, <2>7, <3>1, Int16Identity
    <3> QED BY <2>2, <2>7, <3>2, <3>3, <3>4
  <2>8. CASE j = y + 1
    <3>1. share(i - x, j - y) = IF i = x - 1 THEN s3 ELSE IF i = x THEN s5
                                ELSE IF i = x + 1 THEN s1 ELSE 0
      BY <1>1, <1>10, <2>3, <2>8
    <3>2. /\ Pending(i, j) = nxtRow[i] + picture.gray[j][i]
          /\ Pending(i, j)' = nxtRow'[i] + picture.gray[j][i]
      BY <1>1, <1>3, <2>8 DEF Pending
    <3>0. y + 1 < Height
      BY <1>1, <1>2, <2>8
    <3>3. nxtRow'[i] = nxtRow[i] + share(i - x, j - y)
      BY <1>9, <2>1, <3>0, <3>1
    <3>4. Int16(Pending(i, j) + share(i - x, j - y)) = Pending(i, j) + share(i - x, j - y)
      BY <1>8, <2>1, <3>1, <3>2, Int16Identity
    <3>5. share(i - x, j - y) \in Int
      BY <1>8, <3>1
    <3> QED BY <1>1, <2>1, <2>2, <2>8, <3>2, <3>3, <3>4, <3>5
  <2>9. CASE j > y + 1
    <3>1. share(i - x, j - y) = 0
      BY <1>1, <1>10, <2>3, <2>9
    <3>2. Pending(i, j) = picture.gray[j][i] /\ Pending(i, j)' = picture.gray[j][i]
      BY <1>1, <1>3, <2>9 DEF Pending
    <3>3. Int16(picture.gray[j][i] + 0) = picture.gray[j][i]
      BY <2>1, Int16Identity
    <3> QED BY <1>1, <2>2, <2>9, <3>1, <3>2, <3>3
  <2> QED BY <1>1, <2>4, <2>5, <2>6, <2>7, <2>8, <2>9
<1>13. mappedWorking' = [j \in 0 .. Height - 1 |-> [i \in 0 .. Width - 1 |->
           IF i = x /\ j = y THEN 0
           ELSE Int16(mappedWorking[j][i] + share(i - x, j - y))]]
  <2>1. mappedWorking' = [j \in 0 .. Height - 1 |-> [i \in 0 .. Width - 1 |-> Pending(i, j)']]
    BY <1>3 DEF mappedWorking
  <2> QED BY <1>12, <2>1
<1>14. IF x + 1 < Width THEN mappedX' = x + 1 /\ mappedY' = y
                        ELSE mappedX' = 0 /\ mappedY' = y + 1
  BY <1>1, <1>2, <1>3 DEF mappedX, mappedY
<1>15. mappedY < picture.height
  BY <1>1, <1>4 DEF Height
<1>16. packed' = IF Whole!IsDot(mappedWorking[mappedY][mappedX])
                   THEN packed \cup {<<mappedX, mappedY>>} ELSE packed
  BY <1>4, <1>5, <1>6, <1>9
<1>17. mappedWorking' = [j \in Whole!Rows(picture) |-> [i \in Whole!Cols(picture) |->
           IF i = mappedX /\ j = mappedY THEN 0
           ELSE Whole!Int16(mappedWorking[j][i]
                   + Whole!Sixteenth(Whole!ErrorOf(mappedWorking[mappedY][mappedX])
                                     * Whole!Weight(i - mappedX, j - mappedY)))]]
  BY <1>4, <1>5, <1>6, <1>13
  DEF Whole!Rows, Whole!Cols, Width, Height, share, Int16, Sixteenth
<1>18. IF mappedX + 1 < picture.width THEN mappedX' = mappedX + 1 /\ mappedY' = mappedY
                                      ELSE mappedX' = 0 /\ mappedY' = mappedY + 1
  BY <1>4, <1>14 DEF Width
<1> QED
  BY <1>3, <1>15, <1>16, <1>17, <1>18
  DEF Whole!DiffusePixel, mappedWorking, mappedX, mappedY

LEMMA CallBegins ==
    ASSUME StreamInv, NEW p \in Pictures, NextCall(p)
    PROVE  Whole!NextCall
<1>1. phase = "done" /\ x = 0 /\ y = Height /\ picture \in Pictures
  BY DEF NextCall, StreamInv, StreamType
<1>2. Width \in Nat /\ Width > 0 /\ Height \in Nat /\ Height > 0
  BY <1>1, SizeFacts
<1>3. mappedY = picture.height
  BY <1>1, <1>2 DEF mappedY, Height
<1>4. /\ picture' = p /\ curRow' = [i \in 0 .. Width' - 1 |-> 0] /\ packed' = {}
      /\ x' = 0 /\ y' = 0 /\ phase' = "read"
  BY DEF NextCall, NoErrors, Width
<1>5. /\ Width' \in Nat /\ Width' > 0 /\ Height' \in Nat /\ Height' > 0
      /\ picture'.gray \in [0 .. Height' - 1 -> [0 .. Width' - 1 -> 0..255]]
  <2>1. /\ p.width \in Nat \ {0} /\ p.height \in Nat \ {0}
        /\ p.gray \in [0 .. p.height - 1 -> [0 .. p.width - 1 -> 0..255]]
    BY PicturesAssumption
  <2>2. Width' = p.width /\ Height' = p.height /\ picture'.gray = p.gray
    BY <1>4 DEF Width, Height
  <2>3. Width' \in Nat /\ Width' > 0 /\ Height' \in Nat /\ Height' > 0
    BY <2>1, <2>2
  <2>4. picture'.gray \in [0 .. Height' - 1 -> [0 .. Width' - 1 -> 0..255]]
    BY <2>1, <2>2, Zenon
  <2> QED BY <2>3, <2>4
<1>6. mappedX' = 0 /\ mappedY' = 0
  BY <1>4, <1>5 DEF mappedX, mappedY
<1>7. ASSUME NEW j \in 0 .. Height' - 1, NEW i \in 0 .. Width' - 1
      PROVE  Pending(i, j)' = picture'.gray[j][i]
  <2>1. picture'.gray[j][i] \in Int /\ curRow'[i] = 0
    <3>1. picture'.gray[j] \in [0 .. Width' - 1 -> 0..255]
      BY <1>5
    <3>2. picture'.gray[j][i] \in 0..255
      BY <3>1
    <3>3. picture'.gray[j][i] \in Int
      BY ONLY <3>2
    <3> QED BY <1>4, <3>3
  <2> QED BY <1>4, <2>1 DEF Pending
<1>8. mappedWorking' = [j \in 0 .. Height' - 1 |-> [i \in 0 .. Width' - 1 |-> picture'.gray[j][i]]]
  BY <1>7 DEF mappedWorking
<1>9. mappedWorking' = picture'.gray
  BY <1>5, <1>8
<1> QED
  BY <1>3, <1>4, <1>6, <1>9 DEF Whole!NextCall, mappedWorking, mappedX, mappedY

LEMMA InitBegins == Init => Whole!Init
<1> SUFFICES ASSUME Init PROVE Whole!Init
  OBVIOUS
<1>1. /\ picture \in Pictures /\ curRow = [i \in 0 .. Width - 1 |-> 0] /\ packed = {}
      /\ x = 0 /\ y = 0 /\ phase = "read"
  BY DEF Init, NoErrors, Width
<1>2. /\ Width \in Nat /\ Width > 0 /\ Height \in Nat /\ Height > 0
      /\ picture.gray \in [0 .. Height - 1 -> [0 .. Width - 1 -> 0..255]]
  BY <1>1, PicturesAssumption DEF Width, Height
<1>3. mappedX = 0 /\ mappedY = 0
  BY <1>1, <1>2 DEF mappedX, mappedY
<1>4. ASSUME NEW j \in 0 .. Height - 1, NEW i \in 0 .. Width - 1
      PROVE  Pending(i, j) = picture.gray[j][i]
  <2>1. picture.gray[j][i] \in Int /\ curRow[i] = 0
    <3>1. picture.gray[j] \in [0 .. Width - 1 -> 0..255]
      BY <1>2
    <3>2. picture.gray[j][i] \in 0..255
      BY <3>1
    <3>3. picture.gray[j][i] \in Int
      BY ONLY <3>2
    <3> QED BY <1>1, <3>3
  <2> QED BY <1>1, <2>1 DEF Pending
<1>5. mappedWorking = [j \in 0 .. Height - 1 |-> [i \in 0 .. Width - 1 |-> picture.gray[j][i]]]
  BY <1>4 DEF mappedWorking
<1>6. mappedWorking = picture.gray
  BY <1>2, <1>5
<1> QED
  BY <1>1, <1>3, <1>6 DEF Whole!Init, mappedWorking, mappedX, mappedY

LEMMA StreamRefines == StreamInv /\ [Next]_streamVars => [Whole!Next]_(Whole!wholeVars)
<1> SUFFICES ASSUME StreamInv, [Next]_streamVars PROVE [Whole!Next]_(Whole!wholeVars)
  OBVIOUS
<1>1. CASE ReadLine \/ EndLine \/ Throw
  <2>1. UNCHANGED <<picture, mappedWorking, packed, mappedX, mappedY>>
    BY <1>1, ReadLineStutters, EndLineStutters, ThrowStutters
  <2> QED BY <2>1 DEF Whole!wholeVars, mappedWorking, mappedX, mappedY
<1>2. CASE PackPixel
  BY <1>2, PackPixelDiffuses DEF Whole!Next
<1>3. CASE \E p \in Pictures : NextCall(p)
  BY <1>3, CallBegins DEF Whole!Next
<1>4. CASE UNCHANGED streamVars
  <2>1. /\ UNCHANGED <<picture, curRow, nxtRow, packed, x, y, phase>>
        /\ Width' = Width /\ Height' = Height
    BY <1>4 DEF streamVars, Width, Height
  <2>2. UNCHANGED <<picture, mappedWorking, packed, mappedX, mappedY>>
    BY <2>1 DEF mappedWorking, mappedX, mappedY, Pending
  <2> QED BY <2>2 DEF Whole!wholeVars, mappedWorking, mappedX, mappedY
<1> QED BY <1>1, <1>2, <1>3, <1>4 DEF Next, StreamStep

\* The conversion that holds two rows gives, for every picture, dot by dot what
\* the conversion with the picture in memory gives.
THEOREM PageImplementsWhole == PageSpec => StreamingImplementsWhole
<1>1. PageInit => Whole!Init
  BY InitBegins DEF PageInit
<1>2. StreamInv /\ [PageNext]_vars => [Whole!Next]_(Whole!wholeVars)
  BY PageStreams, StreamRefines DEF StreamInv
<1> QED
  BY <1>1, <1>2, StreamInvariant, PTL DEF PageSpec, StreamingImplementsWhole, Whole!Spec

-----------------------------------------------------------------------------
\* Memory: lines of B bits each.
LEMMA DivMod ==
    ASSUME NEW B \in Nat, B > 0, NEW n \in Int
    PROVE  /\ n \div B \in Int /\ n % B \in Int
           /\ n = (n \div B) * B + (n % B) /\ 0 <= n % B /\ n % B < B
OBVIOUS

LEMMA OneWayToDivide ==
    ASSUME NEW B \in Nat, B > 0, NEW k \in Int, NEW q \in Int,
           NEW a \in Int, 0 <= a, a < B, NEW r \in Int, 0 <= r, r < B,
           k * B + a = q * B + r
    PROVE  k = q /\ a = r
<1>0. k * B \in Int /\ q * B \in Int
  OBVIOUS
<1>1. CASE k < q
  <2>1. PICK t \in Nat : q = k + 1 + t
    BY <1>1
  <2>2. q * B = k * B + B + t * B /\ t * B >= 0 /\ t * B \in Int
    BY <2>1
  <2> QED BY <1>0, <2>2
<1>2. CASE k > q
  <2>1. PICK t \in Nat : k = q + 1 + t
    BY <1>2
  <2>2. k * B = q * B + B + t * B /\ t * B >= 0 /\ t * B \in Int
    BY <2>1
  <2> QED BY <1>0, <2>2
<1>3. CASE k = q
  BY <1>0, <1>3
<1> QED BY <1>1, <1>2, <1>3

LEMMA InLines ==
    ASSUME NEW B \in Nat, B > 0, NEW h \in Nat, NEW j \in 0 .. h - 1, NEW i \in 0 .. B - 1
    PROVE  j * B + i \in 0 .. B * h - 1
<1>1. PICK t \in Nat : h = j + 1 + t
  OBVIOUS
<1>2. B * h = j * B + B + t * B /\ t * B >= 0 /\ t * B \in Int /\ j * B \in Int /\ j * B >= 0
  BY <1>1
<1> QED BY <1>2

LEMMA DotsPlace ==
    ASSUME NEW B \in Nat, B > 0, NEW j \in Int, NEW i \in Int, 0 <= i, i < B
    PROVE  (j * B + i) \div B = j /\ (j * B + i) % B = i
<1> DEFINE n == j * B + i
           q == n \div B
           a == n % B
<1>1. n \in Int /\ n = j * B + i
  OBVIOUS
<1> HIDE DEF n
<1>2. q \in Int /\ a \in Int /\ n = q * B + a /\ 0 <= a /\ a < B
  BY <1>1, DivMod
<1> HIDE DEF q, a
<1>3. j = q /\ i = a
  BY <1>1, <1>2, OneWayToDivide
<1> QED BY <1>3 DEF n, q, a

\* Both ways in which the code computes a line's words agree, the line is a
\* whole number of 128-bit words and no shorter than the dots it is to hold, and
\* there is no shorter one (lines 112-119 and 168-171 of bilevel_converter.cpp,
\* line 193 of memjet-rip.cpp).
THEOREM LinesArePadded ==
    ASSUME NEW w \in Nat, w > 0
    PROVE  /\ BitsPerLine(w) \in Nat /\ BitsPerLine(w) = 32 * StripWords(w)
           /\ BitsPerLine(w) % 128 = 0
           /\ w <= BitsPerLine(w) /\ BitsPerLine(w) < w + 128
BY DEF BitsPerLine, WordsPerLine, StripWords

\* The memory holds the dots: in lines of B bits, bit i of line j is set exactly
\* if <<i, j>> is one of them.
Holds(data, dots, B, w, h) ==
    /\ data.bits \subseteq Int
    /\ data.size = B * h
    /\ \A j \in 0 .. h - 1, i \in 0 .. w - 1 : j * B + i \in data.bits <=> <<i, j>> \in dots

LEMMA PackedHolds ==
    ASSUME NEW w \in Nat, w > 0, NEW h \in Nat,
           NEW dots \in SUBSET ((0 .. w - 1) \X (0 .. h - 1))
    PROVE  Holds(Packed(dots, w, h), dots, BitsPerLine(w), w, h)
<1> DEFINE B == BitsPerLine(w)
           bits == {d[2] * B + d[1] : d \in dots}
<1>1. B \in Nat /\ w <= B /\ B > 0
  BY LinesArePadded
<1>2. Packed(dots, w, h).bits = bits /\ Packed(dots, w, h).size = B * h
  BY DEF Packed
<1> HIDE DEF B
<1>3. bits \subseteq Int
  <2> SUFFICES ASSUME NEW d \in dots PROVE d[2] * B + d[1] \in Int
    OBVIOUS
  <2> QED BY <1>1
<1>4. ASSUME NEW j \in 0 .. h - 1, NEW i \in 0 .. w - 1, <<i, j>> \in dots
      PROVE  j * B + i \in bits
  BY <1>4
<1>5. ASSUME NEW j \in 0 .. h - 1, NEW i \in 0 .. w - 1, j * B + i \in bits
      PROVE  <<i, j>> \in dots
  <2>1. PICK d \in dots : j * B + i = d[2] * B + d[1]
    BY <1>5
  <2>2. /\ d = <<d[1], d[2]>> /\ d[1] \in Int /\ 0 <= d[1] /\ d[1] < B /\ d[2] \in Int
    BY <1>1
  <2>3. i \in Int /\ 0 <= i /\ i < B /\ j \in Int
    BY <1>1
  <2> DEFINE q == d[2]
             r == d[1]
  <2>4. q \in Int /\ r \in Int /\ 0 <= r /\ r < B /\ j * B + i = q * B + r
    BY <2>1, <2>2
  <2> HIDE DEF q, r
  <2>5. j = q /\ i = r
    BY <1>1, <2>3, <2>4, OneWayToDivide
  <2> QED BY <2>2, <2>5 DEF q, r
<1> QED BY <1>2, <1>3, <1>4, <1>5 DEF Holds, B

LEMMA RepackedHolds ==
    ASSUME NEW w \in Nat, w > 0, NEW h \in Nat, NEW strip \in Nat, strip > w,
           NEW data, NEW dots \in SUBSET ((0 .. w - 1) \X (0 .. h - 1)),
           Holds(data, dots, BitsPerLine(w), w, h)
    PROVE  Holds(repackToStripWidth(data, w, h, strip), dots, BitsPerLine(strip), w, h)
<1> DEFINE from == BitsPerLine(w)
           to == BitsPerLine(strip)
           bits == {(b \div from) * to + (b % from) : b \in {c \in data.bits : c % from < w}}
           new == repackToStripWidth(data, w, h, strip)
<1>1. from \in Nat /\ w <= from /\ to \in Nat /\ strip <= to
  BY LinesArePadded
<1>2. new.bits = bits /\ new.size = to * h
  BY LinesArePadded DEF repackToStripWidth
<1>3. /\ data.bits \subseteq Int
      /\ \A j \in 0 .. h - 1, i \in 0 .. w - 1 : j * from + i \in data.bits <=> <<i, j>> \in dots
  BY DEF Holds
<1> HIDE DEF from, to, new
<1>4. ASSUME NEW b \in data.bits
      PROVE  /\ b \div from \in Int /\ b % from \in Int
             /\ b = (b \div from) * from + (b % from) /\ 0 <= b % from /\ b % from < from
  BY <1>1, <1>3, DivMod
<1>5. bits \subseteq Int
  <2> SUFFICES ASSUME NEW b \in data.bits PROVE (b \div from) * to + (b % from) \in Int
    OBVIOUS
  <2> QED BY <1>1, <1>4
<1>6. ASSUME NEW j \in 0 .. h - 1, NEW i \in 0 .. w - 1, j * to + i \in bits
      PROVE  <<i, j>> \in dots
  <2>1. PICK b \in data.bits : b % from < w /\ j * to + i = (b \div from) * to + (b % from)
    BY <1>6
  <2>2. b \div from \in Int /\ b % from \in Int /\ 0 <= b % from /\ b % from < to
    BY <1>1, <1>4, <2>1
  <2>3. i \in Int /\ 0 <= i /\ i < to /\ j \in Int /\ to > 0
    BY <1>1
  <2>4. j = b \div from /\ i = b % from
    BY <1>1, <2>1, <2>2, <2>3, OneWayToDivide
  <2>5. b = j * from + i
    BY <1>4, <2>4
  <2> QED BY <1>3, <2>5
<1>7. ASSUME NEW j \in 0 .. h - 1, NEW i \in 0 .. w - 1, <<i, j>> \in dots
      PROVE  j * to + i \in bits
  <2>1. PICK b \in data.bits : b = j * from + i
    BY <1>3, <1>7
  <2>2. i \in Int /\ 0 <= i /\ i < from /\ j \in Int /\ from > 0
    BY <1>1
  <2>3. /\ b \div from \in Int /\ b % from \in Int /\ 0 <= b % from /\ b % from < from
        /\ j * from + i = (b \div from) * from + (b % from)
    BY <1>4, <2>1
  <2> DEFINE q == b \div from
             r == b % from
  <2>4. q \in Int /\ r \in Int /\ 0 <= r /\ r < from /\ j * from + i = q * from + r
    BY <2>3
  <2> HIDE DEF q, r
  <2>5. j = q /\ i = r
    BY <1>1, <2>2, <2>4, OneWayToDivide
  <2> QED BY <2>5 DEF q, r
<1> QED BY <1>2, <1>3, <1>5, <1>6, <1>7 DEF Holds, to, new

LEMMA InvertedHolds ==
    ASSUME NEW w \in Nat, w > 0, NEW h \in Nat, NEW B \in Nat, w <= B,
           NEW data \in [bits : SUBSET Int, size : Int],
           NEW dots \in SUBSET ((0 .. w - 1) \X (0 .. h - 1)), Holds(data, dots, B, w, h)
    PROVE  Holds(invertBits(data), ((0 .. w - 1) \X (0 .. h - 1)) \ dots, B, w, h)
<1>1. /\ invertBits(data).bits = (0 .. data.size - 1) \ data.bits
      /\ invertBits(data).size = data.size
  BY DEF invertBits
<1>2. /\ data.size = B * h
      /\ \A j \in 0 .. h - 1, i \in 0 .. w - 1 : j * B + i \in data.bits <=> <<i, j>> \in dots
  BY DEF Holds
<1>3. ASSUME NEW j \in 0 .. h - 1, NEW i \in 0 .. w - 1
      PROVE  j * B + i \in 0 .. data.size - 1
  BY <1>2, InLines
<1>4. invertBits(data).bits \subseteq Int
  BY <1>1
<1>5. ASSUME NEW j \in 0 .. h - 1, NEW i \in 0 .. w - 1
      PROVE  j * B + i \in invertBits(data).bits
               <=> <<i, j>> \in ((0 .. w - 1) \X (0 .. h - 1)) \ dots
  BY <1>1, <1>2, <1>3
<1> QED BY <1>1, <1>2, <1>4, <1>5 DEF Holds

\* The memory is blank but for the h lines of w dots each.
Blank(data, B, w, h) == \A b \in data.bits : b % B < w /\ b \div B < h

LEMMA PackedIsBlank ==
    ASSUME NEW w \in Nat, w > 0, NEW h \in Nat,
           NEW dots \in SUBSET ((0 .. w - 1) \X (0 .. h - 1))
    PROVE  Blank(Packed(dots, w, h), BitsPerLine(w), w, h)
<1> DEFINE B == BitsPerLine(w)
<1>1. B \in Nat /\ w <= B /\ B > 0
  BY LinesArePadded
<1>2. Packed(dots, w, h).bits = {d[2] * B + d[1] : d \in dots}
  BY DEF Packed
<1> HIDE DEF B
<1> SUFFICES ASSUME NEW d \in dots
             PROVE  (d[2] * B + d[1]) % B < w /\ (d[2] * B + d[1]) \div B < h
  BY <1>2 DEF Blank, B
<1>3. d[1] \in 0 .. w - 1 /\ d[2] \in 0 .. h - 1
  OBVIOUS
<1> DEFINE i == d[1]
           j == d[2]
<1>4. i \in Int /\ 0 <= i /\ i < B /\ j \in Int /\ i < w /\ j < h
  BY <1>1, <1>3
<1> HIDE DEF i, j
<1>5. (j * B + i) \div B = j /\ (j * B + i) % B = i
  BY <1>1, <1>4, DotsPlace
<1> QED BY <1>4, <1>5 DEF i, j

LEMMA RepackedIsBlank ==
    ASSUME NEW w \in Nat, w > 0, NEW h \in Nat, NEW strip \in Nat, strip > w,
           NEW data, data.bits \subseteq Int, Blank(data, BitsPerLine(w), w, h)
    PROVE  Blank(repackToStripWidth(data, w, h, strip), BitsPerLine(strip), w, h)
<1> DEFINE from == BitsPerLine(w)
           to == BitsPerLine(strip)
<1>1. from \in Nat /\ w <= from /\ from > 0 /\ to \in Nat /\ strip <= to /\ to > 0
  BY LinesArePadded
<1>2. repackToStripWidth(data, w, h, strip).bits =
        {(b \div from) * to + (b % from) : b \in {c \in data.bits : c % from < w}}
  BY LinesArePadded DEF repackToStripWidth
<1> HIDE DEF from, to
<1> SUFFICES ASSUME NEW b \in data.bits, b % from < w
             PROVE  /\ ((b \div from) * to + (b % from)) % to < w
                    /\ ((b \div from) * to + (b % from)) \div to < h
  BY <1>2 DEF Blank, to
<1> DEFINE q == b \div from
           a == b % from
<1>3. q \in Int /\ a \in Int /\ 0 <= a /\ a < w /\ q < h
  BY <1>1, DivMod DEF Blank, from
<1> HIDE DEF q, a
<1>4. a < to
  BY <1>1, <1>3
<1>5. (q * to + a) \div to = q /\ (q * to + a) % to = a
  BY <1>1, <1>3, <1>4, DotsPlace
<1> QED BY <1>3, <1>5 DEF q, a

\* What the printhead finds in such a memory.
LEMMA HeldIsFound ==
    ASSUME NEW w \in Nat, w > 0, NEW h \in Nat, NEW B \in Nat, w <= B,
           NEW data, NEW dots \in SUBSET ((0 .. w - 1) \X (0 .. h - 1)), Holds(data, dots, B, w, h)
    PROVE  DotsIn(data, B) \cap ((0 .. w - 1) \X (0 .. h - 1)) = dots
<1>1. /\ data.bits \subseteq Int
      /\ \A j \in 0 .. h - 1, i \in 0 .. w - 1 : j * B + i \in data.bits <=> <<i, j>> \in dots
  BY DEF Holds
<1>2. ASSUME NEW i \in 0 .. w - 1, NEW j \in 0 .. h - 1, <<i, j>> \in DotsIn(data, B)
      PROVE  <<i, j>> \in dots
  <2>1. PICK b \in data.bits : i = b % B /\ j = b \div B
    BY <1>2 DEF DotsIn
  <2>2. B > 0 /\ b \in Int
    BY <1>1
  <2>3. b = (b \div B) * B + (b % B)
    BY <2>2, DivMod
  <2>4. b = j * B + i
    BY <2>1, <2>3
  <2> QED BY <1>1, <2>4
<1>3. ASSUME NEW i \in 0 .. w - 1, NEW j \in 0 .. h - 1, <<i, j>> \in dots
      PROVE  <<i, j>> \in DotsIn(data, B)
  <2>1. PICK b \in data.bits : b = j * B + i
    BY <1>1, <1>3
  <2>2. /\ b \div B \in Int /\ b % B \in Int /\ 0 <= b % B /\ b % B < B
        /\ j * B + i = (b \div B) * B + (b % B)
    BY <1>1, <2>1, DivMod
  <2>3. i \in Int /\ 0 <= i /\ i < B /\ j \in Int /\ B > 0
    OBVIOUS
  <2>4. j = b \div B /\ i = b % B
    BY <2>2, <2>3, OneWayToDivide
  <2> QED BY <2>4 DEF DotsIn
<1> QED BY <1>2, <1>3

-----------------------------------------------------------------------------
\* The planes.
Memory == [bits : SUBSET Int, size : Int]
Pixels == (0 .. Width - 1) \X (0 .. Height - 1)

Drawn(dots) == IF cfg.invertBits THEN Pixels \ dots ELSE dots

Fits(data, dots) ==
    /\ targetStripWidth >= Width =>
          /\ data.size = BitsPerLine(targetStripWidth) * Height
          /\ ~cfg.testPattern =>
                Holds(data, Drawn(dots), BitsPerLine(targetStripWidth), Width, Height)
    /\ ~cfg.invertBits /\ ~cfg.testPattern =>
          Blank(data, BitsPerLine(IF targetStripWidth >= Width THEN targetStripWidth ELSE Width),
                Width, Height)

LEMMA PlaneDataFits ==
    ASSUME picture \in Pictures, cfg.stripWidth \in Nat, NEW dots \in SUBSET Pixels
    PROVE  PlaneData(dots) \in Memory /\ Fits(PlaneData(dots), dots)
<1> DEFINE T == targetStripWidth
           own == Packed(dots, Width, Height)
           fitted == repackToStripWidth(own, Width, Height, T)
           filled == IF cfg.testPattern THEN testPattern(fitted, color) ELSE fitted
<1>1. Width \in Nat /\ Width > 0 /\ Height \in Nat /\ Height > 0
  BY SizeFacts
<1>2. T \in Nat /\ T > 0
  BY <1>1 DEF targetStripWidth
<1>3. /\ BitsPerLine(Width) \in Nat /\ BitsPerLine(Width) >= Width
      /\ BitsPerLine(T) \in Nat /\ BitsPerLine(T) >= T
      /\ BitsPerLine(T) = 32 * StripWords(T)
  BY <1>1, <1>2, LinesArePadded
<1>4. Holds(own, dots, BitsPerLine(Width), Width, Height)
  BY <1>1, PackedHolds DEF Pixels
<1>5. own \in Memory
  BY <1>1, <1>3, <1>4 DEF Packed, Holds, Memory
<1>13. Blank(own, BitsPerLine(Width), Width, Height)
  BY <1>1, PackedIsBlank DEF Pixels
<1> HIDE DEF T, own
<1>14. Blank(fitted, BitsPerLine(IF T >= Width THEN T ELSE Width), Width, Height)
  <2>1. CASE T <= Width
    <3>1. fitted = own
      BY <2>1 DEF repackToStripWidth
    <3>2. (IF T >= Width THEN T ELSE Width) = Width
      BY <1>1, <1>2, <2>1
    <3> QED BY <1>13, <3>1, <3>2
  <2>2. CASE T > Width
    <3>1. own.bits \subseteq Int /\ (IF T >= Width THEN T ELSE Width) = T
      BY <1>1, <1>2, <1>5, <2>2 DEF Memory
    <3> QED BY <1>1, <1>2, <1>13, <2>2, <3>1, RepackedIsBlank
  <2> QED BY <1>1, <1>2, <2>1, <2>2
<1>6. fitted \in Memory /\ (T >= Width => Holds(fitted, dots, BitsPerLine(T), Width, Height))
  <2>1. CASE T <= Width
    <3>1. fitted = own
      BY <2>1 DEF repackToStripWidth
    <3>2. T >= Width => T = Width
      BY <1>1, <1>2, <2>1
    <3> QED BY <1>4, <1>5, <3>1, <3>2
  <2>2. CASE T > Width
    <3>1. Holds(fitted, dots, BitsPerLine(T), Width, Height)
      BY <1>1, <1>2, <1>4, <2>2, RepackedHolds DEF Pixels
    <3>2. fitted.bits \subseteq Int /\ fitted.size = BitsPerLine(T) * Height
      BY <3>1 DEF Holds
    <3>3. fitted = [bits |-> fitted.bits, size |-> fitted.size]
      <4> DEFINE from == 32 * StripWords(Width)
                 to == 32 * StripWords(T)
                 moved == {(b \div from) * to + (b % from) :
                             b \in {c \in own.bits : c % from < Width}}
      <4>1. fitted = [bits |-> moved, size |-> to * Height]
        BY <1>1, <1>2, <2>2 DEF repackToStripWidth
      <4> HIDE DEF moved, to, fitted
      <4> QED BY <4>1
    <3>4. BitsPerLine(T) * Height \in Int
      BY <1>1, <1>3
    <3>5. fitted \in Memory
      BY <3>2, <3>3, <3>4 DEF Memory
    <3> QED BY <3>1, <3>5
  <2> QED BY <1>1, <1>2, <2>1, <2>2
<1> HIDE DEF fitted
<1>7. /\ filled \in Memory /\ filled.size = fitted.size
      /\ ~cfg.testPattern => filled = fitted
  BY <1>6 DEF testPattern, Memory
<1>8. PlaneData(dots) = IF cfg.invertBits THEN invertBits(filled) ELSE filled
  BY DEF PlaneData, T, own, fitted
<1> HIDE DEF filled
<1>9. invertBits(filled) \in Memory /\ invertBits(filled).size = filled.size
  BY <1>7 DEF invertBits, Memory
<1>10. PlaneData(dots) \in Memory /\ PlaneData(dots).size = fitted.size
  BY <1>7, <1>8, <1>9
<1>11. ASSUME T >= Width, ~cfg.testPattern
       PROVE  Holds(PlaneData(dots), Drawn(dots), BitsPerLine(T), Width, Height)
  <2>1. Holds(filled, dots, BitsPerLine(T), Width, Height)
    BY <1>6, <1>7, <1>11
  <2>2. CASE cfg.invertBits
    <3>1. Holds(invertBits(filled), Pixels \ dots, BitsPerLine(T), Width, Height)
      BY <1>1, <1>2, <1>3, <1>7, <1>11, <2>1, InvertedHolds DEF Pixels, Memory
    <3> QED BY <1>8, <2>2, <3>1 DEF Drawn
  <2>3. CASE ~cfg.invertBits
    BY <1>8, <2>1, <2>3 DEF Drawn
  <2> QED BY <2>2, <2>3
<1>12. T >= Width => fitted.size = BitsPerLine(T) * Height
  BY <1>6 DEF Holds
<1>15. ~cfg.invertBits /\ ~cfg.testPattern => PlaneData(dots) = fitted
  BY <1>7, <1>8
<1> QED BY <1>10, <1>11, <1>12, <1>14, <1>15 DEF Fits, T

Plane == [color : {"M", "C", "K", "Y"}, data : Memory, width : Int, height : Int,
          dots : SUBSET (Int \X Int)]

PageInv ==
    /\ StreamInv
    /\ env \in Envs
    /\ stage \in Stages
    /\ cfg.stripWidth \in Nat
    /\ planes \in Seq(Plane)
    /\ Len(planes) <= Len(planeColors)
    /\ stage \in {"config", "rasterize"} => planes = <<>>
    /\ stage = "convert" => Len(planes) < Len(planeColors)
    /\ stage \in {"send", "submitted"} => Len(planes) = Len(planeColors)
    /\ \A k \in 1 .. Len(planes) :
          /\ planes[k].height = Height
          /\ planes[k].width = targetStripWidth
          /\ planes[k].dots \subseteq Pixels
          /\ Fits(planes[k].data, planes[k].dots)
    /\ stage = "submitted" => job.stripWidth = targetStripWidth /\ job.pageHeight = Height

LEMMA ColorFacts ==
    /\ Len(planeColors) \in 1..4
    /\ \A k \in 1 .. Len(planeColors) : planeColors[k] \in {"M", "C", "K", "Y"}
<1>1. CASE cfg.forceFastMono
  BY <1>1 DEF planeColors
<1>2. CASE ~cfg.forceFastMono
  BY <1>2 DEF planeColors
<1> QED BY <1>1, <1>2

\* Filing a plane.
LEMMA FileKeeps ==
    ASSUME PageInv, StreamInv', stage = "convert", NEW dots \in SUBSET Pixels, FilePlane(dots),
           UNCHANGED <<picture, env, cfg, job>>
    PROVE  PageInv'
<1> DEFINE new == [color |-> color, data |-> PlaneData(dots), width |-> targetStripWidth,
                   height |-> Height, dots |-> dots]
<1>1. /\ planes' = Append(planes, new)
      /\ stage' = IF Len(planes) + 1 = Len(planeColors) THEN "send" ELSE "convert"
  BY DEF FilePlane
<1>2. /\ picture \in Pictures /\ cfg.stripWidth \in Nat /\ planes \in Seq(Plane)
      /\ Len(planes) < Len(planeColors) /\ Len(planes) \in Nat
      /\ \A k \in 1 .. Len(planes) :
            /\ planes[k].height = Height
            /\ planes[k].width = targetStripWidth
            /\ planes[k].dots \subseteq Pixels
            /\ Fits(planes[k].data, planes[k].dots)
  BY DEF PageInv, StreamInv, StreamType
<1>3. Width \in Nat /\ Width > 0 /\ Height \in Nat /\ Height > 0
  BY <1>2, SizeFacts
<1>4. PlaneData(dots) \in Memory /\ Fits(PlaneData(dots), dots)
  BY <1>2, PlaneDataFits
<1>5. color \in {"M", "C", "K", "Y"}
  BY <1>2, ColorFacts DEF color
<1>6. targetStripWidth \in Int
  BY <1>2, <1>3 DEF targetStripWidth
<1>7. dots \in SUBSET (Int \X Int)
  BY <1>3 DEF Pixels
<1>8. new \in Plane
  BY <1>3, <1>4, <1>5, <1>6, <1>7 DEF Plane
<1>9. /\ Width' = Width /\ Height' = Height /\ targetStripWidth' = targetStripWidth
      /\ planeColors' = planeColors /\ Pixels' = Pixels
      /\ \A data, d : Fits(data, d)' <=> Fits(data, d)
  BY DEF Width, Height, targetStripWidth, planeColors, Pixels, Fits, Drawn
<1>10. /\ new.height = Height /\ new.width = targetStripWidth /\ new.dots = dots /\ new.data = PlaneData(dots)
  OBVIOUS
<1> HIDE DEF new
<1>11. planes' \in Seq(Plane) /\ Len(planes') = Len(planes) + 1
  BY <1>1, <1>2, <1>8
<1>12. ASSUME NEW k \in 1 .. Len(planes')
       PROVE  /\ planes'[k].height = Height
              /\ planes'[k].width = targetStripWidth
              /\ planes'[k].dots \subseteq Pixels
              /\ Fits(planes'[k].data, planes'[k].dots)
  <2>1. CASE k <= Len(planes)
    <3>1. planes'[k] = planes[k] /\ k \in 1 .. Len(planes)
      BY <1>1, <1>2, <1>8, <1>11, <2>1
    <3> QED BY <1>2, <3>1
  <2>2. CASE k > Len(planes)
    <3>1. planes'[k] = new
      BY <1>1, <1>2, <1>8, <1>11, <2>2
    <3> QED BY <1>4, <1>10, <3>1
  <2> QED BY <1>2, <1>11, <2>1, <2>2
<1>13. /\ stage' \in {"send", "convert"}
       /\ stage' = "send" => Len(planes') = Len(planeColors)
       /\ stage' = "convert" => Len(planes') < Len(planeColors)
       /\ Len(planes') <= Len(planeColors)
  BY <1>1, <1>2, <1>11, ColorFacts
<1>14. env \in Envs
  BY DEF PageInv
<1> QED
  BY <1>2, <1>9, <1>11, <1>12, <1>13, <1>14 DEF PageInv, Stages

LEMMA NumbersAreTyped ==
    /\ "JSL_STRIP_WIDTH" \in DOMAIN Numbers
    /\ Numbers["JSL_STRIP_WIDTH"].fallback \in Nat
    /\ Numbers["JSL_STRIP_WIDTH"].range \subseteq Nat
<1>1. ASSUME NEW f \in Nat, NEW lo \in Nat, NEW hi \in Nat
      PROVE  Number(f, lo, hi).fallback \in Nat /\ Number(f, lo, hi).range \subseteq Nat
  BY DEF Number
<1>2. "JSL_STRIP_WIDTH" \in DOMAIN Numbers /\ Numbers["JSL_STRIP_WIDTH"] = Number(0, 0, 1000000)
  BY DEF Numbers
<1> QED BY <1>1, <1>2

LEMMA StripWidthType ==
    ASSUME Accepted(env.env)
    PROVE  loadRuntimeConfig(env.args, env.env).stripWidth \in Nat
<1> DEFINE raw == env.env.number["JSL_STRIP_WIDTH"]
<1>1. Accepts("JSL_STRIP_WIDTH", raw)
  BY NumbersAreTyped DEF Accepted
<1>2. parseInt("JSL_STRIP_WIDTH", raw) \in Nat
  <2> HIDE DEF raw
  <2>2. raw.kind = "unset" \/ raw.value \in Numbers["JSL_STRIP_WIDTH"].range
    BY <1>1 DEF Accepts
  <2> QED BY NumbersAreTyped, <2>2 DEF parseInt
<1> QED BY <1>2 DEF loadRuntimeConfig

LEMMA PageStart == PageInit => PageInv
<1> SUFFICES ASSUME PageInit PROVE PageInv
  OBVIOUS
<1>1. StreamInv
  BY StreamInit DEF PageInit
<1>2. cfg.stripWidth \in Nat
  <2>1. "JSL_STRIP_WIDTH" \in DOMAIN Numbers
    BY DEF Numbers
  <2>2. cfg.stripWidth = parseInt("JSL_STRIP_WIDTH", [n \in DOMAIN Numbers |-> Unset]["JSL_STRIP_WIDTH"])
    BY DEF PageInit, NoConfig, loadRuntimeConfig
  <2>3. cfg.stripWidth = parseInt("JSL_STRIP_WIDTH", Unset)
    BY <2>1, <2>2
  <2> QED BY <2>3, NumbersAreTyped DEF parseInt, Unset
<1>3. planes = <<>> /\ stage = "config" /\ env \in Envs
  BY DEF PageInit
<1>4. planes \in Seq(Plane) /\ Len(planes) = 0
  BY <1>3
<1> QED BY <1>1, <1>2, <1>3, <1>4, ColorFacts DEF PageInv, Stages

LEMMA PageKeeps == PageInv /\ [PageNext]_vars => PageInv'
<1> SUFFICES ASSUME PageInv, [PageNext]_vars PROVE PageInv'
  OBVIOUS
<1>0. StreamInv /\ StreamInv' /\ [Next]_streamVars /\ picture \in Pictures
  BY PageStreams, StreamKeeps DEF PageInv, StreamInv, StreamType
<1>1. CASE LoadConfig
  <2>1. CASE Accepted(env.env)
    <3>1. /\ cfg' = loadRuntimeConfig(env.args, env.env) /\ stage' = "rasterize"
          /\ planes' = planes /\ planes = <<>> /\ env' = env
      BY <1>1, <2>1 DEF LoadConfig, PageInv
    <3>2. cfg'.stripWidth \in Nat
      BY <2>1, <3>1, StripWidthType
    <3>3. Len(planeColors') \in 1..4
      <4>1. CASE cfg'.forceFastMono
        BY <4>1 DEF planeColors
      <4>2. CASE ~cfg'.forceFastMono
        BY <4>2 DEF planeColors
      <4> QED BY <4>1, <4>2
    <3>4. planes' \in Seq(Plane) /\ Len(planes') = 0
      BY <3>1
    <3> QED BY <1>0, <3>1, <3>2, <3>3, <3>4 DEF PageInv, Stages
  <2>2. CASE ~Accepted(env.env)
    <3>1. UNCHANGED <<picture, env, cfg, planes, job>> /\ stage' = "failed"
      BY <1>1, <2>2 DEF LoadConfig, streamVars
    <3> QED
      BY <1>0, <3>1 DEF PageInv, Stages, Fits, Drawn, Pixels, planeColors, targetStripWidth,
                        Width, Height
  <2> QED BY <2>1, <2>2
<1>2. CASE Rasterize
  <2>1. /\ UNCHANGED <<picture, env, cfg, planes, job>> /\ stage' \in {"convert", "failed"}
        /\ planes = <<>> /\ Len(planes) = 0
    BY <1>2 DEF Rasterize, streamVars, PageInv
  <2>2. Len(planeColors) \in 1..4 /\ planeColors' = planeColors
    BY <2>1, ColorFacts DEF planeColors
  <2>3. planes' \in Seq(Plane) /\ planes' = <<>> /\ cfg'.stripWidth \in Nat /\ env' \in Envs
    BY <2>1 DEF PageInv
  <2>4. Len(planes') = 0
    BY <2>1
  <2>5. \A k \in 1 .. Len(planes') :
           /\ planes'[k].height = Height'
           /\ planes'[k].width = targetStripWidth'
           /\ planes'[k].dots \subseteq Pixels'
           /\ Fits(planes[k].data, planes[k].dots)'
    BY <2>4
  <2>6. /\ Len(planes') <= Len(planeColors')
        /\ stage' \in {"config", "rasterize"} => planes' = <<>>
        /\ stage' = "convert" => Len(planes') < Len(planeColors')
        /\ stage' \in {"send", "submitted"} => Len(planes') = Len(planeColors')
        /\ stage' \in Stages /\ stage' # "submitted"
    BY <2>1, <2>2, <2>4 DEF Stages
  <2> QED
    BY <1>0, <2>3, <2>5, <2>6 DEF PageInv
<1>3. CASE ConvertStep
  <2>1. /\ UNCHANGED <<env, cfg, planes, job>> /\ stage' \in {"convert", "failed"}
        /\ stage = "convert"
    BY <1>3 DEF ConvertStep, ThrowEnds
  <2>2. picture' = picture
    BY <1>3 DEF ConvertStep, StreamStep, ReadLine, Throw, PackPixel, EndLine
  <2> QED
    BY <1>0, <2>1, <2>2 DEF PageInv, Stages, Fits, Drawn, Pixels, planeColors, targetStripWidth,
                            Width, Height
<1>4. CASE FileGray
  <2>1. /\ stage = "convert" /\ FilePlane(packed) /\ UNCHANGED <<env, cfg, job>>
        /\ picture' = picture
    BY <1>4 DEF FileGray, NextCall, streamVars
  <2>2. packed \in SUBSET Pixels
    BY <1>0 DEF StreamInv, StreamType, Pixels
  <2> QED BY <1>0, <2>1, <2>2, FileKeeps
<1>5. CASE FileInk
  <2>1. PICK dots \in InkPatterns : FilePlane(dots)
    BY <1>5 DEF FileInk
  <2>2. /\ stage = "convert" /\ UNCHANGED <<picture, env, cfg, job>>
    BY <1>5 DEF FileInk, streamVars
  <2>3. dots \in SUBSET Pixels
    <3>1. 0 \in 0 .. Width - 1 /\ Width - 1 \in 0 .. Width - 1 /\ Height - 1 \in 0 .. Height - 1
      BY <1>0, SizeFacts
    <3> QED BY <3>1 DEF InkPatterns, Pixels
  <2> QED BY <1>0, <2>1, <2>2, <2>3, FileKeeps
<1>6. CASE DryRun
  <2>1. UNCHANGED <<picture, env, cfg, planes, job>> /\ stage' = "dry"
    BY <1>6 DEF DryRun, streamVars
  <2> QED
    BY <1>0, <2>1 DEF PageInv, Stages, Fits, Drawn, Pixels, planeColors, targetStripWidth,
                      Width, Height
<1>7. CASE Submit
  <2>1. CASE stage' = "failed" /\ UNCHANGED job
    <3>1. UNCHANGED <<picture, env, cfg, planes, job>> /\ stage' = "failed"
      BY <1>7, <2>1 DEF Submit, streamVars
    <3> QED
      BY <1>0, <3>1 DEF PageInv, Stages, Fits, Drawn, Pixels, planeColors, targetStripWidth,
                        Width, Height
  <2>2. CASE stage' = "submitted"
    <3>1. /\ UNCHANGED <<picture, env, cfg, planes>>
          /\ stage = "send"
          /\ job' = [stripStart |-> cfg.stripStart,
                     stripWidth |-> LET w == targetStripWidth IN IF w = 0 THEN 1 ELSE w,
                     pageHeight |-> planes[1].height]
      BY <1>7, <2>2 DEF Submit, streamVars
    <3>2. Width \in Nat /\ Width > 0 /\ cfg.stripWidth \in Nat
      BY <1>0, SizeFacts DEF PageInv
    <3>3. targetStripWidth > 0 /\ targetStripWidth \in Nat
      BY <3>2 DEF targetStripWidth
    <3>4. job'.stripWidth = targetStripWidth /\ job'.pageHeight = planes[1].height
      BY <3>1, <3>3
    <3>5. planes[1].height = Height
      <4>1. Len(planes) \in 1..4
        BY <3>1, ColorFacts DEF PageInv
      <4> QED BY <4>1 DEF PageInv
    <3> QED
      BY <1>0, <2>2, <3>1, <3>4, <3>5 DEF PageInv, Stages, Fits, Drawn, Pixels, planeColors,
                                          targetStripWidth, Width, Height
  <2> QED BY <1>7, <2>1, <2>2 DEF Submit
<1>8. CASE UNCHANGED vars
  BY <1>0, <1>8 DEF vars, streamVars, pageVars, PageInv, Fits, Drawn, Pixels, planeColors,
                    targetStripWidth, Width, Height
<1> QED BY <1>1, <1>2, <1>3, <1>4, <1>5, <1>6, <1>7, <1>8 DEF PageNext

LEMMA PageInvariant == PageSpec => []PageInv
<1> QED BY PageStart, PageKeeps, PTL DEF PageSpec

\* Where the page stands is always as TypeOK says.
THEOREM PageTypes == PageSpec => []TypeOK
<1>1. PageInv => TypeOK
  <2> SUFFICES ASSUME PageInv PROVE TypeOK
    OBVIOUS
  <2>1. Len(planes) \in Nat /\ Len(planes) <= Len(planeColors) /\ Len(planeColors) \in 1..4
    BY ColorFacts DEF PageInv
  <2>2. Len(planes) \in 0..4
    <3>1. Len(planeColors) <= 4 /\ Len(planeColors) \in Nat
      <4>1. CASE cfg.forceFastMono
        BY <4>1 DEF planeColors
      <4>2. CASE ~cfg.forceFastMono
        BY <4>2 DEF planeColors
      <4> QED BY <4>1, <4>2
    <3> DEFINE n == Len(planes)
               c == Len(planeColors)
    <3>2. n \in Nat /\ n <= c /\ c <= 4 /\ c \in Nat
      BY <2>1, <3>1
    <3> HIDE DEF n, c
    <3>3. n \in 0..4
      BY <3>2
    <3> QED BY <3>3 DEF n
  <2>3. /\ phase \in {"read", "diffuse", "done", "failed"}
        /\ x \in 0..Width /\ y \in 0..Height
        /\ phase \in {"read", "diffuse"} => y < Height
        /\ packed \subseteq (0 .. Width - 1) \X (0 .. Height - 1)
    BY DEF PageInv, StreamInv, StreamType
  <2>4. env \in Envs /\ stage \in Stages
    BY DEF PageInv
  <2> QED
    BY <2>2, <2>3, <2>4 DEF TypeOK
<1> QED BY <1>1, PageInvariant, PTL

\* A submitted job has all its planes, and what the library finds in each, taking
\* it for lines of the job's strip, is what was drawn: for every picture, every
\* setting and every strip no narrower than the raster.
THEOREM PlanesFit == PageSpec => []PlanesFitStrip
<1>1. PageInv => PlanesFitStrip
  <2> SUFFICES ASSUME PageInv, stage = "submitted", job.stripWidth >= Width
               PROVE  /\ Len(planes) = Len(planeColors)
                      /\ \A i \in DOMAIN planes :
                            LET data == planes[i].data
                                found == DotsIn(data, BitsPerLine(job.stripWidth))
                                            \cap ((0 .. Width - 1) \X (0 .. Height - 1))
                            IN  /\ data.size = job.pageHeight * BitsPerLine(job.stripWidth)
                                /\ ~cfg.testPattern =>
                                      found = IF cfg.invertBits
                                                THEN ((0 .. Width - 1) \X (0 .. Height - 1))
                                                        \ planes[i].dots
                                                ELSE planes[i].dots
    BY DEF PlanesFitStrip
  <2> DEFINE B == BitsPerLine(job.stripWidth)
  <2>1. /\ job.stripWidth = targetStripWidth /\ job.pageHeight = Height
        /\ Len(planes) = Len(planeColors) /\ planes \in Seq(Plane)
        /\ cfg.stripWidth \in Nat /\ picture \in Pictures
    BY DEF PageInv, StreamInv, StreamType
  <2>2. Width \in Nat /\ Width > 0 /\ Height \in Nat /\ Height > 0
    BY <2>1, SizeFacts
  <2>3. targetStripWidth \in Nat /\ targetStripWidth > 0
    BY <2>1, <2>2 DEF targetStripWidth
  <2>4. B \in Nat /\ B >= Width
    <3>1. BitsPerLine(targetStripWidth) \in Nat /\ targetStripWidth <= BitsPerLine(targetStripWidth)
      BY <2>3, LinesArePadded
    <3>2. B = BitsPerLine(targetStripWidth) /\ targetStripWidth >= Width
      BY <2>1
    <3> HIDE DEF B
    <3> QED BY <2>2, <2>3, <3>1, <3>2
  <2>5. DOMAIN planes = 1 .. Len(planes)
    BY <2>1
  <2> HIDE DEF B
  <2>6. ASSUME NEW i \in DOMAIN planes
        PROVE  /\ planes[i].data.size = job.pageHeight * B
               /\ ~cfg.testPattern => DotsIn(planes[i].data, B) \cap Pixels = Drawn(planes[i].dots)
    <3>1. planes[i].dots \subseteq Pixels /\ Fits(planes[i].data, planes[i].dots)
      BY <2>5 DEF PageInv
    <3>2. /\ planes[i].data.size = B * Height
          /\ ~cfg.testPattern => Holds(planes[i].data, Drawn(planes[i].dots), B, Width, Height)
      BY <2>1, <3>1 DEF Fits, B
    <3>3. planes[i].data.size = job.pageHeight * B
      BY <2>1, <2>2, <2>4, <3>2
    <3>4. Drawn(planes[i].dots) \in SUBSET Pixels
      BY <3>1 DEF Drawn
    <3>5. ~cfg.testPattern => DotsIn(planes[i].data, B) \cap Pixels = Drawn(planes[i].dots)
      BY <2>2, <2>4, <3>2, <3>4, HeldIsFound DEF Pixels
    <3> QED BY <3>3, <3>5
  <2> QED BY <2>1, <2>6 DEF B, Pixels, Drawn
<1> QED BY <1>1, PageInvariant, PTL

\* Outside the picture a submitted plane has no dots: neither the padding of its
\* lines nor the widening to the strip makes any, for every picture and strip.
THEOREM PaddingStaysBlank == PageSpec => []PaddingIsBlank
<1>1. PageInv => PaddingIsBlank
  <2> SUFFICES ASSUME PageInv, stage = "submitted", ~cfg.invertBits, ~cfg.testPattern,
                      NEW i \in DOMAIN planes
               PROVE  LET B == BitsPerLine(IF planes[i].width >= Width
                                             THEN planes[i].width ELSE Width)
                      IN  \A d \in DotsIn(planes[i].data, B) : d[1] < Width /\ d[2] < Height
    BY DEF PaddingIsBlank
  <2>1. i \in 1 .. Len(planes)
    BY DEF PageInv
  <2>2. planes[i].width = targetStripWidth /\ Fits(planes[i].data, planes[i].dots)
    BY <2>1 DEF PageInv
  <2> QED BY <2>2 DEF Fits, Blank, DotsIn
<1> QED BY <1>1, PageInvariant, PTL
=============================================================================
