\* Two calls and a file from long ago.  3 * 2 - 2 files kept: one fewer and a
\* running call loses its PDF.  No running call gets older than MaxAge.
SPECIFICATION FairSpec
CONSTANTS
  Calls = {c1, c2}
  Leftovers = {l1}
  KeepLatest = 4
  MaxAge = 1
  MaxNow = 2
CHECK_DEADLOCK FALSE
INVARIANTS TypeOK PictureIsChecked RunningIsSpared LeftBehind
PROPERTIES CallEnds
