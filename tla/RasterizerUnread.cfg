\* One call, alone in its directory: does a picture get through whose reading
\* failed?
SPECIFICATION Spec
CONSTANTS
  Calls = {c1}
  Leftovers = {}
  KeepLatest = 1
  MaxAge = 1
  MaxNow = 1
CHECK_DEADLOCK FALSE
INVARIANTS OnlyWholePictures
