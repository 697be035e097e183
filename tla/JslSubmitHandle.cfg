\* Is a closed handle ever used again?
SPECIFICATION Spec
CONSTANTS
  MAX_RETRIES = 1
  JoinPolls = 1
INVARIANTS ClosedHandleIsLeftAlone
