SPECIFICATION FairSpec
CONSTANTS
  PipeSize = 3
  MaxProgress = 2
  MaxStderr = 2
PROPERTIES ExitWithoutEvent
