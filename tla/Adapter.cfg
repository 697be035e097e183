SPECIFICATION FairSpec
CONSTANTS
  PipeSize = 3
  MaxProgress = 2
  MaxStderr = 2
INVARIANTS TypeOK CompletedIsOk AnswerShowsEnd ExitSettles
PROPERTIES EndIsFinal JobEnds
