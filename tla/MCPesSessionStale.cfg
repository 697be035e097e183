\* A job of an earlier session is still in the engine's queue.
SPECIFICATION Spec
CONSTANTS
  Sessions = {s1}
  Leftover = {old}
  LegacyJobs = {}
  MaxPolls = 2
  MaxDonePolls = 3
  Polls <- MCPolls
  Envs <- DefaultNamedEnvs
INVARIANTS SuccessMeansOwnJobRan
