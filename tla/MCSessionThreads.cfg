\* One session alone with an engine that names its states, in every setting of
\* the switches, and with the threads of its submission.
SPECIFICATION ThreadedFairSpec
CONSTANTS
  Sessions = {s1}
  Leftover = {}
  LegacyJobs = {}
  Self = s1
  MAX_RETRIES = 2
  JoinPolls = 3
  MaxPolls = 3
  MaxDonePolls = 4
  Polls <- MCPolls
  Envs <- NamedEnvs
INVARIANTS TypeOK StreamClosedAtEnd SuccessMeansOwnJobRan
           ThreadsTypeOK ClosedWhenLeft OnlyDetachedOutlives
PROPERTIES SuccessOnlyWhenIdle FinishSparesOwnJob Termination
           MainLeaves WorkerEnds MeetsContract
           ImplementsSession ImplementsService
