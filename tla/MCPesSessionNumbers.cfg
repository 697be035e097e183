\* The engine numbers its states the way the vendored API does.
SPECIFICATION Spec
CONSTANTS
  Sessions = {s1}
  Leftover = {}
  LegacyJobs = {}
  MaxPolls = 2
  MaxDonePolls = 3
  Polls <- MCPolls
  Envs <- DefaultNumberedEnvs
PROPERTIES SuccessOnlyWhenIdle
