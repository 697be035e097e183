\* Two RIPs at once on one engine that numbers its states: two sessions, or one
\* and a RIP that works the old way.
SPECIFICATION FleetSpec
CONSTANTS
  s1 = s1
  s2 = s2
  p1 = p1
  p2 = p2
  Sessions = {s1, s2}
  Leftover = {}
  LegacyJobs = {p1, p2}
  LegacyPlanes <- MCLegacyPlanes
  Fleets <- MCFleets
  MaxPolls = 2
  MaxDonePolls = 2
  Polls <- MCPolls
  Envs <- NumberedEnvs
INVARIANTS StreamsClosedAtEnd SuccessMeansAJobRan
PROPERTIES SuccessOnlyWhenDrained LegacySuccessMeansQueued LegacyEnds
