SPECIFICATION FairSpec
CONSTANTS
  MaxPolls = 3
  MaxLines = 4
INVARIANTS TypeOK PrintedIsVerified PassIsTrue
PROPERTIES VerificationEnds
