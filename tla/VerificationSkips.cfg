SPECIFICATION FairSpec
CONSTANTS
  MaxPolls = 2
  MaxLines = 3
PROPERTIES SignalsAreSeen
