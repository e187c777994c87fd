SPECIFICATION FairFootballSpec
CONSTANTS
  HalfTime = 3
  FullTime = 5
  MaxClock = 14
  Directories <- MCDirectories
  TemplateNames <- MCTemplateNames
INVARIANTS
  BoundedKept
  FootballInv
PROPERTIES
  ImplementsFeed
  MatchEnds
CHECK_DEADLOCK FALSE
