SPECIFICATION FairListSpec
CONSTANTS
  m1 = m1
  m2 = m2
  names = names
  NoTeams = NoTeams
  NoRow = NoRow
  Matches <- MCMatches
  TeamNames <- MCTeamNames
  Events <- MCEvents
  MaxPublished = 3
  MaxConnects = 2
INVARIANTS
  ListInv
PROPERTIES
  FetchEnds
CHECK_DEADLOCK FALSE
