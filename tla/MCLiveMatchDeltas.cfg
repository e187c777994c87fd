SPECIFICATION DetailSpec
CONSTANTS
  m1 = m1
  names = names
  NoTeams = NoTeams
  NoRow = NoRow
  Matches <- MCMatches
  TeamNames <- MCTeamNames
  Events <- MCEvents
  Id = m1
  MaxPublished = 3
  MaxConnects = 2
INVARIANTS
  SnapshotThenDeltas
CHECK_DEADLOCK FALSE
