SPECIFICATION FairStoreSpec
CONSTANTS
  m1 = m1
  m2 = m2
  names = names
  NoTeams = NoTeams
  NoRow = NoRow
  NoItem = NoItem
  s1 = s1
  s2 = s2
  Sessions = {s1, s2}
  Matches <- MCMatches
  TeamNames <- MCTeamNames
  Events <- MCEvents
INVARIANTS
  StoreTypeOK
  RowMatchesTimeline
  ConstraintNeverFires
  ViewIsCurrent
PROPERTIES
  TimelineAppends
  RowEvolves
  LogSpec
  ApplyReturns
