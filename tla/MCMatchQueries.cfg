SPECIFICATION QuerySpec
CONSTANTS
  m1 = m1
  m2 = m2
  names = names
  NoTeams = NoTeams
  NoRow = NoRow
  Matches <- MCMatches
  TeamNames <- MCTeamNames
  Events <- MCEvents
INVARIANTS
  QueryTypeOK
  PageConsistent
