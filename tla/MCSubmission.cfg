SPECIFICATION FairSubmissionSpec
CONSTANTS
  m1 = m1
  names = names
  noNames = noNames
  Matches <- MCMatches
  TeamNames <- MCTeamNames
  NoTeams = noNames
  NoRow = NoRow
  Events <- MCEvents
  Scripts <- MCScripts
  MaxLives = 2
  MaxBus = 2
INVARIANTS
  SubmissionInv
  StoryIsComplete
PROPERTIES
  PlayedOut
CHECK_DEADLOCK FALSE
