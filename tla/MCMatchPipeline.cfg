SPECIFICATION FairPipeSpec
CONSTANTS
  m1 = m1
  m2 = m2
  w1 = w1
  w2 = w2
  names = names
  NoTeams = NoTeams
  NoRow = NoRow
  NoItem = NoItem
  Garbage = Garbage
  MsgsBuffer = 1
  ChannelBuffer = 1
  MaxRestarts = 1
  Matches <- MCMatches
  TeamNames <- MCTeamNames
  Workers <- MCWorkers
  WorkerIndex <- MCWorkerIndex
  Feed <- MCFeed
  Events <- MCEvents
CHECK_DEADLOCK FALSE
INVARIANTS
  PipeTypeOK
  InOrderNothingLost
  NoStaleWork
  ExitLosesNothing
  ClosedAfterLastSend
PROPERTIES
  ShutdownCompletes
  EverythingSettles
