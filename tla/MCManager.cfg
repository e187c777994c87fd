SPECIFICATION FairManagerSpec
CONSTANTS
  c1 = c1
  c2 = c2
  i1 = i1
  i2 = i2
  i3 = i3
  NoId = NoId
  Callers <- TwoCallers
  MatchIds <- TwoIds
  Templates = {"default", "named"}
  Ops <- AllOps
INVARIANTS
  ManagerTypeOK
  NoOrphan
  RunningHasNoGhosts
  LoopNeverStalls
PROPERTIES
  StopIsFinal
  ShutdownIsFinal
CHECK_DEADLOCK FALSE
