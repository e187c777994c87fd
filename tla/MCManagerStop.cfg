SPECIFICATION ManagerSpec
CONSTANTS
  c1 = c1
  c2 = c2
  i1 = i1
  i2 = i2
  i3 = i3
  NoId = NoId
  Callers <- OneCaller
  MatchIds <- ThreeIds
  Templates = {"default"}
  Ops <- AllOps
INVARIANT StopHolds
CHECK_DEADLOCK FALSE
