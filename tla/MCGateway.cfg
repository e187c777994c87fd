SPECIFICATION FairGatewaySpec
CONSTANTS
  c1 = c1
  c2 = c2
  c3 = c3
  m1 = m1
  m2 = m2
  AllMatches = AllMatches
  ClientBuffer = 1
  MaxMessages = 3
  Clients <- MCClients
  Matches <- MCMatches
  Wants <- MCWants
CHECK_DEADLOCK FALSE
INVARIANTS
  GatewayTypeOK
  MapIsExact
  StreamComplete
PROPERTIES
  BroadcastEnds
  LeaversLeave
