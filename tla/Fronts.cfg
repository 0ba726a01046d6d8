SPECIFICATION GatewaySpec
CONSTANTS
  Ref = {r1}
  Client = {c1, c2}
  Body = {1, 2}
  Tag = {1, 2}
  StagingTTL = 1
  MaxClock = 1
  MaxVer = 5
  MaxSlot = 2
  MaxFaults = 1
  MaxBytes = 4
  MaxObjects = 2
  Ceiling = 2
  Claim = {0, 1}
  MaxReq = 3
  Known = {1}
  MaxCalls = 3
SYMMETRY Clients
CHECK_DEADLOCK FALSE
INVARIANTS  MeteredCovers
