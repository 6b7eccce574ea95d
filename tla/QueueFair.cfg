CONSTANTS
  u1 = u1
  u2 = u2
  k1 = k1
  k2 = k2
  k3 = k3
  c1 = c1
  c2 = c2
  p1 = p1
  p2 = p2
  Users = {u1, u2}
  Tokens = {k1, k3}
  Owner <- OneDevice
  Processes = {p1, p2}
  Calls = {c1, c2}
  Worker <- OneEach
  None = None
  Null = Null
  Window = 2
  MaxLag = 1
  MaxGrants = 1
  MaxSeq = 2
  Stayers = {k1, k3}
  Movers = {k3}
SPECIFICATION FairSpec
INVARIANT TypeOK
INVARIANT UniquePositions
PROPERTY NoOvertaking
 
PROPERTY EveryStayerServed
CHECK_DEADLOCK FALSE
