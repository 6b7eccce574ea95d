CONSTANTS
  u1 = u1
  u2 = u2
  k1 = k1
  k2 = k2
  k3 = k3
  c1 = c1
  c2 = c2
  p1 = p1
  p2 = p2
  Users = {u1, u2}
  Tokens = {k1, k2, k3}
  Owner <- TwoDevices
  Processes = {p1}
  Calls = {c1}
  Worker <- OneCall
  None = None
  Null = Null
  Window = 2
  MaxLag = 1
  MaxGrants = 1
  MaxSeq = 3
  Stayers = {k3}
  Movers = {}
SPECIFICATION FairSpec
PROPERTY EveryStayerServed
CHECK_DEADLOCK FALSE
