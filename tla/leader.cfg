SPECIFICATION Spec
CONSTANTS
  n1 = n1
  n2 = n2
  Nodes = {n1, n2}
  NoNode = NoNode
  TTL = 1
  BootTTL = 2
  RenewEvery = 1
  Interval = 2
  MaxHang = 2
  MaxFaults = 1
INVARIANTS LeaseHonoured StaleLeaderBounded
PROPERTIES LeaderReturns LeaderWorks
