SPECIFICATION Spec
CONSTANTS
  a = a
  b = b
  m1 = m1
  m2 = m2
  x1 = x1
  c1 = c1
  Replicas = {a, b}
  Channels = {c1}
  Markers = {m1, m2}
  Clearers = {x1}
  Home <- MCHome
  CoolFor = 2
  MaxMarks = 2
  MaxClears = 1
  MaxFaults = 1
INVARIANTS LiftSticks SnapshotAgrees AloneKept
CHECK_DEADLOCK FALSE
