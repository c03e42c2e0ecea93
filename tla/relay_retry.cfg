SPECIFICATION Spec
CONSTANTS
  r1 = r1
  r2 = r2
  c1 = c1
  c2 = c2
  c3 = c3
  NoChannel = NoChannel
  Requests = {r1, r2}
  Channels = {c1, c2, c3}
  Groups <- MCGroups
  Priority <- MCPriority
  TokenGroup <- MCTokenGroup
  CrossGroup = {r1}
  Affine = {r2}
  Bindings = {c2}
  Specific <- MCSpecific
  MultiKey = {c2}
  Recovering = {c2}
  RetryTimes = 1
  CoolFor = 1
  Errors = {"5xx", "429", "401"}
  MaxBans = 1
  MaxHangUps = 1
  Threshold = 1
  Timeout = 1
  HalfOpenTimeout = 1
  FailureWindow = 0
INVARIANTS OneAnswer BreakerSound
PROPERTIES FreshFirst WalkEnds
CHECK_DEADLOCK FALSE
