\* Two callers, replies the client has an arm for and others, two calls abandoned.
CONSTANTS
  c1 = c1
  c2 = c2
  Callers = {c1, c2}
  Replies <- PlatformReplies
  Threshold = 2
  Timeout = 2
  HalfOpenTimeout = 2
  CallTimeout = 1
  MaxCancels = 2
SPECIFICATION LiveSpec
INVARIANTS OneProbe OpenMeansOutage
PROPERTIES Recovers DegradedOnlyInOutage
