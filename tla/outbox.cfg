\* Two replicas, a settle, a release, one crash, one closing update that fails, unified billing flipped at will.
CONSTANTS
  w1 = w1
  w2 = w2
  s1 = s1
  r1 = r1
  Entries = {s1, r1}
  Settles = {s1}
  Debits = {}
  Workers = {w1, w2}
  MaxRetries = 2
  MaxBackoff = 1
  Lease = 3
  Limit = 2
  CallTimeout = 1
  Poll = 1
  LongestRequest = 1
  HoldTTL = 3
  MaxCrashes = 1
  MaxUnwritten = 1
  Switchable = TRUE
SPECIFICATION LiveSpec
INVARIANTS OneOwner AttemptsBounded
PROPERTIES EventuallyFinal PromiseKept
