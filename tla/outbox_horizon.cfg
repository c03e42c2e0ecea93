\* A settle alone in its batch, a debit in the other table: LongestRequest + OutboxRetryHorizon + slack, the slack
\* just short of the lease (290s against 300s in the code).
CONSTANTS
  w1 = w1
  w2 = w2
  s1 = s1
  d1 = d1
  Entries = {s1, d1}
  Settles = {s1}
  Debits = {d1}
  Workers = {w1, w2}
  MaxRetries = 3
  MaxBackoff = 2
  Lease = 8
  Limit = 2
  CallTimeout = 1
  Poll = 1
  LongestRequest = 2
  HoldTTL = 13
  MaxCrashes = 0
  MaxUnwritten = 0
  Switchable = FALSE
SPECIFICATION Spec
INVARIANTS HoldOutlivesRetries
