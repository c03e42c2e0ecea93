\* Three handlers, two sizes of request, two faults.
CONSTANTS
  s1 = s1
  s2 = s2
  s3 = s3
  Slots = {s1, s2, s3}
  Estimates = {2, 3}
  MaxEstimate = 3
  Cap = 4
  MaxFaults = 2
SPECIFICATION SpendLiveSpec
INVARIANTS OvershootBounded
PROPERTIES WindowReopens
