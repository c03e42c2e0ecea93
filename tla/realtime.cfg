SPECIFICATION Spec
CONSTANTS
  MaxTokens = 1
  RatioNum = 3
  RatioDen = 2
  UserQuota0 = 3
  Freeze = 1
  KeyQuota0 = 2
  MaxInputs = 1
  MaxOutputs = 2
  MaxFaults = 1
INVARIANTS TokensAccounted WalletKept FreezeReturned
PROPERTIES TornDown
CHECK_DEADLOCK FALSE
