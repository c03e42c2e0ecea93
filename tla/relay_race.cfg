\* A request and a console request of the same key, which it does not charge, race
\* for a balance that covers one estimate; neither costs more than its estimate, and
\* nobody is trusted past the freeze.
CONSTANTS
  r1 = r1
  r2 = r2
  Requests = {r1, r2}
  Estimate = 2
  Costs = {0, 1, 2}
  Account = {r1, r2}
  Provisioned = {}
  Playground = {r2}
  Unlimited = {}
  Trustable = {}
  WalletAuthoritative = {}
  AdvisoryModes = {FALSE}
  Pooled = {r1, r2}
  UserQuota0 = 3
  TokenQuota0 = 2
  PoolBalance0 = 2
  Faults = {"platform", "userRead", "userWrite", "tokenRead", "tokenWrite", "poolWrite", "outbox"}
SPECIFICATION Spec
INVARIANTS NoOverdraft
