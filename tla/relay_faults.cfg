\* A user's own request and a request of a tenant-scoped key (no user row) on one
\* token and pool, while the platform flips LOCAL_LEDGER_ADVISORY; every
\* operation may fail.
CONSTANTS
  r1 = r1
  r2 = r2
  Requests = {r1, r2}
  Estimate = 2
  Costs = {0, 1, 3}
  Account = {r1}
  Provisioned = {r2}
  Playground = {}
  Unlimited = {r2}
  Trustable = {r1}
  WalletAuthoritative = {r1}
  AdvisoryModes = {FALSE, TRUE}
  Pooled = {r1, r2}
  UserQuota0 = 3
  TokenQuota0 = 3
  PoolBalance0 = 2
  Faults = {"platform", "userRead", "userWrite", "tokenRead", "tokenWrite", "poolWrite", "outbox"}
SPECIFICATION Spec
INVARIANTS LocalChargeExact PoolChargeExact WalletChargeJustified OneWalletExit HoldExit
