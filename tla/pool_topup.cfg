CONSTANTS
  k1 = k1
  t1 = t1
  t2 = t2
  s1 = s1
  s2 = s2
  x1 = x1
  x2 = x2
  Keys = {k1}
  Topups = {t1, t2}
  Amounts = {1, 2}
  MaxFaults = 2
  Spenders = {s1, s2}
  MaxQuota = 1
  Resetters = {x1, x2}
  Ceiling = 2
  MaxPeriods = 1
SYMMETRY Symmetry
CONSTRAINT FaultsOrResets
SPECIFICATION Spec
INVARIANTS PaymentsAccounted LedgerExplains OverdraftBounded OneRefillPerPeriod
PROPERTIES IntentKept
CHECK_DEADLOCK FALSE
