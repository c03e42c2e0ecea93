SPECIFICATION TaskSpec
CONSTANTS
  p1 = p1
  p2 = p2
  t1 = t1
  t2 = t2
  Pollers = {p1, p2}
  Handlers = {h}
  Limit = 2
  Channels = {"c1", "c2"}
  h = h
  Loop <- MCLoop
  MaxFaults = 2
  Tasks = {t1, t2}
  Keys = {"k1", "k2"}
  Offers <- MCOffers
INVARIANTS  RightPayer InvoiceExplains
CHECK_DEADLOCK FALSE
