CONSTANTS
  t1 = t1
  t2 = t2
  r1 = r1
  r2 = r2
  r3 = r3
  Tabs = {t1, t2}
  Reqs = {r1, r2, r3}
  TabOf <- TabOfRequest
  None = None
  Gone = Gone
  MaxMoves = 2
  MaxExpired = 2
  MaxFaults = 1
SPECIFICATION Spec
INVARIANTS TypeOK NoOwnReuse SpentTokenLeaves WaitersServed ExchangeAwaited
PROPERTIES Settles
CHECK_DEADLOCK FALSE
