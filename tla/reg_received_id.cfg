SPECIFICATION Spec
CONSTANTS
  r1 = r1
  r2 = r2
  d1 = d1
  d2 = d2
  e1 = e1
  e2 = e2
  Requests = {r1}
  Deleters = {}
  Emails = {e1}
  PoolSize = 2
  Faults = {"query"}
INVARIANT ReceivedIdIsListed
CHECK_DEADLOCK FALSE
