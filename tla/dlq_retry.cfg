SPECIFICATION FairSpec
CONSTANTS
  v1 = v1
  v2 = v2
  p1 = p1
  p2 = p2
  Events = {v1, v2}
  Runs = {p1, p2}
  MaxAttempts = 3
  SuppressErrors = FALSE
  Faults = {"listener", "query", "crash"}
INVARIANTS
  IInv
  ExhaustedAfterRetries
PROPERTIES
  ImplementsAtLeastOnce
  EventuallySettled
CHECK_DEADLOCK FALSE
