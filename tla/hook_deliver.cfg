SPECIFICATION FairSpec
CONSTANTS
  s1 = s1
  s2 = s2
  s3 = s3
  Subscriptions = {s1, s2, s3}
  Faults = {"query", "crash"}
INVARIANTS
  IInv
  ReturnLeavesNoPending
PROPERTY DispatchReturns
CHECK_DEADLOCK FALSE
