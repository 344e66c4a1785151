SPECIFICATION Spec
CONSTANTS
  r1 = r1
  r2 = r2
  d1 = d1
  d2 = d2
  e1 = e1
  e2 = e2
  Requests = {r1, r2}
  Deleters = {d1, d2}
  Emails = {e1, e2}
  PoolSize = 2
  Faults = {"query", "commit", "crash"}
SYMMETRY Symmetry
PROPERTY ImplementsAccounts
INVARIANTS
  OneDeletionSucceeds
  IInv
  UserIffWallet
  ConflictIsGenuine
  OkIsStored
  SomebodyAdvances
CHECK_DEADLOCK FALSE
