SPECIFICATION FairSpec
CONSTANTS
  u1 = u1
  t1 = t1
  t2 = t2
  t3 = t3
  c1 = c1
  c2 = c2
  c3 = c3
  c4 = c4
  t4 = t4
  u2 = u2
  None = None
  Users = {u1}
  Tokens = {t1, t2, t3}
  Calls = {c1, c2, c3}
  PoolSize = 2
  Faults = {"query", "crash"}
PROPERTY RefreshAnswered
INVARIANTS
  IInv
  OneGenerationValid
  ValidTokenHasUser
CHECK_DEADLOCK FALSE
