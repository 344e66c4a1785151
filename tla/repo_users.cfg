SPECIFICATION Spec
CONSTANTS
  u1 = u1
  u2 = u2
  e1 = e1
  e2 = e2
  o1 = o1
  o2 = o2
  c1 = c1
  c2 = c2
  Nothing = Nothing
  Users = {u1, u2}
  Emails = {e1, e2}
  Objects = {o1, o2}
  Calls = {c1, c2}
  Lengths = {0, 2}
  Limits = {0, 1}
  DefaultLimit = 2
  MaxEvents = 2
  Faults = {"query", "listener"}
SYMMETRY Symmetry
INVARIANTS
  IInv
  NoEventLost
  NoEventRepeated
  PagesCountUsers
  PagesCoverUsers
CHECK_DEADLOCK FALSE
