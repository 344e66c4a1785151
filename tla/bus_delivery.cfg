SPECIFICATION Spec
CONSTANTS
  p1 = p1
  p2 = p2
  h1 = h1
  h2 = h2
  m1 = m1
  m2 = m2
  n1 = n1
  n2 = n2
  Processes = {p1, p2}
  Handlers = {h1, h2}
  Messages = {m1, m2}
  Names = {n1, n2}
  MaxResend = 1
  MaxDrops = 1
  Faults = {"handler", "command", "link"}
SYMMETRY Symmetry
INVARIANTS
  IInv
  OwedIsKept
  StartsInOrder
  PublishAwaitsHandlers
CHECK_DEADLOCK FALSE
