SPECIFICATION Spec
CONSTANTS
  k1 = k1
  k2 = k2
  c1 = c1
  c2 = c2
  c3 = c3
  None = None
  Keys = {k1, k2}
  Calls = {c1, c2, c3}
  Faults = {"handler", "query", "crash"}
SYMMETRY Symmetry
INVARIANT IInv
INVARIANT OneExecutionPerKey
INVARIANT ReplayIsGenuine
CHECK_DEADLOCK FALSE
