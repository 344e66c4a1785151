SPECIFICATION Spec
CONSTANTS
  l1 = l1
  l2 = l2
  l3 = l3
  Service = Service
  None = None
  Listeners = {l1, l2, l3}
  Faults = {"query", "commit", "crash"}
SYMMETRY Symmetry
INVARIANTS
  IInv
  SharedFate
  NoSilentLoss
CHECK_DEADLOCK FALSE
