SPECIFICATION FairSpec
CONSTANTS
  c1 = c1
  c2 = c2
  None = None
  Calls = {c1, c2}
  MaxRetries = 1
  MaxVersion = 2
  Faults = {"business", "technical", "cache"}
INVARIANTS
  IInv
  StaleOnlyByRace
  RetriesAreGenuine
PROPERTY Answered
CHECK_DEADLOCK FALSE
