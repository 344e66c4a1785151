SPECIFICATION FairSpec
CONSTANTS
  p1 = p1
  p2 = p2
  NumEvents = 3
  Runs = {p1, p2}
  Limit = 2
  Poison = {1}
  SuppressErrors = FALSE
  Faults = {"listener", "query", "crash"}
PROPERTIES
  ImplementsAtLeastOnce
  EventuallyHandled
CHECK_DEADLOCK FALSE
