SPECIFICATION Spec
CONSTANTS
  r1 = r1
  MaxIntent = 2
  Relays = {r1}
  MaxTime = 1
  MaxRev = 5
INVARIANTS
  QueueExact
PROPERTIES
  HistoryKept
CHECK_DEADLOCK FALSE
