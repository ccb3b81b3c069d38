SPECIFICATION Spec
CONSTANTS
  Clients = {p1}
  p1 = p1
  KeyCap = 2
  MaxPresses = 2
  MaxFaults = 2
INVARIANTS NoOpMatchesClick
CHECK_DEADLOCK FALSE
