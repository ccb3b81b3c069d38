SPECIFICATION Spec
CONSTANTS
  Clients = {p1}
  p1 = p1
  KeyCap = 2
  MaxPresses = 2
  MaxFaults = 2
INVARIANTS TypeOK StuckForCause VolumeFollows
PROPERTIES NeverOvertaken VolumeOffered ChainRunsDry
CHECK_DEADLOCK FALSE
