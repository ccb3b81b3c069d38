SPECIFICATION FairSpec
CONSTANTS
  KeyCap = 2
  AppCap = 1
  MaxCommands = 3
  MaxFaults = 1
INVARIANTS TypeOK OrderedDelivery Accounted StatusHonest
PROPERTIES NoLossOnLiveLink ImplementsPipe EveryCommandSettled
CHECK_DEADLOCK TRUE
