SPECIFICATION TalkativeSpec
CONSTANTS
  KeyCap = 1
  AppCap = 1
  MaxCommands = 1
  MaxFaults = 1
PROPERTY EveryCommandSettled
