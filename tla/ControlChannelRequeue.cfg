SPECIFICATION Spec
CONSTANTS
  KeyCap = 2
  AppCap = 1
  MaxCommands = 3
  MaxFaults = 1
PROPERTY RequeueKeepsCommand
