CONSTANTS
  MaxAttempts = 2
  MaxCommands = 2
SPECIFICATION Spec
INVARIANTS
  ConnectingCommandsDiscarded
CHECK_DEADLOCK FALSE
