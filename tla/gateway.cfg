\* Two threads beside the check, pings, every command.
SPECIFICATION Spec
CONSTANTS
  Worker = {w1, w2}
  Registers = TRUE
  Pings = TRUE
  PingMin = 1
  PingMax = 2
  Freq = 3600
  Grants = {60}
  AllCommands = TRUE
  MaxAsked = 1
  MaxQueue = 1
SYMMETRY Symmetry
INVARIANTS
  GwTypeOK
  HandleWhileTrying
  RemovedLeavesNothing
CHECK_DEADLOCK FALSE
