\* Expected violation: the check replaces the time that was granted.
SPECIFICATION Spec
CONSTANTS
  Worker = {w1}
  Registers = TRUE
  Pings = FALSE
  PingMin = 1
  PingMax = 2
  Freq = 3600
  Grants = {60, 7200}
  AllCommands = FALSE
  MaxAsked = 1
  MaxQueue = 1
INVARIANTS
  GrantRespected
CHECK_DEADLOCK FALSE
