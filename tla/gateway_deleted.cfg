\* Expected violation: a late answer undoes the deletion.
SPECIFICATION FairSpec
CONSTANTS
  Worker = {w1, w2}
  Registers = TRUE
  Pings = FALSE
  PingMin = 1
  PingMax = 2
  Freq = 3600
  Grants = {}
  AllCommands = FALSE
  MaxAsked = 1
  MaxQueue = 1
PROPERTIES
  DeletedGoes
CHECK_DEADLOCK FALSE
