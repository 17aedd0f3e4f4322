\* Liveness, without the "all" commands: no symmetry.
SPECIFICATION FairSpec
CONSTANTS
  Worker = {w1, w2}
  Registers = TRUE
  Pings = FALSE
  PingMin = 1
  PingMax = 2
  Freq = 3600
  Grants = {}
  AllCommands = FALSE
  MaxAsked = 1
  MaxQueue = 1
PROPERTIES
  AsksAgain
  QuietlyDeletedGoes
CHECK_DEADLOCK FALSE
