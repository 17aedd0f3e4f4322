\* Three types of jitter buffer across the wrap of a small modulus; a byte
\* buffer of each kind.
SPECIFICATION MediaSpec
CONSTANTS
  JbTypes = {"audio", "text", "video"}
  SeqMod = 12
  CountMod = 16
  Bases = {7, 8, 9}
  Horizon = 4
  Late <- Delays
  Ahead = 1
  FrameSize = 2
  JbFrames <- Created
  JbLimits <- Limited
  Nodes = 4
  PERIOD_LEN = 2
  Slack = 1
  BigGap = 3
  Rewind = 4
  Change = 4
  Tries = 2
  Lag = 2
  Byte = {"x", "y"}
  Sizes = {0, 1, 2}
  Starts = {1, 2}
  Limits = {0, 2}
  Blocks = {1}
  Loops <- LoopsGiven
  BbRoom = 4
INVARIANTS
  JbTypeOK
  
  
  CapacityBounded
PROPERTIES
  InOrder
  TextComesOut
  IsByteQueue
CHECK_DEADLOCK FALSE
