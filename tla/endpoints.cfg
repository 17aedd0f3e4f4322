\* Two connections of one session that take over from each other, and a call; a
\* pair of loopback legs; a SIP profile with two events, a call and a user, and two
\* message threads.
SPECIFICATION EndpointsSpec
CONSTANTS
  Events = {e1, e2}
  Registers = {e1}
  Calls = {k1}
  Users = {u1}
  max_msg_queues = 2
  SOFIA_MSG_QUEUE_SIZE = 1
  max_reg_threads = 1
  controlled_hangup = TRUE
  Socks = {s1, s2}
  Ids = {"i"}
  VtCalls = {c1}
  detach_timeout = 1
  Uint32 = 8
INVARIANTS
  EndpointsTypeOK
  OtherLegLocked
  UnlinkedTogether
  NothingDangles
  
  FreedWhenUnused
  EventsHandled
PROPERTIES
  PairGoes
  
  EverythingStops
CHECK_DEADLOCK FALSE
