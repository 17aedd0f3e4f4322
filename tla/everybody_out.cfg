\* Expected violation: a "bridge:" caller is not waited for.
SPECIFICATION Spec
CONSTANTS
  Caller = {u1, b1}
  Admin = {}
  Conf = {r1}
  BridgeCaller = {b1}
  GhostCaller = {}
  EndconfCaller = {}
  MintwoCaller = {}
  MaxMembers = 0
  MonitorFaults = FALSE
  NoConf = NoConf
  NoThread = NoThread
INVARIANTS
  EverybodyOut
