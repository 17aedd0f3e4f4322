\* Expected violation: two callers pass the check before either is counted.
SPECIFICATION Spec
CONSTANTS
  Caller = {u1, u2, u3}
  Admin = {}
  Conf = {r1}
  BridgeCaller = {}
  GhostCaller = {}
  EndconfCaller = {}
  MintwoCaller = {}
  MaxMembers = 2
  MonitorFaults = FALSE
  NoConf = NoConf
  NoThread = NoThread
SYMMETRY Symmetry
INVARIANTS
  MaxMembersRespected
