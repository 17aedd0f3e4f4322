\* A "bridge:" caller, who holds no read lock, and two ordinary ones.
SPECIFICATION Spec
CONSTANTS
  Caller = {u1, u2, b1}
  Admin = {}
  Conf = {r1, r2}
  BridgeCaller = {b1}
  GhostCaller = {}
  EndconfCaller = {}
  MintwoCaller = {u1}
  MaxMembers = 0
  MonitorFaults = FALSE
  NoConf = NoConf
  NoThread = NoThread
SYMMETRY Symmetry
INVARIANTS
  MinimumEnforced
