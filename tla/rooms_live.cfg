\* Liveness: no symmetry, no faults (a lost monitor destroys nothing).
SPECIFICATION FairSpec
CONSTANTS
  Caller = {u1, u2}
  Admin = {}
  Conf = {r1, r2}
  BridgeCaller = {}
  GhostCaller = {}
  EndconfCaller = {u1}
  MintwoCaller = {}
  MaxMembers = 0
  MonitorFaults = FALSE
  NoConf = NoConf
  NoThread = NoThread
PROPERTIES
  NoConferenceLeaks
  EndingConferenceEnds
