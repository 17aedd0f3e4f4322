\* Two ordinary callers and an API thread, with monitor faults; two objects, so
\* that the name is taken over by a successor while the first one still ends.
SPECIFICATION Spec
CONSTANTS
  Caller = {u1, u2}
  Admin = {a1}
  Conf = {r1, r2}
  BridgeCaller = {}
  GhostCaller = {u1}
  EndconfCaller = {u1}
  MintwoCaller = {u2}
  MaxMembers = 0
  MonitorFaults = TRUE
  NoConf = NoConf
  NoThread = NoThread
SYMMETRY Symmetry
INVARIANTS
  TypeOK
  LockedConferenceStays
  TableAgrees
  CountersMatch
  NoOrphan
PROPERTIES
  KeepsRegistryPromise
