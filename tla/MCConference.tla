---------------------------- MODULE MCConference ----------------------------
(* Model-checking instance of ConferenceLifecycle: symmetry and constants.   *)
EXTENDS ConferenceLifecycle, TLC

\* Callers of the same kind, and conference objects, are interchangeable.
Plain == Caller \ (BridgeCaller \cup GhostCaller \cup EndconfCaller \cup MintwoCaller)
Symmetry == Permutations(Plain) \cup Permutations(Conf)
=============================================================================
