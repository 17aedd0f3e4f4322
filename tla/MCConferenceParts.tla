-------------------------- MODULE MCConferenceParts --------------------------
(***************************************************************************)
(* Model-checking instance of two parts of a conference, the floors and    *)
(* the recordings.  What they share, who is in the conference, each of the *)
(* two has in its own way; one of them runs while the other stands still.  *)
(***************************************************************************)
EXTENDS ConferenceFloor, ConferenceRecording

VARIABLE part   \* the part that runs
partvars == <<part, floorvars, recvars>>

Init == FloorInit /\ RecInit /\ part \in {"floor", "recording"}
        /\ (part = "recording" => video = {}) /\ (part = "floor" => auto)

OfFloor(A) == part = "floor" /\ A /\ UNCHANGED <<part, recvars>>
OfRecording(A) == part = "recording" /\ A /\ UNCHANGED <<part, floorvars>>
Next == OfFloor(FloorNext) \/ OfRecording(RecNext)

\* FloorFairness and RecFairness.
Fairness ==
  /\ WF_partvars(OfFloor(PassSteps))
  /\ \A m \in FloorMembers : /\ WF_partvars(OfFloor(DeletionSteps(m)))
                             /\ WF_partvars(OfFloor(ApiSteps(m)))
  /\ WF_partvars(OfRecording(~undefined /\ RoomGone))
  /\ \A p \in Persons : WF_partvars(OfRecording(~undefined /\ room = "ending" /\ Parts(p)))
  /\ \A r \in Recs : WF_partvars(OfRecording(~undefined /\ RecSteps(r)))
PartsSpec == Init /\ [][Next]_partvars /\ Fairness

\* Types of both.
PartsTypeOK == FloorTypeOK /\ RecTypeOK
=============================================================================
