------------------------------ MODULE Loopback ------------------------------
(***************************************************************************)
(* mod_loopback.c: the two legs of a loopback call.  Leg A is the          *)
(* outbound session; it makes leg B, and each holds the other by a read    *)
(* lock from its init to its hangup.  When each leg is bridged to a real   *)
(* channel, the legs bow out: the real channels are bridged directly.      *)
(*                                                                         *)
(* Threads: one per leg (init, execute, hangup), and the one that writes   *)
(* frames into leg A, which is the real channel's and runs beside A's own. *)
(* tech_pvt->mutex of A is given back while the writer looks for the real  *)
(* channels (:875), so the writer may find the pointers to B gone, and     *)
(* uses them without looking: it is "undefined" then.  The core (sessions, *)
(* bridges, states of channels) is external.  Frames, codecs and variables *)
(* are left out.                                                           *)
(***************************************************************************)
EXTENDS Integers, FiniteSets

Leg == {"A", "B"}
Peer(l) == IF l = "A" THEN "B" ELSE "A"

CONSTANTS
  controlled_hangup  \* loopback_globals.bowout_controlled_hangup

ASSUME LoopbackAssumption == controlled_hangup \in BOOLEAN

VARIABLES
  leg,      \* "none", "init", "up", "down" (hung up), "released" (on_hangup ran),
            \* "destroyed", "stranded" (made, but no thread runs it)
  lockers,  \* the legs, and others, that hold the session by a read lock
  other,    \* other_session, other_tech_pvt and other_channel are set
  linked,   \* TFLAG_LINKED
  bridged,  \* TFLAG_BRIDGE, and the channel is bridged (CF_BRIDGED) to a real one
  bowout,   \* TFLAG_BOWOUT
  writer,   \* "idle", "finding", "found", "undefined"
  met       \* history: leg B has found leg A

lbvars == <<leg, lockers, other, linked, bridged, bowout, writer, met>>

Set(f, l, x) == [f EXCEPT ![l] = x]
Hung(l) == leg[l] \in {"down", "released", "destroyed"}
HangUp(ls) == [l \in Leg |-> IF l \in ls /\ leg[l] \in {"init", "up"} THEN "down" ELSE leg[l]]

\* channel_outgoing_channel has made leg A.
LbInit ==
  /\ leg = [l \in Leg |-> IF l = "A" THEN "init" ELSE "none"]
  /\ lockers = [l \in Leg |-> {}]
  /\ other = [l \in Leg |-> FALSE]
  /\ linked = [l \in Leg |-> FALSE]
  /\ bridged = [l \in Leg |-> FALSE]
  /\ bowout = [l \in Leg |-> FALSE]
  /\ writer = "idle"
  /\ met = FALSE

-----------------------------------------------------------------------------
(***************************************************************************)
(* channel_on_init                                                         *)
(***************************************************************************)

\* Leg A: a session for B, held by a read lock, then the pointers and a thread.
\* Without a thread A is hung up, and nothing ever runs B.
InitA ==
  /\ leg["A"] = "init" /\ leg["B"] = "none"
  /\ other' = Set(other, "A", TRUE)
  /\ lockers' = Set(lockers, "B", lockers["B"] \cup {"A"})
  /\ linked' = [l \in Leg |-> TRUE]
  /\ \/ leg' = [l \in Leg |-> IF l = "A" THEN "up" ELSE "init"]
     \/ leg' = [l \in Leg |-> IF l = "A" THEN "down" ELSE "stranded"]
  /\ UNCHANGED <<bridged, bowout, writer, met>>

\* No session, or no codec, for B.  In the first case A is left as it is.
InitAFails ==
  /\ leg["A"] = "init" /\ leg["B"] = "none"
  /\ \/ leg' = [l \in Leg |-> IF l = "A" THEN "down" ELSE "destroyed"]
     \/ leg' = Set(leg, "B", "destroyed")
  /\ UNCHANGED <<lockers, other, linked, bridged, bowout, writer, met>>

\* Slip: the session of leg A is looked at, not locked.
InitBUnlocked ==
  /\ leg["B"] = "init"
  /\ ~Hung("A")
  /\ leg' = Set(leg, "B", "up") /\ other' = Set(other, "B", TRUE) /\ met' = TRUE
  /\ UNCHANGED <<lockers, linked, bridged, bowout, writer>>

\* Leg B finds A by its uuid, unless A is hung up.
InitB ==
  /\ leg["B"] = "init"
  /\ IF Hung("A")
     THEN /\ leg' = Set(leg, "B", "down")
          /\ linked' = Set(linked, "B", FALSE)
          /\ UNCHANGED <<other, lockers, met>>
     ELSE /\ leg' = Set(leg, "B", "up")
          /\ other' = Set(other, "B", TRUE)
          /\ lockers' = Set(lockers, "A", lockers["A"] \cup {"B"})
          /\ met' = TRUE
          /\ UNCHANGED linked
  /\ UNCHANGED <<bridged, bowout, writer>>

-----------------------------------------------------------------------------
(***************************************************************************)
(* Bowing out                                                              *)
(***************************************************************************)

\* channel_on_execute: a leg about to run something that needs a real channel
\* hands it to the real channel beyond the other leg, if there is one.
BowOutOnExecute(l) ==
  /\ leg[l] = "up"
  /\ bowout' = Set(bowout, l, TRUE)
  /\ leg' \in {leg} \cup (IF bridged[Peer(l)] THEN {HangUp({l})} ELSE {})
  /\ UNCHANGED <<lockers, other, linked, bridged, writer, met>>

\* channel_write_frame on leg A: both legs are bridged, the mutex is given back
\* to look for the real channels.
WriterLooks ==
  /\ writer = "idle" /\ leg["A"] \in {"up", "down", "released"}
  /\ ~bowout["A"] /\ other["A"]
  /\ bridged["A"] /\ bridged["B"]
  /\ writer' = "finding"
  /\ UNCHANGED <<leg, lockers, other, linked, bridged, bowout, met>>

\* find_non_loopback_bridge of both legs; that of leg B starts from the pointer
\* to it.  One that finds none leaves the frame to be queued.
WriterFinds ==
  /\ writer = "finding"
  /\ writer' \in IF ~other["A"] THEN {"undefined"}
                 ELSE IF bridged["A"] /\ bridged["B"] THEN {"found", "idle"} ELSE {"idle"}
  /\ UNCHANGED <<leg, lockers, other, linked, bridged, bowout, met>>

\* Under the mutex again: the real channels are bridged to each other, which
\* ends the bridges of the legs.
WriterBowsOut ==
  /\ writer = "found"
  /\ \/ /\ other["A"]
        /\ writer' = "idle"
        /\ bowout' = [l \in Leg |-> TRUE]
        /\ bridged' = [l \in Leg |-> FALSE]
        /\ leg' = HangUp(IF controlled_hangup THEN Leg ELSE {})
     \/ \* the real channels are no longer bridged
        other["A"] /\ writer' = "idle" /\ UNCHANGED <<leg, bridged, bowout>>
     \/ ~other["A"] /\ writer' = "undefined" /\ UNCHANGED <<leg, bridged, bowout>>
  /\ UNCHANGED <<lockers, other, linked, met>>

-----------------------------------------------------------------------------
\* Slips: the other leg stays linked; its lock is not given back.
OnHangupLinked(l) ==
  /\ leg[l] = "down"
  /\ linked' = Set(linked, l, FALSE)
  /\ leg' = Set(HangUp(IF other[l] THEN {Peer(l)} ELSE {}), l, "released")
  /\ other' = Set(other, l, FALSE)
  /\ lockers' = Set(lockers, Peer(l), lockers[Peer(l)] \ {l})
  /\ bridged' = Set(bridged, l, FALSE)
  /\ UNCHANGED <<bowout, writer, met>>
OnHangupLocked(l) ==
  /\ leg[l] = "down"
  /\ linked' = [k \in Leg |-> linked[k] /\ k # l /\ ~other[l]]
  /\ leg' = Set(HangUp(IF other[l] THEN {Peer(l)} ELSE {}), l, "released")
  /\ other' = Set(other, l, FALSE)
  /\ bridged' = Set(bridged, l, FALSE)
  /\ UNCHANGED <<lockers, bowout, writer, met>>

\* channel_on_hangup: first TFLAG_LINKED, then, under the mutex, the other leg
\* is told and given back.
OnHangup(l) ==
  /\ leg[l] = "down"
  /\ linked' = [k \in Leg |-> linked[k] /\ k # l /\ ~other[l]]
  /\ leg' = Set(HangUp(IF other[l] THEN {Peer(l)} ELSE {}), l, "released")
  /\ other' = Set(other, l, FALSE)
  /\ lockers' = Set(lockers, Peer(l), lockers[Peer(l)] \ {l})
  /\ bridged' = Set(bridged, l, FALSE)
  /\ UNCHANGED <<bowout, writer, met>>

\* SWITCH_SIG_KILL; everybody may hang up a leg.
channel_kill_channel(l) ==
  /\ leg[l] \in {"init", "up"}
  /\ leg' = HangUp({l})
  /\ linked' = [k \in Leg |-> linked[k] /\ k # l /\ ~other[l]]
  /\ UNCHANGED <<lockers, other, bridged, bowout, writer, met>>

\* channel_receive_message: a leg is bridged to a real channel, or no longer.
Bridge(l) ==
  /\ leg[l] = "up" /\ ~bridged[l]
  /\ bridged' = Set(bridged, l, TRUE)
  /\ UNCHANGED <<leg, lockers, other, linked, bowout, writer, met>>
Unbridge(l) ==
  /\ bridged[l]
  /\ bridged' = Set(bridged, l, FALSE)
  /\ UNCHANGED <<leg, lockers, other, linked, bowout, writer, met>>

\* The core destroys a session nobody holds; the writer's thread holds A.
Destroy(l) ==
  /\ leg[l] = "released" /\ lockers[l] = {}
  /\ l = "A" => writer = "idle"
  /\ leg' = Set(leg, l, "destroyed")
  /\ UNCHANGED <<lockers, other, linked, bridged, bowout, writer, met>>

LegSteps(l) == OnHangup(l) \/ Destroy(l)
WriterSteps == WriterFinds \/ WriterBowsOut
LbNext ==
  \/ InitA \/ InitAFails \/ InitB
  \/ WriterLooks \/ WriterSteps
  \/ \E l \in Leg : \/ LegSteps(l) \/ BowOutOnExecute(l) \/ channel_kill_channel(l)
                    \/ Bridge(l) \/ Unbridge(l)

\* The threads of the legs run, and the writer comes back.  A leg has few steps
\* to make, so it is enough that one leg goes on while one can.
AnyLeg == InitB \/ \E l \in Leg : LegSteps(l)
LbFairness == WF_lbvars(AnyLeg) /\ WF_lbvars(WriterSteps)
LbSpec == LbInit /\ [][LbNext]_lbvars /\ LbFairness

-----------------------------------------------------------------------------
(***************************************************************************)
(* Properties                                                              *)
(***************************************************************************)

LbTypeOK ==
  /\ leg \in [Leg -> {"none", "init", "up", "down", "released", "destroyed", "stranded"}]
  /\ lockers \in [Leg -> SUBSET Leg]
  /\ other \in [Leg -> BOOLEAN] /\ linked \in [Leg -> BOOLEAN]
  /\ bridged \in [Leg -> BOOLEAN] /\ bowout \in [Leg -> BOOLEAN]
  /\ writer \in {"idle", "finding", "found", "undefined"} /\ met \in BOOLEAN

\* What a leg points to has not been destroyed: the read lock taken in its init
\* lasts as long as the pointer (:259, :373), and a leg that runs has the pointer.
OtherLegLocked ==
  \A l \in Leg :
    /\ leg[l] = "up" => other[l]
    /\ other[l] => leg[Peer(l)] \notin {"none", "destroyed"}

\* TFLAG_LINKED, on which the frame functions of both threads rely: when the
\* hangup of a leg has run neither is linked, whichever init or hangup the
\* other was in (:572-577, :341-344); but a leg B hung up before its init
\* cannot tell leg A.
UnlinkedTogether ==
  \A l \in Leg :
    leg[l] = "released" => ~linked[l] /\ (linked[Peer(l)] => l = "B" /\ ~met)

\* A hangup of either leg, once they have met, ends the call: both sessions are
\* destroyed in the end, except that a leg B without a thread stays.
PairGoes ==
  (Hung("A") \/ (Hung("B") /\ met)) ~>
    \/ \A l \in Leg : leg[l] \in {"none", "destroyed", "stranded"}
    \/ writer = "undefined"
=============================================================================
