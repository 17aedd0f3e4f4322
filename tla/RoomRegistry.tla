---------------------------- MODULE RoomRegistry ----------------------------
(***************************************************************************)
(* What mod_conference's name table and read locks promise to a caller who *)
(* is let into a conference by name: at most one room is listed under the  *)
(* name, one gets in only through the listed room (or by opening it), an   *)
(* unlisted room is never listed again, and a room disappears only when    *)
(* everyone who was let in has gone.                                       *)
(***************************************************************************)
EXTENDS Naturals

CONSTANTS Guest, Room

VARIABLES
  state,    \* of each room: "unborn", "listed", "unlisted" or "gone"
  inside    \* the guests in each room

regVars == <<state, inside>>

RegTypeOK ==
  /\ state \in [Room -> {"unborn", "listed", "unlisted", "gone"}]
  /\ inside \in [Room -> SUBSET Guest]

RegInit ==
  /\ state = [r \in Room |-> "unborn"]
  /\ inside = [r \in Room |-> {}]

Free(g) == \A r \in Room : g \notin inside[r]

\* A room opens with its first guest in it, or for somebody who holds no lock.
Open(r) ==
  /\ state[r] = "unborn"
  /\ \A s \in Room : state[s] # "listed"
  /\ state' = [state EXCEPT ![r] = "listed"]
  /\ \/ UNCHANGED inside
     \/ \E g \in Guest : Free(g) /\ inside' = [inside EXCEPT ![r] = {g}]

Join(g, r) ==
  /\ state[r] = "listed"
  /\ Free(g)
  /\ inside' = [inside EXCEPT ![r] = @ \cup {g}]
  /\ UNCHANGED state

Part(g, r) ==
  /\ g \in inside[r]
  /\ inside' = [inside EXCEPT ![r] = @ \ {g}]
  /\ UNCHANGED state

Close(r) ==
  /\ state[r] = "listed"
  /\ state' = [state EXCEPT ![r] = "unlisted"]
  /\ UNCHANGED inside

Vanish(r) ==
  /\ state[r] = "unlisted"
  /\ inside[r] = {}
  /\ state' = [state EXCEPT ![r] = "gone"]
  /\ UNCHANGED inside

RegNext ==
  \E r \in Room :
    \/ Open(r) \/ Close(r) \/ Vanish(r)
    \/ \E g \in Guest : Join(g, r) \/ Part(g, r)

RegSpec == RegInit /\ [][RegNext]_regVars
=============================================================================
