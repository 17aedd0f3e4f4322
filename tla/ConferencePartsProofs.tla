------------------------ MODULE ConferencePartsProofs ------------------------
(***************************************************************************)
(* Proofs about two parts of a conference, for any members, people,        *)
(* recordings, files and settings.                                         *)
(*                                                                         *)
(* The floor: it is never left with a member that has gone; nor is the     *)
(* video floor, but for a command that picked a member which then went.    *)
(*                                                                         *)
(* Recording: the list never leads to a recording whose memory is gone;    *)
(* there is one automatic recording at a time; no file is written twice at *)
(* once, and both counts tell what is recorded, but for the races and the  *)
(* slips that the properties name.                                         *)
(***************************************************************************)
EXTENDS MCConferenceParts, FiniteSetTheorems, SequenceTheorems,
        WellFoundedInduction, TLAPS

(***************************************************************************)
(* The floor                                                               *)
(***************************************************************************)

\* What the floor rests on: whoever a command speaks for has not begun to leave.
FloorInv ==
  /\ floor \in FloorMembers \cup {Nobody} /\ pass.copy \in FloorMembers \cup {Nobody}
  /\ DOMAIN phase = FloorMembers /\ DOMAIN api = FloorMembers
  /\ FloorHolderThere
  /\ \A m \in FloorMembers : api[m].step # "idle" => In(m)

\* No id is 0, so the floor of nobody is not somebody's.
LEMMA NobodyIsNobody == Nobody \notin FloorMembers
BY FloorAssumption DEF Nobody

\* Nobody has the floor at first.
LEMMA FloorInvInit == FloorInit => FloorInv
BY NobodyIsNobody DEF FloorInit, FloorInv, FloorHolderThere, NoPass, Idle, Nobody

\* The monitor gives the floor to one it finds running, and writes its copy back
\* only if it is of one who can still be had.
LEMMA PassKeeps == FloorInv /\ (PassSteps \/ PassSeesFlow) => FloorInv'
<1> SUFFICES ASSUME FloorInv, PassSteps \/ PassSeesFlow
             PROVE  FloorInv'
  OBVIOUS
<1> USE NobodyIsNobody DEF FloorInv, FloorHolderThere, In
<1>1. CASE PassStarts
  BY <1>1 DEF PassStarts
<1>2. CASE PassGives
  BY <1>2 DEF PassGives
<1>3. CASE PassGoesOn
  BY <1>3 DEF PassGoesOn
<1>4. CASE PassEnds
  BY <1>4 DEF PassEnds, NoPass
<1>5. CASE PassSeesFlow
  BY <1>5 DEF PassSeesFlow
<1> QED BY <1>1, <1>2, <1>3, <1>4, <1>5 DEF PassSteps

\* A member that leaves waits for the commands that speak for it, and gives the
\* floor up before it is gone.
LEMMA MemberKeeps ==
  ASSUME NEW m \in FloorMembers, FloorInv,
         member_add(m) \/ Deletes(m) \/ DeletionSteps(m)
  PROVE  FloorInv'
<1> USE NobodyIsNobody DEF FloorInv, FloorHolderThere, In, Phase, Idle
<1>1. CASE member_add(m)
  BY <1>1 DEF member_add
<1>2. CASE Deletes(m)
  BY <1>2 DEF Deletes
<1>3. CASE Unlists(m)
  BY <1>3 DEF Unlists
<1>4. CASE GivesUpFloor(m)
  BY <1>4 DEF GivesUpFloor
<1>5. CASE GivesUpVideoFloor(m)
  BY <1>5 DEF GivesUpVideoFloor
<1>6. CASE Leaves(m)
  BY <1>6 DEF Leaves
<1> QED BY <1>1, <1>2, <1>3, <1>4, <1>5, <1>6 DEF DeletionSteps

\* A command gives the floor only to the member whose lock it holds.
LEMMA CommandKeeps ==
  ASSUME NEW m \in FloorMembers, FloorInv,
         \/ conference_member_get(m) \/ ApiSteps(m) \/ VidFloor(m) \/ RolePicks(m)
         \/ InputLoop(m) \/ OffCanvas(m) \/ clear_vid_floor
  PROVE  FloorInv'
<1> USE NobodyIsNobody DEF FloorInv, FloorHolderThere, In, Api
<1>1. CASE conference_member_get(m)
  BY <1>1 DEF conference_member_get
<1>2. CASE FloorLooks(m)
  BY <1>2 DEF FloorLooks
<1>3. CASE FloorSets(m)
  BY <1>3 DEF FloorSets
<1>4. CASE VidFloor(m)
  BY <1>4 DEF VidFloor
<1>5. CASE RolePicks(m)
  BY <1>5 DEF RolePicks
<1>6. CASE RoleSets(m)
  BY <1>6 DEF RoleSets
<1>7. CASE RoleSearches(m)
  BY <1>7 DEF RoleSearches
<1>8. CASE InputLoop(m) \/ OffCanvas(m) \/ clear_vid_floor
  BY <1>8 DEF InputLoop, OffCanvas, clear_vid_floor
<1> QED BY <1>1, <1>2, <1>3, <1>4, <1>5, <1>6, <1>7, <1>8 DEF ApiSteps

\* Every step of the floor keeps the invariant.
LEMMA FloorInvKept == FloorInv /\ [FloorNext]_floorvars => FloorInv'
<1> SUFFICES ASSUME FloorInv, [FloorNext]_floorvars
             PROVE  FloorInv'
  OBVIOUS
<1>1. CASE PassSteps \/ PassSeesFlow
  BY <1>1, PassKeeps
<1>2. CASE clear_vid_floor
  BY <1>2 DEF clear_vid_floor, FloorInv, FloorHolderThere, In
<1>3. ASSUME NEW m \in FloorMembers,
             \/ member_add(m) \/ Deletes(m) \/ DeletionSteps(m)
             \/ conference_member_get(m) \/ ApiSteps(m) \/ VidFloor(m) \/ RolePicks(m)
             \/ InputLoop(m) \/ OffCanvas(m)
      PROVE  FloorInv'
  BY <1>3, MemberKeeps, CommandKeeps
<1>4. CASE UNCHANGED floorvars
  BY <1>4 DEF floorvars, FloorInv, FloorHolderThere, In
<1> QED BY <1>1, <1>2, <1>3, <1>4 DEF FloorNext

\* Neither the monitor, with the copy it took before, nor a command that looked
\* before leaves the floor with a member that has gone.
THEOREM FloorHolderStays == FloorSpec => []FloorHolderThere
<1>1. FloorInv => FloorHolderThere
  BY DEF FloorInv
<1> QED BY <1>1, FloorInvKept, FloorInvInit, PTL DEF FloorSpec

-----------------------------------------------------------------------------
(***************************************************************************)
(* Recording                                                               *)
(***************************************************************************)

Phases == {"none", "asked", "launched", "opening", "running", "ending", "deleted", "counted",
           "gone", "lost"}
RecType == rec \in [Recs -> [phase : Phases, file : Files, auto : BOOLEAN, run : BOOLEAN, added : BOOLEAN]]

\* The recordings an automatic one must not stand beside.
Taken(r) == rec[r].auto /\ rec[r].phase \in {"launched", "opening", "running", "ending", "deleted"}

\* A recording is listed once, and from its launch to its end.
ListInv ==
  /\ RecType
  /\ nodes \in Seq(Recs)
  /\ \A i, j \in DOMAIN nodes : nodes[i] = nodes[j] => i = j
  /\ \A i \in DOMAIN nodes : rec[nodes[i]].phase \notin {"none", "asked", "gone"}

\* auto_recording is 1 as long as there is one, and there is no other.
AutoInv ==
  /\ RecType
  /\ counts.auto_recording \in {0, 1}
  /\ DOMAIN counts = {"record_count", "recording_members", "auto_recording"}
  /\ \A r \in Recs : rec[r].phase \in {"none", "asked"} => ~rec[r].auto
  /\ \A r \in Recs : Taken(r) => counts.auto_recording = 1
  /\ \A r, s \in Recs : Taken(r) /\ Taken(s) => r = s

-----------------------------------------------------------------------------
\* Nothing is recorded at first.
LEMMA RecInvInit == RecInit => ListInv /\ AutoInv
BY RecordingAssumption DEF RecInit, ListInv, AutoInv, RecType, Phases, NewRec, Taken

\* A recording that is launched comes first in the list, and was not in it.
LEMMA Launched ==
  ASSUME ListInv, NEW r \in Recs, rec[r].phase \in {"none", "asked"},
         nodes' = <<r>> \o nodes,
         RecType', rec'[r].phase = "launched",
         \A s \in Recs \ {r} : rec'[s].phase = rec[s].phase
  PROVE  ListInv'
<1>1. nodes' \in Seq(Recs) /\ Len(nodes') = 1 + Len(nodes)
  BY DEF ListInv
<1>2. \A i \in DOMAIN nodes' : nodes'[i] = IF i = 1 THEN r ELSE nodes[i - 1]
  BY DEF ListInv
<1>3. DOMAIN nodes = 1..Len(nodes) /\ DOMAIN nodes' = 1..(1 + Len(nodes)) /\ Len(nodes) \in Nat
  BY <1>1 DEF ListInv
<1>4. \A i \in DOMAIN nodes : nodes[i] # r /\ nodes[i] \in Recs
  BY <1>3 DEF ListInv
<1>5. \A i \in DOMAIN nodes' : i # 1 => i - 1 \in DOMAIN nodes /\ nodes'[i] = nodes[i - 1]
  BY <1>2, <1>3
<1>6. ASSUME NEW i \in DOMAIN nodes', NEW j \in DOMAIN nodes', nodes'[i] = nodes'[j]
      PROVE  i = j
  <2>1. CASE i = 1 \/ j = 1
    BY <2>1, <1>2, <1>4, <1>5, <1>6
  <2>2. CASE i # 1 /\ j # 1
    <3>1. nodes[i - 1] = nodes[j - 1] /\ i - 1 \in DOMAIN nodes /\ j - 1 \in DOMAIN nodes
      BY <2>2, <1>5, <1>6
    <3>2. i - 1 = j - 1
      BY <3>1 DEF ListInv
    <3> QED BY <3>2, <1>3
  <2> QED BY <2>1, <2>2
<1>7. ASSUME NEW i \in DOMAIN nodes'
      PROVE  rec'[nodes'[i]].phase \notin {"none", "asked", "gone"}
  <2>1. CASE i = 1
    BY <2>1, <1>2
  <2>2. CASE i # 1
    BY <2>2, <1>4, <1>5 DEF ListInv
  <2> QED BY <2>1, <2>2
<1> QED BY <1>1, <1>6, <1>7 DEF ListInv

\* What is left of the list is the part of it behind the one that ends.
LEMMA Ended ==
  ASSUME ListInv, NEW r \in Recs, nodes' = Unlinked(r), RecType',
         \A s \in Recs \ {r} : rec'[s].phase = rec[s].phase
  PROVE  ListInv'
<1>1. CASE r \notin ToSet(nodes)
  BY <1>1 DEF ListInv, Unlinked, ToSet
<1>2. CASE r \in ToSet(nodes)
  <2> DEFINE k == CHOOSE i \in DOMAIN nodes : nodes[i] = r
  <2>1. k \in DOMAIN nodes /\ nodes[k] = r
    BY <1>2 DEF ToSet
  <2>2. nodes' = SubSeq(nodes, 1 + k, Len(nodes))
    BY <1>2 DEF Unlinked
  <2> HIDE DEF k
  <2>3. k \in 1..Len(nodes) /\ Len(nodes) \in Nat
    BY <2>1 DEF ListInv
  <2>4. nodes' \in Seq(Recs) /\ Len(nodes') = Len(nodes) - k
    BY <2>2, <2>3 DEF ListInv
  <2>5. \A i \in DOMAIN nodes' : k + i \in DOMAIN nodes /\ k + i # k /\ nodes'[i] = nodes[k + i]
    BY <2>2, <2>3, <2>4 DEF ListInv
  <2>6. \A i \in DOMAIN nodes' : nodes'[i] # r /\ nodes'[i] \in Recs
    BY <2>1, <2>5, <2>4 DEF ListInv
  <2>7. \A i, j \in DOMAIN nodes' : nodes'[i] = nodes'[j] => i = j
    <3> SUFFICES ASSUME NEW i \in DOMAIN nodes', NEW j \in DOMAIN nodes', nodes'[i] = nodes'[j]
                 PROVE  i = j
      OBVIOUS
    <3>1. k + i = k + j
      BY <2>5 DEF ListInv
    <3>2. i \in Int /\ j \in Int /\ k \in Int
      BY <2>3, <2>4
    <3> QED BY <3>1, <3>2
  <2>8. \A i \in DOMAIN nodes' : rec'[nodes'[i]].phase \notin {"none", "asked", "gone"}
    BY <2>5, <2>6 DEF ListInv
  <2> QED BY <2>4, <2>7, <2>8 DEF ListInv
<1> QED BY <1>1, <1>2

\* Steps that leave the list alone and neither end nor launch a recording.
LEMMA ListUntouched ==
  ASSUME ListInv, UNCHANGED nodes, RecType',
         \A s \in Recs : rec'[s].phase = rec[s].phase \/ rec[s].phase = "none"
                           \/ rec'[s].phase \notin {"none", "asked", "gone"}
  PROVE  ListInv'
<1>1. \A i \in DOMAIN nodes : nodes[i] \in Recs
  BY DEF ListInv
<1> QED BY <1>1 DEF ListInv
-----------------------------------------------------------------------------
\* Every step keeps the types of the recordings.
LEMMA RecTypeKept == RecType /\ RecNext => RecType'
<1> SUFFICES ASSUME RecType, RecNext
             PROVE  RecType'
  OBVIOUS
<1> USE DEF RecType, Phases, Moved
<1>1. ASSUME NEW p \in Persons, Joins(p) \/ Parts(p)
      PROVE  RecType'
  BY <1>1 DEF Joins, Parts
<1> DEFINE R == [phase : Phases, file : Files, auto : BOOLEAN, run : BOOLEAN, added : BOOLEAN]
<1>s. \A r \in Recs : [rec[r] EXCEPT !.run = FALSE] \in R
  OBVIOUS
<1>2. CASE conference_record_stop
  <2>1. PICK stopped : rec' = [r \in Recs |-> IF r \in stopped THEN [rec[r] EXCEPT !.run = FALSE]
                                                               ELSE rec[r]]
    BY <1>2 DEF conference_record_stop
  <2>2. \A r \in Recs : rec[r] \in R
    OBVIOUS
  <2> HIDE DEF Phases, R
  <2>3. rec' \in [Recs -> R]
    BY <1>s, <2>1, <2>2
  <2> QED BY <2>3 DEF R
<1>3. CASE RoomEnds
  <2>1. rec' = [r \in Recs |-> IF r \in ToSet(tree) THEN [rec[r] EXCEPT !.run = FALSE] ELSE rec[r]]
    BY <1>3 DEF RoomEnds
  <2>2. \A r \in Recs : rec[r] \in R
    OBVIOUS
  <2> HIDE DEF Phases, R
  <2>3. rec' \in [Recs -> R]
    BY <1>s, <2>1, <2>2
  <2> QED BY <2>3 DEF R
<1>6. CASE RoomGone
  BY <1>6 DEF RoomGone
<1>4. ASSUME NEW r \in Recs, AutoRecords(r) \/ WriteFails(r) \/ RecSteps(r)
      PROVE  RecType'
  <2>1. CASE AutoRecords(r)
    BY <2>1 DEF AutoRecords
  <2>2. CASE WriteFails(r)
    BY <2>2 DEF WriteFails
  <2>3. CASE conference_api_sub_record(r)
    BY <2>3 DEF conference_api_sub_record
  <2>4. CASE RecLocks(r) \/ Opens(r) \/ FailsToOpen(r) \/ LoopEnds(r)
    BY <2>4 DEF RecLocks, Opens, FailsToOpen, LoopEnds
  <2>5. CASE RecMemberDel(r) \/ Uncounts(r) \/ RecEnds(r)
    BY <2>5 DEF RecMemberDel, Uncounts, RecEnds
  <2> QED BY <1>4, <2>1, <2>2, <2>3, <2>4, <2>5 DEF RecSteps
<1>5. ASSUME NEW r \in Recs, NEW f \in Files, AsksToRecord(r, f)
      PROVE  RecType'
  BY <1>5 DEF AsksToRecord
<1> QED BY <1>1, <1>2, <1>3, <1>4, <1>5, <1>6 DEF RecNext

\* A recording enters the list when it is launched and leaves it before its
\* memory is given back; what it takes out with it is not looked at again.
LEMMA ListKept == ListInv /\ RecNext => ListInv'
<1> SUFFICES ASSUME ListInv, RecNext
             PROVE  ListInv'
  OBVIOUS
<1>t. RecType /\ RecType'
  BY RecTypeKept DEF ListInv
<1> USE <1>t DEF RecType, Moved
<1>1. ASSUME NEW p \in Persons, Joins(p) \/ Parts(p)
      PROVE  ListInv'
  BY <1>1, ListUntouched DEF Joins, Parts
<1>2. CASE conference_record_stop
  <2>1. UNCHANGED nodes /\ \A s \in Recs : rec'[s].phase = rec[s].phase
    BY <1>2 DEF conference_record_stop
  <2> QED BY <2>1, ListUntouched
<1>3. CASE RoomEnds \/ RoomGone
  <2>1. UNCHANGED nodes /\ \A s \in Recs : rec'[s].phase = rec[s].phase
    BY <1>3 DEF RoomEnds, RoomGone
  <2> QED BY <2>1, ListUntouched
<1>4. ASSUME NEW r \in Recs, AutoRecords(r) \/ WriteFails(r) \/ RecSteps(r)
      PROVE  ListInv'
  <2>1. CASE AutoRecords(r) \/ conference_api_sub_record(r)
    <3>1. CASE rec' = rec /\ nodes' = nodes
      BY <3>1, ListUntouched
    <3>2. CASE ~(rec' = rec /\ nodes' = nodes)
      <4>1. rec[r].phase \in {"none", "asked"} /\ nodes' = <<r>> \o nodes
            /\ rec'[r].phase = "launched" /\ \A s \in Recs \ {r} : rec'[s].phase = rec[s].phase
        BY <2>1, <3>2 DEF AutoRecords, conference_api_sub_record, IsNext, At
      <4> QED BY <4>1, Launched
    <3> QED BY <3>1, <3>2
  <2>2. CASE WriteFails(r) \/ RecLocks(r) \/ Opens(r) \/ FailsToOpen(r) \/ LoopEnds(r)
             \/ RecMemberDel(r) \/ Uncounts(r)
    <3>1. UNCHANGED nodes /\ \A s \in Recs : rec'[s].phase = rec[s].phase
                                \/ rec'[s].phase \notin {"none", "asked", "gone"}
      BY <2>2 DEF WriteFails, RecLocks, Opens, FailsToOpen, LoopEnds, RecMemberDel, Uncounts
    <3> QED BY <3>1, ListUntouched
  <2>3. CASE RecEnds(r)
    BY <2>3, Ended DEF RecEnds
  <2> QED BY <1>4, <2>1, <2>2, <2>3 DEF RecSteps
<1>5. ASSUME NEW r \in Recs, NEW f \in Files, AsksToRecord(r, f)
      PROVE  ListInv'
  <2>1. UNCHANGED nodes /\ \A s \in Recs : rec'[s].phase = rec[s].phase \/ rec[s].phase = "none"
    BY <1>5 DEF AsksToRecord, IsNext, At
  <2> QED BY <2>1, ListUntouched
<1> QED BY <1>1, <1>2, <1>3, <1>4, <1>5 DEF RecNext

\* What is counted as automatic is launched by the monitor alone, when there is
\* none, and counted off by the recording itself.
LEMMA AutoKept == AutoInv /\ RecNext => AutoInv'
<1> SUFFICES ASSUME AutoInv, RecNext
             PROVE  AutoInv'
  OBVIOUS
<1>t. RecType /\ RecType'
  BY RecTypeKept DEF AutoInv
<1> USE DEF AutoInv, Taken, RecType, Moved
<1>1. ASSUME NEW p \in Persons, Joins(p) \/ Parts(p)
      PROVE  AutoInv'
  BY <1>t, <1>1 DEF Joins, Parts
<1>2. CASE conference_record_stop \/ RoomEnds \/ RoomGone
  <2>1. UNCHANGED counts
    BY <1>2 DEF conference_record_stop, RoomEnds, RoomGone
  <2>2. \A s \in Recs : rec'[s].phase = rec[s].phase /\ rec'[s].auto = rec[s].auto
    BY <1>2, <1>t DEF conference_record_stop, RoomEnds, RoomGone
  <2> QED BY <1>t, <2>1, <2>2
<1>3. ASSUME NEW r \in Recs, AutoRecords(r) \/ WriteFails(r) \/ RecSteps(r)
      PROVE  AutoInv'
  <2>1. CASE AutoRecords(r)
    <3>1. counts.auto_recording = 0 /\ rec[r].phase = "none" /\ \A s \in Recs : ~Taken(s)
      BY <2>1 DEF AutoRecords, Wanted, IsNext, At
    <3>2. counts'.auto_recording = 1
          /\ DOMAIN counts' = {"record_count", "recording_members", "auto_recording"}
      BY <2>1, <3>1 DEF AutoRecords, Counted
    <3>3. \A s \in Recs \ {r} : rec'[s] = rec[s]
      BY <2>1, <1>t DEF AutoRecords
    <3>4. rec'[r] = rec[r] \/ rec'[r].phase = "launched"
      BY <2>1, <1>t DEF AutoRecords
    <3> QED BY <1>t, <3>1, <3>2, <3>3, <3>4
  <2>2. CASE conference_api_sub_record(r)
    <3>1. ~rec[r].auto /\ rec'[r].phase = "launched" /\ ~rec'[r].auto
          /\ \A s \in Recs \ {r} : rec'[s] = rec[s]
      BY <2>2, <1>t DEF conference_api_sub_record
    <3>2. counts'.auto_recording = counts.auto_recording /\ DOMAIN counts' = DOMAIN counts
      BY <2>2 DEF conference_api_sub_record, Counted
    <3> QED BY <1>t, <3>1, <3>2
  <2>3. CASE WriteFails(r) \/ RecLocks(r) \/ Opens(r) \/ FailsToOpen(r) \/ LoopEnds(r) \/ RecMemberDel(r)
    <3>1. rec'[r].auto = rec[r].auto /\ \A s \in Recs \ {r} : rec'[s] = rec[s]
      BY <2>3, <1>t DEF WriteFails, RecLocks, Opens, FailsToOpen, LoopEnds, RecMemberDel
    <3>2. rec[r].phase \in {"launched", "opening", "running", "ending"}
          /\ rec'[r].phase \notin {"none", "asked"}
      BY <2>3, <1>t DEF WriteFails, RecLocks, Opens, FailsToOpen, LoopEnds, RecMemberDel
    <3>3. counts'.auto_recording = counts.auto_recording /\ DOMAIN counts' = DOMAIN counts
      BY <2>3 DEF WriteFails, RecLocks, Opens, FailsToOpen, LoopEnds, RecMemberDel
    <3> QED BY <1>t, <3>1, <3>2, <3>3
  <2>4. CASE Uncounts(r)
    <3>1. rec[r].phase = "deleted" /\ rec'[r].phase = "counted"
          /\ \A s \in Recs \ {r} : rec'[s] = rec[s]
      BY <2>4, <1>t DEF Uncounts
    <3>2. DOMAIN counts' = DOMAIN counts
          /\ counts'.auto_recording = IF rec[r].auto THEN 0 ELSE counts.auto_recording
      <4>1. rec[r].auto => counts.auto_recording = 1
        BY <3>1
      <4>2. rec[r].auto \in BOOLEAN
        BY <1>t
      <4>3. CASE rec[r].auto
        BY <2>4, <4>1, <4>3 DEF Uncounts, Counted
      <4>4. CASE ~rec[r].auto
        BY <2>4, <4>4 DEF Uncounts, Counted
      <4> QED BY <4>2, <4>3, <4>4
    <3>3. rec[r].auto => \A s \in Recs : Taken(s) => s = r
      BY <3>1
    <3> QED BY <1>t, <3>1, <3>2, <3>3
  <2>5. CASE RecEnds(r)
    <3>1. rec[r].phase = "counted" /\ rec'[r].phase = "gone" /\ UNCHANGED counts
          /\ \A s \in Recs \ {r} : rec'[s] = rec[s]
      BY <2>5, <1>t DEF RecEnds
    <3> QED BY <1>t, <3>1
  <2> QED BY <1>3, <2>1, <2>2, <2>3, <2>4, <2>5 DEF RecSteps
<1>4. ASSUME NEW r \in Recs, NEW f \in Files, AsksToRecord(r, f)
      PROVE  AutoInv'
  <2>1. rec[r].phase = "none" /\ rec'[r].phase = "asked" /\ rec'[r].auto = rec[r].auto
        /\ UNCHANGED counts /\ \A s \in Recs \ {r} : rec'[s] = rec[s]
    BY <1>4, <1>t DEF AsksToRecord, IsNext, At
  <2> QED BY <1>t, <2>1
<1> QED BY <1>1, <1>2, <1>3, <1>4 DEF RecNext

-----------------------------------------------------------------------------
\* Nothing changes when nothing happens.
LEMMA RecStutters == ListInv /\ AutoInv /\ UNCHANGED recvars => ListInv' /\ AutoInv'
BY DEF recvars, ListInv, AutoInv, RecType, Taken

\* Every step of a recording keeps both.
LEMMA RecInvKept == ListInv /\ AutoInv /\ [RecNext]_recvars => (ListInv /\ AutoInv)'
BY ListKept, AutoKept, RecStutters

\* Both invariants hold in every reachable state.
LEMMA RecInvariant == RecSpec => [](ListInv /\ AutoInv)
BY RecInvKept, RecInvInit, PTL DEF RecSpec

\* A command that walks the list of recordings reads no memory that was given back.
THEOREM ListStaysLive == RecSpec => []ListIsLive
<1>1. ListInv => ListIsLive
  BY DEF ListInv, ListIsLive, ToSet, At
<1> QED BY <1>1, RecInvariant, PTL

\* The monitor starts no automatic recording beside another.
THEOREM OneAutoAtATime == RecSpec => []OneAutoRecording
<1>1. AutoInv => OneAutoRecording
  <2> SUFFICES ASSUME AutoInv
               PROVE  OneAutoRecording
    OBVIOUS
  <2> DEFINE A == {r \in At({"launched", "opening", "running", "ending", "deleted"}) : rec[r].auto}
  <2>1. \A r, s \in A : r = s
    BY DEF AutoInv, Taken, At
  <2>2. Cardinality(A) <= 1
    <3>1. CASE A = {}
      BY <3>1, FS_EmptySet
    <3>2. CASE A # {}
      <4>1. PICK r \in A : TRUE
        BY <3>2
      <4>2. A = {r}
        BY <4>1, <2>1
      <4>3. Cardinality({r}) = 1
        BY FS_Singleton
      <4> QED BY <4>2, <4>3
    <3> QED BY <3>1, <3>2
  <2> QED BY <2>2 DEF OneAutoRecording
<1> QED BY <1>1, RecInvariant, PTL

-----------------------------------------------------------------------------
(***************************************************************************)
(* Files and counts                                                        *)
(***************************************************************************)

Writing(r) == rec[r].phase \in {"launched", "opening", "running", "ending"}

\* Whoever writes is listed, until the list has forgotten somebody; and a file
\* that somebody writes is not asked for again, until two have asked at once.
WrittenInv ==
  /\ ~dropped => \A r \in Recs : Writing(r) => r \in ToSet(nodes)
  /\ ~dropped /\ ~twice =>
       /\ \A r, s \in Recs : rec[r].phase = "asked" /\ Writing(s) /\ ~rec[s].auto
                               => rec[r].file # rec[s].file
       /\ \A r, s \in Recs : Writing(r) /\ Writing(s) /\ r # s /\ ~rec[r].auto /\ ~rec[s].auto
                               => rec[r].file # rec[s].file

\* Steps that leave the list alone and neither ask nor launch.
LEMMA WrittenUntouched ==
  ASSUME WrittenInv, UNCHANGED <<nodes, dropped, twice>>,
         \A s \in Recs : /\ rec'[s].file = rec[s].file /\ rec'[s].auto = rec[s].auto
                         /\ rec'[s].phase = "asked" => rec[s].phase = "asked"
                         /\ Writing(s)' => Writing(s)
  PROVE  WrittenInv'
BY DEF WrittenInv

\* A command that asks has found its file in no recording of the list.
LEMMA AskKeepsWritten ==
  ASSUME RecType, WrittenInv, NEW r \in Recs, NEW f \in Files, AsksToRecord(r, f)
  PROVE  WrittenInv'
<1>1. /\ UNCHANGED <<nodes, dropped, twice>>
      /\ rec'[r].phase = "asked" /\ rec'[r].file = f
      /\ \A s \in Recs \ {r} : rec'[s] = rec[s]
      /\ \A s \in ToSet(nodes) : rec[s].file # f
  BY DEF AsksToRecord, RecType, InUse, ToSet
<1>2. \A s \in Recs : Writing(s)' => s # r /\ Writing(s)
  BY <1>1 DEF Writing
<1> QED BY <1>1, <1>2 DEF WrittenInv

\* A recording that is launched is listed; if another command had looked for the
\* same file before, that is remembered.
LEMMA LaunchKeepsWritten ==
  ASSUME ListInv, WrittenInv, NEW r \in Recs, conference_api_sub_record(r)
  PROVE  WrittenInv'
<1>1. /\ nodes' = <<r>> \o nodes /\ nodes \in Seq(Recs) /\ UNCHANGED dropped
      /\ rec[r].phase = "asked" /\ rec'[r].phase = "launched"
      /\ rec'[r].file = rec[r].file /\ rec'[r].auto = rec[r].auto
      /\ \A s \in Recs \ {r} : rec'[s] = rec[s]
      /\ twice' = (twice \/ \E s \in Recs \ {r} : rec[s].phase = "asked" /\ rec[s].file = rec[r].file)
  BY DEF conference_api_sub_record, ListInv, RecType, Moved, At
<1>2. ToSet(nodes) \cup {r} \subseteq ToSet(nodes')
  <2>1. nodes'[1] = r /\ 1 \in DOMAIN nodes'
    BY <1>1
  <2>2. \A i \in DOMAIN nodes : i + 1 \in DOMAIN nodes' /\ nodes'[i + 1] = nodes[i]
    BY <1>1
  <2> QED BY <2>1, <2>2 DEF ToSet
<1>3. \A s \in Recs : Writing(s)' <=> s = r \/ Writing(s)
  BY <1>1 DEF Writing
<1>4. ~dropped' => \A s \in Recs : Writing(s)' => s \in ToSet(nodes')
  BY <1>1, <1>2, <1>3 DEF WrittenInv
<1>5. ASSUME ~dropped', ~twice', NEW s \in Recs, NEW u \in Recs, Writing(u)', ~rec'[u].auto
      PROVE  /\ rec'[s].phase = "asked" => rec'[s].file # rec'[u].file
             /\ Writing(s)' /\ s # u /\ ~rec'[s].auto => rec'[s].file # rec'[u].file
  <2>1. ~dropped /\ ~twice
    BY <1>1, <1>5
  <2>2. \A v \in Recs : rec'[v].file = rec[v].file /\ rec'[v].auto = rec[v].auto
    BY <1>1
  <2>3. CASE rec'[s].phase = "asked"
    <3>1. s # r /\ rec[s].phase = "asked"
      BY <1>1, <2>3
    <3>2. CASE u = r
      BY <1>1, <1>5, <2>2, <3>1, <3>2
    <3>3. CASE u # r
      BY <1>3, <1>5, <2>1, <2>2, <3>1, <3>3 DEF WrittenInv
    <3> QED BY <2>3, <3>2, <3>3, <1>1 DEF Writing
  <2>4. CASE Writing(s)' /\ s # u /\ ~rec'[s].auto
    <3>1. CASE s = r
      BY <1>1, <1>3, <1>5, <2>1, <2>2, <2>4, <3>1 DEF WrittenInv
    <3>2. CASE u = r
      BY <1>1, <1>3, <1>5, <2>1, <2>2, <2>4, <3>2 DEF WrittenInv
    <3>3. CASE s # r /\ u # r
      BY <1>3, <1>5, <2>1, <2>2, <2>4, <3>3 DEF WrittenInv
    <3>4. rec'[s].phase # "asked"
      BY <2>4 DEF Writing
    <3> QED BY <3>1, <3>2, <3>3, <3>4
  <2> QED BY <2>3, <2>4
<1> QED BY <1>4, <1>5 DEF WrittenInv

\* So is an automatic one, whose file is not looked at.
LEMMA AutoKeepsWritten ==
  ASSUME ListInv, WrittenInv, NEW r \in Recs, AutoRecords(r)
  PROVE  WrittenInv'
<1>1. CASE UNCHANGED <<rec, nodes>>
  BY <1>1, WrittenUntouched DEF AutoRecords, Writing
<1>2. CASE ~UNCHANGED <<rec, nodes>>
  <2>1. /\ nodes' = <<r>> \o nodes /\ nodes \in Seq(Recs) /\ UNCHANGED <<dropped, twice>>
        /\ rec'[r].phase = "launched" /\ rec'[r].auto
        /\ \A s \in Recs \ {r} : rec'[s] = rec[s]
    BY <1>2 DEF AutoRecords, ListInv, RecType
  <2>2. ToSet(nodes) \cup {r} \subseteq ToSet(nodes')
    <3>1. nodes'[1] = r /\ 1 \in DOMAIN nodes'
      BY <2>1
    <3>2. \A i \in DOMAIN nodes : i + 1 \in DOMAIN nodes' /\ nodes'[i + 1] = nodes[i]
      BY <2>1
    <3> QED BY <3>1, <3>2 DEF ToSet
  <2>3. \A s \in Recs : Writing(s)' <=> s = r \/ Writing(s)
    BY <2>1 DEF Writing
  <2>4. ~dropped' => \A s \in Recs : Writing(s)' => s \in ToSet(nodes')
    BY <2>1, <2>2, <2>3 DEF WrittenInv
  <2>5. \A s \in Recs : rec'[s].phase = "asked" \/ ~rec'[s].auto => s # r /\ rec'[s] = rec[s]
    BY <2>1
  <2>6. ASSUME ~dropped', ~twice', NEW s \in Recs, NEW u \in Recs,
               rec'[s].phase = "asked", Writing(u)', ~rec'[u].auto
        PROVE  rec'[s].file # rec'[u].file
    <3>1. s # r /\ rec'[s] = rec[s] /\ u # r /\ rec'[u] = rec[u] /\ Writing(u)
      BY <2>3, <2>5, <2>6
    <3> QED BY <2>1, <2>6, <3>1 DEF WrittenInv
  <2>7. ASSUME ~dropped', ~twice', NEW s \in Recs, NEW u \in Recs,
               Writing(s)', Writing(u)', s # u, ~rec'[s].auto, ~rec'[u].auto
        PROVE  rec'[s].file # rec'[u].file
    <3>1. /\ rec'[s] = rec[s] /\ rec'[u] = rec[u] /\ Writing(s) /\ Writing(u)
      BY <2>3, <2>5, <2>7
    <3> QED BY <2>1, <2>7, <3>1 DEF WrittenInv
  <2> QED BY <2>4, <2>6, <2>7 DEF WrittenInv
<1> QED BY <1>1, <1>2

\* One that ends takes nobody else out of the list, or that is remembered.
LEMMA EndKeepsWritten ==
  ASSUME ListInv, WrittenInv, NEW r \in Recs, RecEnds(r)
  PROVE  WrittenInv'
<1>1. /\ rec[r].phase = "counted" /\ rec'[r].phase = "gone" /\ UNCHANGED twice
      /\ \A s \in Recs \ {r} : rec'[s] = rec[s]
      /\ nodes' = Unlinked(r)
      /\ dropped' = (dropped \/ (r \in ToSet(nodes) /\ Head(nodes) # r))
  BY DEF RecEnds, ListInv, RecType, Moved
<1>2. \A s \in Recs : Writing(s)' => s # r /\ Writing(s)
  BY <1>1 DEF Writing
<1>3. ~dropped' => ToSet(nodes) \ {r} \subseteq ToSet(nodes')
  <2>1. CASE r \notin ToSet(nodes)
    BY <1>1, <2>1 DEF Unlinked
  <2>2. CASE r \in ToSet(nodes) /\ Head(nodes) = r
    <3>1. nodes \in Seq(Recs) /\ 1 \in DOMAIN nodes /\ nodes[1] = r
      BY <2>2 DEF ListInv, ToSet
    <3> DEFINE k == CHOOSE i \in DOMAIN nodes : nodes[i] = r
    <3>2. k = 1
      BY <3>1 DEF ListInv
    <3>5. nodes' = SubSeq(nodes, 1 + k, Len(nodes))
      BY <1>1, <2>2 DEF Unlinked
    <3> HIDE DEF k
    <3>3. nodes' = SubSeq(nodes, 2, Len(nodes))
      BY <3>2, <3>5
    <3>4. \A i \in DOMAIN nodes : i # 1 => i - 1 \in DOMAIN nodes' /\ nodes'[i - 1] = nodes[i]
      BY <3>1, <3>3
    <3> QED BY <3>1, <3>4 DEF ToSet
  <2> QED BY <1>1, <2>1, <2>2
<1>4. ~dropped' => \A s \in Recs : Writing(s)' => s \in ToSet(nodes')
  BY <1>1, <1>2, <1>3 DEF WrittenInv
<1>5. \A s \in Recs : rec'[s].phase = "asked" \/ Writing(s)' => rec'[s] = rec[s]
  BY <1>1, <1>2
<1>6. ASSUME ~dropped', ~twice', NEW s \in Recs, NEW u \in Recs, Writing(u)', ~rec'[u].auto
      PROVE  /\ rec'[s].phase = "asked" => rec'[s].file # rec'[u].file
             /\ Writing(s)' /\ s # u /\ ~rec'[s].auto => rec'[s].file # rec'[u].file
  <2>1. rec'[u] = rec[u] /\ Writing(u) /\ ~dropped /\ ~twice
    BY <1>1, <1>2, <1>5, <1>6
  <2>2. CASE rec'[s].phase = "asked"
    <3>1. rec'[s] = rec[s] /\ ~Writing(s)'
      BY <1>5, <2>2 DEF Writing
    <3> QED BY <1>6, <2>1, <2>2, <3>1 DEF WrittenInv
  <2>3. CASE Writing(s)' /\ s # u /\ ~rec'[s].auto
    <3>1. rec'[s] = rec[s] /\ Writing(s) /\ rec'[s].phase # "asked"
      BY <1>2, <1>5, <2>3 DEF Writing
    <3> QED BY <1>6, <2>1, <2>3, <3>1 DEF WrittenInv
  <2> QED BY <2>2, <2>3
<1> QED BY <1>4, <1>6 DEF WrittenInv

\* Every step keeps what is written apart.
LEMMA WrittenKept == ListInv /\ WrittenInv /\ RecNext => WrittenInv'
<1> SUFFICES ASSUME ListInv, WrittenInv, RecNext
             PROVE  WrittenInv'
  OBVIOUS
<1>t. RecType
  BY DEF ListInv
<1>1. ASSUME NEW p \in Persons, Joins(p) \/ Parts(p)
      PROVE  WrittenInv'
  BY <1>1, WrittenUntouched DEF Joins, Parts, Writing
<1>2. CASE conference_record_stop \/ RoomEnds \/ RoomGone
  <2>1. /\ UNCHANGED <<nodes, dropped, twice>>
        /\ \A s \in Recs : rec'[s].phase = rec[s].phase /\ rec'[s].auto = rec[s].auto
                             /\ rec'[s].file = rec[s].file
    BY <1>t, <1>2 DEF conference_record_stop, RoomEnds, RoomGone, RecType
  <2> QED BY <2>1, WrittenUntouched DEF Writing
<1>3. ASSUME NEW r \in Recs, AutoRecords(r) \/ WriteFails(r) \/ RecSteps(r)
      PROVE  WrittenInv'
  <2>1. CASE \/ WriteFails(r) \/ RecLocks(r) \/ Opens(r) \/ FailsToOpen(r) \/ LoopEnds(r)
             \/ RecMemberDel(r) \/ Uncounts(r)
    <3>1. /\ UNCHANGED <<nodes, dropped, twice>>
          /\ \A s \in Recs \ {r} : rec'[s] = rec[s]
          /\ rec'[r].file = rec[r].file /\ rec'[r].auto = rec[r].auto
          /\ rec'[r].phase # "asked"
          /\ Writing(r)' => Writing(r)
      BY <1>t, <2>1 DEF WriteFails, RecLocks, Opens, FailsToOpen, LoopEnds, RecMemberDel, Uncounts,
         RecType, Moved, Writing
    <3> QED BY <3>1, WrittenUntouched DEF Writing
  <2> QED
    BY <1>3, <2>1, AutoKeepsWritten, LaunchKeepsWritten, EndKeepsWritten DEF RecSteps
<1>4. ASSUME NEW r \in Recs, NEW f \in Files, AsksToRecord(r, f)
      PROVE  WrittenInv'
  BY <1>t, <1>4, AskKeepsWritten
<1> QED BY <1>1, <1>2, <1>3, <1>4 DEF RecNext

\* No file is written by two recordings that were asked for by command, but for
\* the two gaps of the code: the list is looked at long before it is entered, and
\* a recording that ends takes the newer ones out of it.
THEOREM FilesApart == RecSpec => []FileWrittenOnce
<1>1. RecInit => WrittenInv
  BY DEF RecInit, NewRec, WrittenInv, Writing
<1>2. ListInv /\ WrittenInv /\ [RecNext]_recvars => WrittenInv'
  <2>1. WrittenInv /\ UNCHANGED recvars => WrittenInv'
    BY DEF WrittenInv, Writing, recvars
  <2> QED BY <2>1, WrittenKept
<1>3. WrittenInv => FileWrittenOnce
  BY DEF WrittenInv, FileWrittenOnce, Writing, At
<1> QED BY <1>1, <1>2, <1>3, RecInvariant, PTL DEF RecSpec

-----------------------------------------------------------------------------
(***************************************************************************)
(* What is counted                                                         *)
(***************************************************************************)

RecMembers == {r \in Recs : rec[r].added /\ rec[r].phase \in {"running", "ending"}}
Tallied == At({"launched", "opening", "running", "ending", "deleted", "lost"})
\* One that could not be opened has been counted off as a member.
Miscounted == \E r \in At({"deleted", "counted", "gone"}) : ~rec[r].added

\* Members are listed once; the recordings among them are those that were added.
TreeInv ==
  /\ tree \in Seq(Persons \cup Recs)
  /\ \A i, j \in DOMAIN tree : tree[i] = tree[j] => i = j
  /\ ToSet(tree) \cap Recs = RecMembers
  /\ \A r \in Recs : rec[r].phase \in {"none", "asked", "launched", "opening"} => ~rec[r].added

MembersInv ==
  /\ counts.recording_members \in Int /\ IsFiniteSet(RecMembers)
  /\ Miscounted \/ counts.recording_members = Cardinality(RecMembers)

TallyInv ==
  /\ counts.record_count \in Int /\ IsFiniteSet(Tallied)
  /\ raced \/ undefined \/ counts.record_count = Cardinality(Tallied)

\* conference_member_del takes a member out of the list, once is enough.
LEMMA TakenOut ==
  ASSUME NEW S, NEW seq \in Seq(S), NEW e,
         \A i, j \in DOMAIN seq : seq[i] = seq[j] => i = j
  PROVE  LET rest == RemoveFirst(seq, e) IN
         /\ rest \in Seq(S)
         /\ \A i, j \in DOMAIN rest : rest[i] = rest[j] => i = j
         /\ ToSet(rest) = ToSet(seq) \ {e}
<1> DEFINE rest == RemoveFirst(seq, e)
<1>1. CASE \A i \in 1..Len(seq) : seq[i] # e
  <2>1. rest = seq
    BY <1>1 DEF RemoveFirst
  <2> QED BY <1>1, <2>1 DEF ToSet
<1>2. CASE \E i \in 1..Len(seq) : seq[i] = e
  <2>1. PICK k \in 1..Len(seq) : seq[k] = e
    BY <1>2
  <2>2. {i \in 1..Len(seq) : seq[i] = e} = {k}
    BY <2>1
  <2>3. Min({k}) = k
    BY DEF Min
  <2>4. SelectInSeq(seq, LAMBDA v : v = e) = k
    BY <2>2, <2>3 DEF SelectInSeq
  <2>5. rest = SubSeq(seq, 1, k - 1) \o SubSeq(seq, k + 1, Len(seq))
    BY <1>2, <2>4 DEF RemoveFirst, RemoveAt
  <2> HIDE DEF rest
  <2> DEFINE left == SubSeq(seq, 1, k - 1)  right == SubSeq(seq, k + 1, Len(seq))
  <2>6. /\ left \in Seq(S) /\ Len(left) = k - 1 /\ \A i \in 1..(k - 1) : left[i] = seq[i]
        /\ right \in Seq(S) /\ Len(right) = Len(seq) - k
        /\ \A i \in 1..(Len(seq) - k) : right[i] = seq[k + i]
        /\ k - 1 \in Nat /\ Len(seq) - k \in Nat /\ k \in Nat
    <3>1. k \in 1..Len(seq) /\ Len(seq) \in Nat /\ DOMAIN seq = 1..Len(seq)
      OBVIOUS
    <3>2. /\ k - 1 \in Int /\ k + 1 \in Int /\ Len(seq) \in Int
          /\ \A i \in 1..(k - 1) : seq[i] \in S
          /\ \A i \in (k + 1)..Len(seq) : seq[i] \in S
      BY <3>1
    <3>3. /\ left \in Seq(S) /\ Len(left) = IF 1 <= k - 1 THEN k - 1 - 1 + 1 ELSE 0
          /\ \A i \in 1..(k - 1 - 1 + 1) : left[i] = seq[1 + i - 1]
      BY <3>2, SubSeqProperties
    <3>4. /\ right \in Seq(S)
          /\ Len(right) = IF k + 1 <= Len(seq) THEN Len(seq) - (k + 1) + 1 ELSE 0
          /\ \A i \in 1..(Len(seq) - (k + 1) + 1) : right[i] = seq[k + 1 + i - 1]
      BY <3>2, SubSeqProperties
    <3> HIDE DEF left, right
    <3>5. \A i \in 1..(k - 1) : left[i] = seq[i]
      BY <3>1, <3>3
    <3>6. ASSUME NEW i \in 1..(Len(seq) - k)
          PROVE  right[i] = seq[k + i]
      <4>1. i \in 1..(Len(seq) - (k + 1) + 1) /\ k + 1 + i - 1 = k + i
        BY <3>1
      <4> QED BY <3>4, <4>1
    <3>7. Len(left) = k - 1
      BY <3>1, <3>3
    <3>8. Len(right) = Len(seq) - k
      <4> DEFINE n == Len(seq)
      <4>3. n \in Nat /\ k \in Int /\ k <= n
        BY <3>1
      <4> HIDE DEF n
      <4>4. k + 1 <= n \/ (~(k + 1 <= n) /\ n - k = 0)
        BY <4>3
      <4>1. k + 1 <= Len(seq) \/ (~(k + 1 <= Len(seq)) /\ Len(seq) - k = 0)
        BY <4>4 DEF n
      <4>2. Len(seq) - (k + 1) + 1 = Len(seq) - k
        BY <3>1
      <4> QED BY <3>4, <4>1, <4>2
    <3>9. k - 1 \in Nat /\ Len(seq) - k \in Nat /\ k \in Nat
      BY <3>1
    <3> QED BY <3>3, <3>4, <3>5, <3>6, <3>7, <3>8, <3>9
  <2>13. rest = left \o right
    BY <2>5
  <2> HIDE DEF left, right
  <2>7. rest \in Seq(S) /\ Len(rest) = Len(seq) - 1
    BY <2>6, <2>13
  <2>8. \A i \in DOMAIN rest : rest[i] = IF i < k THEN seq[i] ELSE seq[i + 1]
    <3> SUFFICES ASSUME NEW i \in DOMAIN rest
                 PROVE  rest[i] = IF i < k THEN seq[i] ELSE seq[i + 1]
      OBVIOUS
    <3>1. i \in 1..(Len(seq) - 1) /\ i \in Nat
      BY <2>7
    <3>2. rest[i] = IF i <= Len(left) THEN left[i] ELSE right[i - Len(left)]
      BY <2>6, <2>7, <2>13, <3>1
    <3>3. CASE i < k
      BY <2>6, <3>1, <3>2, <3>3
    <3>4. CASE ~(i < k)
      <4>1. i - (k - 1) \in 1..(Len(seq) - k) /\ k + (i - (k - 1)) = i + 1 /\ ~(i <= k - 1)
        BY <2>6, <3>1, <3>4
      <4> QED BY <2>6, <3>2, <3>4, <4>1
    <3> QED BY <3>3, <3>4
  <2>9. \A i \in DOMAIN rest : \E n \in DOMAIN seq : /\ rest[i] = seq[n] /\ n # k
                                                     /\ i = IF n < k THEN n ELSE n - 1
    <3> SUFFICES ASSUME NEW i \in DOMAIN rest
                 PROVE  \E n \in DOMAIN seq : /\ rest[i] = seq[n] /\ n # k
                                             /\ i = IF n < k THEN n ELSE n - 1
      OBVIOUS
    <3>1. i \in 1..(Len(seq) - 1) /\ i \in Nat /\ DOMAIN seq = 1..Len(seq)
      BY <2>7
    <3>2. CASE i < k
      <4>1. i \in DOMAIN seq /\ i # k
        BY <2>6, <3>1, <3>2
      <4> QED BY <2>8, <3>2, <4>1
    <3>3. CASE ~(i < k)
      <4>1. i + 1 \in DOMAIN seq /\ i + 1 # k /\ ~(i + 1 < k) /\ i = (i + 1) - 1
        BY <2>6, <3>1, <3>3
      <4>2. rest[i] = seq[i + 1]
        BY <2>8, <3>3
      <4>3. i = IF i + 1 < k THEN i + 1 ELSE (i + 1) - 1
        BY <4>1
      <4> QED BY <4>1, <4>2, <4>3
    <3> QED BY <3>2, <3>3
  <2>10. \A i, j \in DOMAIN rest : rest[i] = rest[j] => i = j
    BY <2>9
  <2>11. \A n \in DOMAIN seq : n # k => \E i \in DOMAIN rest : rest[i] = seq[n]
    <3> SUFFICES ASSUME NEW n \in DOMAIN seq, n # k
                 PROVE  \E i \in DOMAIN rest : rest[i] = seq[n]
      OBVIOUS
    <3>1. CASE n < k
      BY <2>1, <2>7, <2>8, <3>1
    <3>2. CASE n > k
      <4>1. n - 1 \in DOMAIN rest /\ ~(n - 1 < k)
        BY <2>1, <2>7, <3>2
      <4>2. rest[n - 1] = seq[n]
        BY <2>8, <4>1
      <4> QED BY <4>1, <4>2
    <3> QED BY <2>1, <3>1, <3>2
  <2>12. ToSet(rest) = ToSet(seq) \ {e}
    BY <2>1, <2>9, <2>11 DEF ToSet
  <2> QED BY <2>7, <2>10, <2>12 DEF rest
<1> QED BY <1>1, <1>2

\* A member that is added comes first.
LEMMA PutFirst ==
  ASSUME NEW S, NEW seq \in Seq(S), NEW e \in S, e \notin ToSet(seq),
         \A i, j \in DOMAIN seq : seq[i] = seq[j] => i = j
  PROVE  LET longer == <<e>> \o seq IN
         /\ longer \in Seq(S)
         /\ \A i, j \in DOMAIN longer : longer[i] = longer[j] => i = j
         /\ ToSet(longer) = ToSet(seq) \cup {e}
<1> DEFINE longer == <<e>> \o seq
<1>1. longer \in Seq(S) /\ Len(longer) = Len(seq) + 1
  OBVIOUS
<1>2. \A i \in DOMAIN longer : longer[i] = IF i = 1 THEN e ELSE seq[i - 1]
  OBVIOUS
<1> HIDE DEF longer
<1>3. /\ DOMAIN longer = 1..(Len(seq) + 1) /\ Len(seq) \in Nat
      /\ \A i \in DOMAIN longer : i \in Nat /\ (i # 1 => i - 1 \in DOMAIN seq /\ longer[i] = seq[i - 1])
  BY <1>1, <1>2
<1>4. \A i \in DOMAIN seq : i + 1 \in DOMAIN longer /\ i + 1 # 1 /\ longer[i + 1] = seq[i] /\ seq[i] # e
  BY <1>1, <1>2 DEF ToSet
<1>5. longer[1] = e /\ 1 \in DOMAIN longer
  BY <1>2, <1>3
<1>6. ToSet(longer) = ToSet(seq) \cup {e}
  <2>1. ToSet(longer) \subseteq ToSet(seq) \cup {e}
    BY <1>3, <1>5 DEF ToSet
  <2>2. ToSet(seq) \subseteq ToSet(longer) /\ e \in ToSet(longer)
    BY <1>4, <1>5 DEF ToSet
  <2> QED BY <2>1, <2>2
<1>7. ASSUME NEW i \in DOMAIN longer, NEW j \in DOMAIN longer, longer[i] = longer[j]
      PROVE  i = j
  <2>1. CASE i = 1 \/ j = 1
    BY <1>3, <1>4, <1>5, <1>7, <2>1
  <2>2. CASE i # 1 /\ j # 1
    <3>1. i - 1 = j - 1
      BY <1>3, <1>7, <2>2
    <3> QED BY <1>3, <3>1
  <2> QED BY <2>1, <2>2
<1> QED BY <1>1, <1>6, <1>7 DEF longer

-----------------------------------------------------------------------------
\* Steps that neither add nor take out a recording.
LEMMA MembersSame ==
  ASSUME TreeInv, MembersInv, UNCHANGED tree, counts'.recording_members = counts.recording_members,
         \A s \in Recs : /\ rec'[s].added = rec[s].added
                         /\ s \in RecMembers' <=> s \in RecMembers
                         /\ rec'[s].phase \in {"none", "asked", "launched", "opening"} => ~rec[s].added
                         /\ rec[s].phase \in {"deleted", "counted", "gone"}
                              => rec'[s].phase \in {"deleted", "counted", "gone"}
  PROVE  TreeInv' /\ MembersInv'
<1>1. RecMembers' = RecMembers
  BY DEF RecMembers
<1>2. Miscounted => Miscounted'
  BY DEF Miscounted, At
<1> QED BY <1>1, <1>2 DEF TreeInv, MembersInv

\* People come and go.
LEMMA PeopleKeepMembers ==
  ASSUME TreeInv, MembersInv, NEW p \in Persons, Joins(p) \/ Parts(p)
  PROVE  TreeInv' /\ MembersInv'
<1>1. UNCHANGED <<rec, counts>> /\ p \notin Recs
  BY RecordingAssumption DEF Joins, Parts
<1>2. MembersInv' /\ UNCHANGED RecMembers
  BY <1>1 DEF MembersInv, Miscounted, At, RecMembers
<1>3. /\ tree' \in Seq(Persons \cup Recs)
      /\ \A i, j \in DOMAIN tree' : tree'[i] = tree'[j] => i = j
      /\ ToSet(tree') \in {ToSet(tree) \cup {p}, ToSet(tree) \ {p}}
  <2>1. CASE Joins(p)
    <3>1. tree' = <<p>> \o tree /\ p \notin ToSet(tree)
      BY <2>1 DEF Joins
    <3> QED BY <3>1, PutFirst DEF TreeInv
  <2>2. CASE Parts(p)
    <3>1. tree' = RemoveFirst(tree, p)
      BY <2>2 DEF Parts, Without
    <3> QED BY <3>1, TakenOut DEF TreeInv
  <2> QED BY <2>1, <2>2
<1> QED BY <1>1, <1>2, <1>3 DEF TreeInv

\* A recording is added and counted,
LEMMA OpenKeepsMembers ==
  ASSUME RecType, TreeInv, MembersInv, "recording_members" \in DOMAIN counts, NEW r \in Recs, Opens(r)
  PROVE  TreeInv' /\ MembersInv'
<1>1. /\ rec[r].phase = "opening" /\ rec'[r].phase = "running" /\ rec'[r].added
      /\ \A s \in Recs \ {r} : rec'[s] = rec[s]
      /\ tree' = <<r>> \o tree
      /\ counts'.recording_members = counts.recording_members + 1
  BY DEF Opens, RecType
<1>2. r \notin RecMembers /\ RecMembers' = RecMembers \cup {r}
  BY <1>1 DEF RecMembers
<1>3. /\ tree' \in Seq(Persons \cup Recs)
      /\ \A i, j \in DOMAIN tree' : tree'[i] = tree'[j] => i = j
      /\ ToSet(tree') = ToSet(tree) \cup {r}
  BY <1>1, <1>2, PutFirst DEF TreeInv
<1>4. TreeInv'
  BY <1>1, <1>2, <1>3 DEF TreeInv
<1>5. IsFiniteSet(RecMembers') /\ Cardinality(RecMembers') = Cardinality(RecMembers) + 1
  BY <1>2, FS_AddElement DEF MembersInv
<1>6. Miscounted => Miscounted'
  BY <1>1 DEF Miscounted, At
<1>7. MembersInv'
  BY <1>1, <1>5, <1>6 DEF MembersInv
<1> QED BY <1>4, <1>7

\* and taken out and counted off, even if it was not added, which tells then.
LEMMA DelKeepsMembers ==
  ASSUME RecType, TreeInv, MembersInv, "recording_members" \in DOMAIN counts,
         NEW r \in Recs, RecMemberDel(r)
  PROVE  TreeInv' /\ MembersInv'
<1>1. /\ rec[r].phase = "ending" /\ rec'[r].phase = "deleted" /\ rec'[r].added = rec[r].added
      /\ \A s \in Recs \ {r} : rec'[s] = rec[s]
      /\ tree' = RemoveFirst(tree, r)
      /\ counts'.recording_members = counts.recording_members - 1
  BY DEF RecMemberDel, RecType, Moved, Without
<1>2. RecMembers' = RecMembers \ {r} /\ (rec[r].added => r \in RecMembers)
  BY <1>1 DEF RecMembers
<1>3. /\ tree' \in Seq(Persons \cup Recs)
      /\ \A i, j \in DOMAIN tree' : tree'[i] = tree'[j] => i = j
      /\ ToSet(tree') = ToSet(tree) \ {r}
  BY <1>1, TakenOut DEF TreeInv
<1>4. TreeInv'
  BY <1>1, <1>2, <1>3 DEF TreeInv
<1>5. IsFiniteSet(RecMembers') /\ (rec[r].added => Cardinality(RecMembers') = Cardinality(RecMembers) - 1)
  BY <1>2, FS_RemoveElement, FS_Subset DEF MembersInv
<1>6. (Miscounted => Miscounted') /\ (~rec[r].added => Miscounted')
  BY <1>1 DEF Miscounted, At
<1>7. MembersInv'
  BY <1>1, <1>5, <1>6 DEF MembersInv
<1> QED BY <1>4, <1>7

\* Every step keeps the list of the members and the count of the recordings in it.
LEMMA MembersKept ==
  ASSUME RecType, AutoInv, TreeInv, MembersInv, RecNext
  PROVE  TreeInv' /\ MembersInv'
<1>d. DOMAIN counts = {"record_count", "recording_members", "auto_recording"}
  BY DEF AutoInv
<1>1. ASSUME NEW p \in Persons, Joins(p) \/ Parts(p)
      PROVE  TreeInv' /\ MembersInv'
  BY <1>1, PeopleKeepMembers
<1>2. CASE conference_record_stop \/ RoomEnds \/ RoomGone
  <2>1. /\ UNCHANGED <<tree, counts>>
        /\ \A s \in Recs : rec'[s].phase = rec[s].phase /\ rec'[s].added = rec[s].added
    BY <1>2 DEF conference_record_stop, RoomEnds, RoomGone, RecType
  <2>2. \A s \in Recs : s \in RecMembers' <=> s \in RecMembers
    BY <2>1 DEF RecMembers
  <2>3. \A s \in Recs : rec'[s].phase \in {"none", "asked", "launched", "opening"} => ~rec[s].added
    BY <2>1 DEF TreeInv
  <2> QED BY <2>1, <2>2, <2>3, MembersSame
<1>3. ASSUME NEW r \in Recs, \/ AutoRecords(r) \/ WriteFails(r) \/ RecSteps(r)
                             \/ \E f \in Files : AsksToRecord(r, f)
      PROVE  TreeInv' /\ MembersInv'
  <2>1. CASE Opens(r) \/ RecMemberDel(r)
    BY <1>d, <2>1, OpenKeepsMembers, DelKeepsMembers
  <2>2. CASE \/ AutoRecords(r) \/ WriteFails(r) \/ conference_api_sub_record(r)
             \/ RecLocks(r) \/ FailsToOpen(r) \/ LoopEnds(r) \/ Uncounts(r) \/ RecEnds(r)
             \/ \E f \in Files : AsksToRecord(r, f)
    <3>1. UNCHANGED tree /\ counts'.recording_members = counts.recording_members
      BY <1>d, <2>2 DEF AutoRecords, WriteFails, conference_api_sub_record, RecLocks, FailsToOpen,
         LoopEnds, Uncounts, RecEnds, AsksToRecord, Counted
    <3>2. /\ \A s \in Recs \ {r} : rec'[s] = rec[s]
          /\ rec'[r].added = rec[r].added
          /\ \/ rec'[r].phase = rec[r].phase
             \/ /\ rec[r].phase \in {"none", "asked", "launched", "opening"}
                /\ rec'[r].phase \in {"asked", "launched", "opening", "lost", "ending"}
             \/ rec[r].phase = "running" /\ rec'[r].phase = "ending"
             \/ rec[r].phase \in {"deleted", "counted"} /\ rec'[r].phase \in {"counted", "gone"}
      BY <2>2 DEF AutoRecords, WriteFails, conference_api_sub_record, RecLocks, FailsToOpen,
         LoopEnds, Uncounts, RecEnds, AsksToRecord, IsNext, At, Moved, RecType
    <3>3. \A s \in Recs : s \in RecMembers' <=> s \in RecMembers
      BY <3>2 DEF RecMembers, TreeInv
    <3>4. \A s \in Recs : rec'[s].phase \in {"none", "asked", "launched", "opening"} => ~rec[s].added
      BY <3>2 DEF TreeInv
    <3>5. \A s \in Recs : rec[s].phase \in {"deleted", "counted", "gone"}
                            => rec'[s].phase \in {"deleted", "counted", "gone"}
      BY <3>2
    <3> QED BY <3>1, <3>2, <3>3, <3>4, <3>5, MembersSame
  <2> QED BY <1>3, <2>1, <2>2 DEF RecSteps
<1> QED BY <1>1, <1>2, <1>3 DEF RecNext

-----------------------------------------------------------------------------
\* record_count goes up by one with a recording, and down by one.
LEMMA CountGoesUp ==
  ASSUME TallyInv, "record_count" \in DOMAIN counts, NEW r \in Recs, NEW c,
         DOMAIN c = DOMAIN counts, c.record_count = counts.record_count, Counted(r, 1, c),
         rec[r].phase \in {"none", "asked"},
         \/ Tallied' = Tallied \cup {r} /\ UNCHANGED undefined
         \/ undefined' /\ UNCHANGED rec
  PROVE  TallyInv'
<1>1. counts'.record_count = IF raced' THEN 0 ELSE counts.record_count + 1
  BY DEF Counted
<1>2. raced => raced'
  BY DEF Counted
<1>3. CASE Tallied' = Tallied \cup {r} /\ UNCHANGED undefined
  <2>1. r \notin Tallied
    BY DEF Tallied, At
  <2>2. IsFiniteSet(Tallied') /\ Cardinality(Tallied') = Cardinality(Tallied) + 1
    BY <1>3, <2>1, FS_AddElement DEF TallyInv
  <2> QED BY <1>1, <1>2, <1>3, <2>2 DEF TallyInv
<1>4. CASE undefined' /\ UNCHANGED rec
  BY <1>1, <1>4 DEF TallyInv, Tallied, At
<1> QED BY <1>3, <1>4

\* A recording that is over is counted off.
LEMMA CountGoesDown ==
  ASSUME RecType, TallyInv, "record_count" \in DOMAIN counts, NEW r \in Recs, Uncounts(r)
  PROVE  TallyInv'
<1>1. /\ rec[r].phase = "deleted" /\ rec'[r].phase = "counted"
      /\ \A s \in Recs \ {r} : rec'[s] = rec[s]
      /\ UNCHANGED undefined
      /\ counts'.record_count = IF raced' THEN 0 ELSE counts.record_count + (-1)
      /\ raced => raced'
  BY DEF Uncounts, Counted, RecType, Moved
<1>2. r \in Tallied /\ Tallied' = Tallied \ {r}
  BY <1>1 DEF Tallied, At
<1>3. IsFiniteSet(Tallied') /\ Cardinality(Tallied') = Cardinality(Tallied) - 1
  BY <1>2, FS_RemoveElement DEF TallyInv
<1>4. Cardinality(Tallied) \in Nat
  BY FS_CardinalityType DEF TallyInv
<1> QED BY <1>1, <1>3, <1>4 DEF TallyInv

\* Every step keeps the count of the recordings.
LEMMA TallyKept ==
  ASSUME RecType, AutoInv, TallyInv, RecNext
  PROVE  TallyInv'
<1>d. DOMAIN counts = {"record_count", "recording_members", "auto_recording"}
  BY DEF AutoInv
<1>1. ASSUME counts'.record_count = counts.record_count, Tallied' = Tallied,
             raced => raced', undefined => undefined'
      PROVE  TallyInv'
  BY <1>1 DEF TallyInv
<1>2. ASSUME NEW p \in Persons, Joins(p) \/ Parts(p)
      PROVE  TallyInv'
  BY <1>1, <1>2 DEF Joins, Parts, Tallied, At
<1>3. CASE conference_record_stop \/ RoomEnds \/ RoomGone
  <2>1. UNCHANGED <<counts, raced, undefined>> /\ \A s \in Recs : rec'[s].phase = rec[s].phase
    BY <1>3 DEF conference_record_stop, RoomEnds, RoomGone, RecType
  <2>2. Tallied' = Tallied
    BY <2>1 DEF Tallied, At
  <2> QED BY <1>1, <2>1, <2>2
<1>4. ASSUME NEW r \in Recs, \/ WriteFails(r) \/ RecLocks(r) \/ Opens(r) \/ FailsToOpen(r)
                             \/ LoopEnds(r) \/ RecMemberDel(r) \/ RecEnds(r)
                             \/ \E f \in Files : AsksToRecord(r, f)
      PROVE  TallyInv'
  <2>1. counts'.record_count = counts.record_count /\ UNCHANGED raced /\ (undefined => undefined')
    BY <1>d, <1>4 DEF WriteFails, RecLocks, Opens, FailsToOpen, LoopEnds, RecMemberDel, RecEnds,
       AsksToRecord, RecNext
  <2>2. /\ \A s \in Recs \ {r} : rec'[s] = rec[s]
        /\ \/ rec'[r].phase = rec[r].phase
           \/ /\ rec[r].phase \in {"launched", "opening", "running", "ending"}
              /\ rec'[r].phase \in {"opening", "lost", "running", "ending", "deleted"}
           \/ rec[r].phase \in {"none", "counted"} /\ rec'[r].phase \in {"asked", "gone"}
    BY <1>4 DEF WriteFails, RecLocks, Opens, FailsToOpen, LoopEnds, RecMemberDel, RecEnds,
       AsksToRecord, IsNext, At, Moved, RecType
  <2>3. Tallied' = Tallied
    BY <2>2 DEF Tallied, At
  <2> QED BY <1>1, <2>1, <2>3
<1>5. ASSUME NEW r \in Recs, conference_api_sub_record(r)
      PROVE  TallyInv'
  <2>1. /\ Counted(r, 1, counts) /\ rec[r].phase = "asked" /\ rec'[r].phase = "launched"
        /\ \A s \in Recs \ {r} : rec'[s] = rec[s]
        /\ UNCHANGED undefined
    BY <1>5 DEF conference_api_sub_record, Moved, RecType
  <2>2. Tallied' = Tallied \cup {r}
    BY <2>1 DEF Tallied, At
  <2> QED BY <1>d, <2>1, <2>2, CountGoesUp
<1>6. ASSUME NEW r \in Recs, AutoRecords(r)
      PROVE  TallyInv'
  <2> DEFINE c == [counts EXCEPT !.auto_recording = @ + 1]
  <2>1. /\ Counted(r, 1, c) /\ rec[r].phase = "none"
        /\ \/ undefined' /\ UNCHANGED rec
           \/ /\ UNCHANGED undefined /\ rec'[r].phase = "launched"
              /\ \A s \in Recs \ {r} : rec'[s] = rec[s]
    BY <1>6 DEF AutoRecords, IsNext, At, RecType
  <2>2. DOMAIN c = DOMAIN counts /\ c.record_count = counts.record_count
    BY <1>d
  <2> HIDE DEF c
  <2>3. \/ Tallied' = Tallied \cup {r} /\ UNCHANGED undefined
        \/ undefined' /\ UNCHANGED rec
    BY <2>1 DEF Tallied, At
  <2> QED BY <1>d, <2>1, <2>2, <2>3, CountGoesUp
<1>7. ASSUME NEW r \in Recs, Uncounts(r)
      PROVE  TallyInv'
  BY <1>d, <1>7, CountGoesDown
<1> QED BY <1>2, <1>3, <1>4, <1>5, <1>6, <1>7 DEF RecNext, RecSteps

\* What both counts rest on.
CountInv == TreeInv /\ MembersInv /\ TallyInv

\* Nothing is counted at first.
LEMMA CountInvInit == RecInit => CountInv
<1> SUFFICES ASSUME RecInit PROVE CountInv
  OBVIOUS
<1>1. RecMembers = {} /\ Tallied = {}
  BY DEF RecInit, NewRec, RecMembers, Tallied, At
<1>2. TreeInv
  BY <1>1 DEF RecInit, NewRec, TreeInv, ToSet
<1> QED BY <1>1, <1>2, FS_EmptySet DEF RecInit, CountInv, MembersInv, TallyInv

\* Every step keeps the counts.
LEMMA CountInvKept == ListInv /\ AutoInv /\ CountInv /\ [RecNext]_recvars => CountInv'
<1>1. CountInv /\ UNCHANGED recvars => CountInv'
  BY DEF recvars, CountInv, TreeInv, MembersInv, TallyInv, RecMembers, Tallied, Miscounted, At
<1> QED BY <1>1, MembersKept, TallyKept DEF ListInv, CountInv

\* Both counts tell what is recorded, but for a recording that could not be
\* opened and is counted off all the same, and for updates that overlap.
THEOREM CountsTell == RecSpec => []RecordingsAreCounted
<1>1. CountInv => RecordingsAreCounted
  <2> SUFFICES ASSUME CountInv PROVE RecordingsAreCounted
    OBVIOUS
  <2>1. CountTells
    BY DEF CountInv, TallyInv, Tallied, CountTells
  <2>2. RecMembers # {} => Cardinality(RecMembers) > 0
    BY FS_EmptySet, FS_CardinalityType DEF CountInv, MembersInv
  <2>3. MembersTell
    BY <2>2 DEF CountInv, TreeInv, MembersInv, MembersTell, Miscounted
  <2> QED BY <2>1, <2>3 DEF RecordingsAreCounted
<1> QED BY <1>1, CountInvInit, CountInvKept, RecInvariant, PTL DEF RecSpec

-----------------------------------------------------------------------------
(***************************************************************************)
(* The floor by sight                                                      *)
(***************************************************************************)

Holders == FloorMembers \cup {Nobody}
VidType == [holder : Holders, last : Holders, locked : BOOLEAN]

\* What the video floor rests on: only members are picked, and members are those
\* who have come and are not yet taken out of the list.
VidInv ==
  /\ vid \in VidType
  /\ pass \in [on : BOOLEAN, todo : Seq(FloorMembers), copy : Holders, gave : BOOLEAN]
  /\ stale \in BOOLEAN
  /\ members \in Seq(FloorMembers)
  /\ \A i, j \in DOMAIN members : members[i] = members[j] => i = j
  /\ ToSet(members) = {m \in FloorMembers : phase[m] \in {"in", "deleting"}}
  /\ \A m \in FloorMembers : /\ api[m].pick \in Holders
                             /\ api[m].pick # Nobody => phase[api[m].pick] # "new"
  /\ VideoFloorThere

\* The first of some numbers.
LEMMA Least ==
  ASSUME NEW S, S \subseteq Nat, S # {}
  PROVE  Min(S) \in S /\ \A y \in S : Min(S) =< y
<1>1. PICK x \in S : \A y \in S : ~(<<y, x>> \in OpToRel(<, Nat))
  BY NatLessThanWellFounded, WFMin
<1>2. ASSUME NEW y \in S
      PROVE  x =< y
  <2>1. y < x => <<y, x>> \in OpToRel(<, Nat)
    BY DEF OpToRel
  <2>2. ~(y < x)
    BY <1>1, <2>1
  <2> QED BY <2>2
<1> QED BY <1>2 DEF Min

\* The floor that is given goes to the member, or stays.
LEMMA GivenTo ==
  ASSUME NEW v \in VidType, NEW m \in FloorMembers, NEW force
  PROVE  Given(v, m, force) \in VidType /\ Given(v, m, force).holder \in {v.holder, m}
BY DEF Given, VidType, Holders

\* Who is picked is a member, and not the one it is taken from.
LEMMA PickedIsMember ==
  ASSUME VidInv, NEW v
  PROVE  Pick(v) = Nobody \/ (Pick(v) \in ToSet(members) /\ Pick(v) # v.holder)
<1> DEFINE seen == {k \in DOMAIN members : members[k] # v.holder /\ members[k] \in video}
<1>1. seen \subseteq Nat
  BY DEF VidInv
<1>2. CASE seen = {}
  BY <1>2 DEF Pick
<1>3. CASE seen # {}
  <2>1. Min(seen) \in seen
    BY <1>1, <1>3, Least
  <2>2. Pick(v) = members[Min(seen)]
    BY <1>3 DEF Pick
  <2> QED BY <2>1, <2>2 DEF ToSet
<1> QED BY <1>2, <1>3

\* A floor that is released does not stay with the one who releases it.
LEMMA ReleasedBy ==
  ASSUME VidInv, NEW v \in VidType, NEW m \in FloorMembers
  PROVE  /\ Released(v, m) \in VidType
         /\ Released(v, m).holder \in {v.holder, Nobody} \cup ToSet(members)
         /\ Released(v, m).holder # m
<1>1. ToSet(members) \subseteq FloorMembers
  BY DEF VidInv
<1>2. Pick(v) = Nobody \/ (Pick(v) \in ToSet(members) /\ Pick(v) # v.holder)
  BY PickedIsMember
<1>3. Pick(v) \in Holders
  BY <1>1, <1>2 DEF Holders
<1> USE NobodyIsNobody DEF VidType, Holders
<1>4. CASE m = v.holder
  <2>1. Released(v, m) = [v EXCEPT !.holder = Pick(v), !.locked = FALSE]
    BY <1>4 DEF Released
  <2>2. Released(v, m).holder = Pick(v) /\ Released(v, m) \in VidType
    BY <1>3, <2>1
  <2> QED BY <1>2, <1>4, <2>2
<1>5. CASE m # v.holder
  BY <1>5 DEF Released
<1> QED BY <1>4, <1>5

\* One turn of the loop leaves the floor where it is or gives it to the member seen.
LEMMA LookAt ==
  ASSUME NEW w \in VidType, NEW i \in FloorMembers, NEW seers, NEW m, NEW entering
  PROVE  /\ Look(w, i, seers, m, entering) \in VidType
         /\ Look(w, i, seers, m, entering).holder \in {w.holder, i}
<1>1. Given(w, i, FALSE) \in VidType /\ Given(w, i, FALSE).holder \in {w.holder, i}
  BY GivenTo
<1>2. [w EXCEPT !.last = i] \in VidType /\ [w EXCEPT !.last = i].holder = w.holder
  BY DEF VidType, Holders
<1> QED BY <1>1, <1>2 DEF Look

\* What the loop has made of v after each of n turns.
Turns(after, n, list, v, seers, m, entering) ==
  after = [k \in 0..n |-> IF k = 0 THEN v ELSE Look(after[k - 1], list[k], seers, m, entering)]

\* The loop can be followed for any number of turns.
LEMMA LoopRuns ==
  ASSUME NEW list, NEW v, NEW seers, NEW m, NEW entering, NEW last \in Nat
  PROVE  \E after : Turns(after, last, list, v, seers, m, entering)
<1> DEFINE T(after, n) == Turns(after, n, list, v, seers, m, entering)
           bad == {n \in Nat : ~\E after : T(after, n)}
<1>1. CASE bad = {}
  BY <1>1
<1>2. CASE bad # {}
  <2> DEFINE n == Min(bad)
  <2>1. n \in bad /\ \A y \in bad : n =< y
    <3>1. bad \subseteq Nat
      OBVIOUS
    <3> HIDE DEF bad
    <3> QED BY <1>2, <3>1, Least
  <2> HIDE DEF n
  <2>2. n \in Nat
    BY <2>1
  <2>3. CASE n = 0
    <3> DEFINE f == [k \in 0..0 |-> v]
    <3>1. T(f, 0)
      BY DEF Turns
    <3> QED BY <2>1, <2>3, <3>1
  <2>4. CASE n # 0
    <3>1. n - 1 \in Nat /\ ~(n =< n - 1)
      BY <2>2, <2>4
    <3>0. n - 1 \notin bad
      <4> HIDE DEF bad
      <4> QED BY <2>1, <3>1
    <3>2. PICK g : T(g, n - 1)
      BY <3>0, <3>1
    <3> DEFINE next == Look(g[n - 1], list[n], seers, m, entering)
               f == [k \in 0..n |-> IF k = n THEN next ELSE g[k]]
    <3>6. \A k \in 0..n : k # n => k \in 0..(n - 1)
      BY <2>2
    <3>7. ASSUME NEW k \in 0..n
          PROVE  f[k] = IF k = 0 THEN v ELSE Look(f[k - 1], list[k], seers, m, entering)
      <4>1. CASE k = n
        <5>1. f[k] = next /\ k # 0 /\ k - 1 \in 0..n /\ k - 1 # n /\ f[k - 1] = g[k - 1]
          BY <2>2, <2>4, <4>1
        <5> QED BY <4>1, <5>1
      <4>2. CASE k # n
        <5>1. g[k] = IF k = 0 THEN v ELSE Look(g[k - 1], list[k], seers, m, entering)
          BY <3>2, <3>6, <4>2 DEF Turns
        <5>2. f[k] = g[k]
          BY <4>2
        <5>3. k # 0 => f[k - 1] = g[k - 1]
          BY <2>2, <4>2
        <5> QED BY <5>1, <5>2, <5>3
      <4> QED BY <4>1, <4>2
    <3>9. T(f, n)
      <4> DEFINE h == [k \in 0..n |-> IF k = 0 THEN v ELSE Look(f[k - 1], list[k], seers, m, entering)]
      <4>1. f = [k \in 0..n |-> f[k]]
        OBVIOUS
      <4> HIDE DEF f
      <4>2. f = h
        BY <3>7, <4>1
      <4> QED BY <4>2 DEF Turns
    <3> HIDE DEF f
    <3> QED BY <2>1, <3>9
  <2> QED BY <2>3, <2>4
<1> QED BY <1>1, <1>2

\* No turn gives the floor to anybody but one of the list.
LEMMA TurnsFine ==
  ASSUME NEW list \in Seq(FloorMembers), NEW v \in VidType, NEW seers, NEW m, NEW entering,
         NEW after, Turns(after, Len(list), list, v, seers, m, entering)
  PROVE  \A k \in 0..Len(list) : /\ after[k] \in VidType
                                 /\ after[k].holder \in {v.holder} \cup ToSet(list)
<1> DEFINE Fine(k) == after[k] \in VidType /\ after[k].holder \in {v.holder} \cup ToSet(list)
           bad == {k \in 0..Len(list) : ~Fine(k)}
<1>1. SUFFICES ASSUME bad # {}
               PROVE  FALSE
  OBVIOUS
<1> DEFINE k == Min(bad)
<1>2. k \in bad /\ \A y \in bad : k =< y
  <2>1. bad \subseteq Nat
    OBVIOUS
  <2> HIDE DEF bad
  <2> QED BY <1>1, <2>1, Least
<1> HIDE DEF k
<1>3. k \in 0..Len(list) /\ k \in Nat /\ Len(list) \in Nat
  BY <1>2
<1>4. after[k] = IF k = 0 THEN v ELSE Look(after[k - 1], list[k], seers, m, entering)
  BY <1>3 DEF Turns
<1>5. CASE k = 0
  BY <1>2, <1>4, <1>5
<1>6. CASE k # 0
  <2>1. k - 1 \in 0..Len(list) /\ ~(k =< k - 1)
    BY <1>3, <1>6
  <2>2. k - 1 \notin bad
    <3> HIDE DEF bad
    <3> QED BY <1>2, <2>1
  <2>3. Fine(k - 1)
    BY <2>1, <2>2
  <2>4. list[k] \in FloorMembers /\ list[k] \in ToSet(list)
    BY <1>3, <1>6 DEF ToSet
  <2>5. Fine(k)
    <3> DEFINE w == after[k - 1]
    <3>1. after[k] = Look(w, list[k], seers, m, entering)
      BY <1>4, <1>6
    <3>2. w \in VidType /\ w.holder \in {v.holder} \cup ToSet(list)
      BY <2>3
    <3> HIDE DEF w
    <3>3. /\ Look(w, list[k], seers, m, entering) \in VidType
          /\ Look(w, list[k], seers, m, entering).holder \in {w.holder, list[k]}
      BY <2>4, <3>2, LookAt
    <3> QED BY <2>4, <3>1, <3>2, <3>3
  <2> QED BY <1>2, <2>5
<1> QED BY <1>5, <1>6

\* The search leaves the floor where it is or gives it to one of the list.
LEMMA SearchedFor ==
  ASSUME NEW list \in Seq(FloorMembers), NEW v \in VidType, NEW seers, NEW m, NEW entering
  PROVE  /\ Searched(seers, list, v, m, entering) \in VidType
         /\ Searched(seers, list, v, m, entering).holder \in {v.holder} \cup ToSet(list)
<1> DEFINE T(f) == Turns(f, Len(list), list, v, seers, m, entering)
           after == CHOOSE f : T(f)
           found == after[Len(list)]
<1>1. T(after)
  <2>1. \E f : T(f)
    <3>1. Len(list) \in Nat
      OBVIOUS
    <3> QED BY <3>1, LoopRuns
  <2> HIDE DEF T
  <2> QED BY <2>1
<1>2. Searched(seers, list, v, m, entering)
        = IF found.last = found.holder THEN [found EXCEPT !.last = Nobody] ELSE found
  BY DEF Searched, Turns
<1> HIDE DEF after
<1>3. found \in VidType /\ found.holder \in {v.holder} \cup ToSet(list)
  <2>1. \A k \in 0..Len(list) : /\ after[k] \in VidType
                                /\ after[k].holder \in {v.holder} \cup ToSet(list)
    BY <1>1, TurnsFine
  <2>2. Len(list) \in 0..Len(list)
    OBVIOUS
  <2> QED BY <2>1, <2>2
<1> HIDE DEF found
<1>4. [found EXCEPT !.last = Nobody] \in VidType /\ [found EXCEPT !.last = Nobody].holder = found.holder
  BY <1>3 DEF VidType, Holders
<1> QED BY <1>2, <1>3, <1>4

-----------------------------------------------------------------------------
\* Steps that leave the list of members and who has come alone.
LEMMA SeenStays ==
  ASSUME VidInv, UNCHANGED <<members, phase>>, VideoFloorThere',
         vid' \in VidType, stale' \in BOOLEAN,
         pass' \in [on : BOOLEAN, todo : Seq(FloorMembers), copy : Holders, gave : BOOLEAN],
         \A m \in FloorMembers : /\ api'[m].pick \in Holders
                                 /\ api'[m].pick # Nobody => phase[api'[m].pick] # "new"
  PROVE  VidInv'
BY DEF VidInv

\* The floor may stay, be free or go to a member.
LEMMA GoesToMember ==
  ASSUME VidInv, UNCHANGED <<members, phase, stale>>,
         vid'.holder \in {vid.holder, Nobody} \cup ToSet(members)
  PROVE  VideoFloorThere'
<1>1. \A m \in ToSet(members) : phase[m] \notin {"new", "gone"}
  BY DEF VidInv
<1> QED BY <1>1 DEF VidInv, VideoFloorThere

\* Nobody has the video floor at first, and nobody is a member.
LEMMA VidInvInit == FloorInit => VidInv
<1> SUFFICES ASSUME FloorInit
             PROVE  VidInv
  OBVIOUS
<1>1. members \in Seq(FloorMembers) /\ DOMAIN members = {} /\ ToSet(members) = {}
  BY DEF FloorInit, ToSet
<1> QED BY <1>1 DEF FloorInit, VidInv, VidType, Holders, VideoFloorThere, NoPass, Idle

\* The monitor's pass looks for the video floor when somebody begins or ceases to
\* send video.
LEMMA PassKeepsSeen == VidInv /\ FloorInv /\ (PassSteps \/ PassSeesFlow) => VidInv'
<1> SUFFICES ASSUME VidInv, FloorInv, PassSteps \/ PassSeesFlow
             PROVE  VidInv'
  OBVIOUS
<1>1. UNCHANGED <<members, phase, api, stale>>
  BY DEF PassSteps, PassStarts, PassGives, PassGoesOn, PassEnds, PassSeesFlow
<1>2. pass' \in [on : BOOLEAN, todo : Seq(FloorMembers), copy : Holders, gave : BOOLEAN]
  <2>1. CASE PassStarts
    BY <2>1 DEF PassStarts, VidInv, FloorInv, Holders
  <2>2. CASE PassGives
    BY <2>2 DEF PassGives, VidInv
  <2>3. CASE PassGoesOn
    <3>1. Tail(pass.todo) \in Seq(FloorMembers)
      BY <2>3 DEF PassGoesOn, VidInv
    <3> QED BY <2>3, <3>1 DEF PassGoesOn, VidInv, FloorInv, Holders
  <2>4. CASE PassEnds
    BY <2>4 DEF PassEnds, NoPass, Holders
  <2>5. CASE PassSeesFlow
    BY <2>5 DEF PassSeesFlow, VidInv
  <2> QED BY <2>1, <2>2, <2>3, <2>4, <2>5 DEF PassSteps
<1>3. vid' \in VidType /\ vid'.holder \in {vid.holder, Nobody} \cup ToSet(members)
  <2>1. CASE PassSteps
    BY <2>1 DEF PassSteps, PassStarts, PassGives, PassGoesOn, PassEnds, VidInv
  <2>2. CASE PassSeesFlow
    <3> DEFINE m == Head(pass.todo)
               v == IF m \in video THEN Released(vid, m) ELSE vid
    <3>1. m \in FloorMembers /\ members \in Seq(FloorMembers) /\ vid \in VidType
      BY <2>2 DEF PassSeesFlow, VidInv
    <3>2. vid' = Searched(video', members, v, m, m \notin video)
      BY <2>2 DEF PassSeesFlow
    <3> HIDE DEF m
    <3>3. v \in VidType /\ v.holder \in {vid.holder, Nobody} \cup ToSet(members)
      BY <3>1, ReleasedBy
    <3> HIDE DEF v
    <3>4. vid' \in VidType /\ vid'.holder \in {v.holder} \cup ToSet(members)
      BY <3>1, <3>2, <3>3, SearchedFor
    <3> QED BY <3>3, <3>4
  <2> QED BY <2>1, <2>2
<1>4. VideoFloorThere'
  BY <1>1, <1>3, GoesToMember
<1>5. \A m \in FloorMembers : /\ api'[m].pick \in Holders
                              /\ api'[m].pick # Nobody => phase[api'[m].pick] # "new"
  BY <1>1 DEF VidInv
<1> QED BY <1>1, <1>2, <1>3, <1>4, <1>5, SeenStays DEF VidInv

\* Who comes may be given the floor; who leaves gives it up, and when it comes back
\* to it by a command that had picked it, gives it up again.
LEMMA MemberKeepsSeen ==
  ASSUME NEW m \in FloorMembers, VidInv, FloorInv,
         member_add(m) \/ Deletes(m) \/ DeletionSteps(m)
  PROVE  VidInv'
<1>1. /\ vid \in VidType /\ members \in Seq(FloorMembers)
      /\ \A i, j \in DOMAIN members : members[i] = members[j] => i = j
      /\ ToSet(members) = {k \in FloorMembers : phase[k] \in {"in", "deleting"}}
  BY DEF VidInv
<1>2. UNCHANGED <<pass, api, stale>> /\ DOMAIN phase = FloorMembers
  BY DEF member_add, Deletes, DeletionSteps, Unlists, GivesUpFloor, GivesUpVideoFloor, Leaves, FloorInv
<1>3. \A k \in FloorMembers : phase'[k] = "new" => phase[k] = "new"
  BY <1>2 DEF member_add, Deletes, DeletionSteps, Unlists, GivesUpFloor, GivesUpVideoFloor, Leaves, Phase
<1>p. /\ pass' \in [on : BOOLEAN, todo : Seq(FloorMembers), copy : Holders, gave : BOOLEAN]
      /\ stale' \in BOOLEAN
      /\ \A k \in FloorMembers : /\ api'[k].pick \in Holders
                                 /\ api'[k].pick # Nobody => phase'[api'[k].pick] # "new"
  BY <1>2, <1>3 DEF VidInv, Holders
<1>4. CASE member_add(m)
  <2>1. /\ phase[m] = "new" /\ phase' = [phase EXCEPT ![m] = "in"] /\ members' = <<m>> \o members
        /\ m \notin ToSet(members)
    BY <1>1, <1>4 DEF member_add, Phase
  <2>2. /\ members' \in Seq(FloorMembers)
        /\ \A i, j \in DOMAIN members' : members'[i] = members'[j] => i = j
        /\ ToSet(members') = ToSet(members) \cup {m}
    BY <1>1, <2>1, PutFirst
  <2>3. ToSet(members)' = {k \in FloorMembers : phase'[k] \in {"in", "deleting"}}
    BY <1>1, <1>2, <2>1, <2>2
  <2> DEFINE v == Searched(video, members', vid, m, TRUE)
             w == IF m \in video THEN Given(v, m, TRUE) ELSE v
  <2>4. v \in VidType /\ v.holder \in {vid.holder} \cup ToSet(members')
    BY <1>1, <2>2, SearchedFor
  <2>5. vid' = v \/ vid' = [w EXCEPT !.locked = TRUE]
    BY <1>4 DEF member_add
  <2> HIDE DEF v
  <2>6. w \in VidType /\ w.holder \in {v.holder, m}
    BY <2>4, GivenTo
  <2> HIDE DEF w
  <2>7. vid' \in VidType /\ vid'.holder \in {vid.holder} \cup ToSet(members')
    BY <2>2, <2>4, <2>5, <2>6 DEF VidType
  <2>8. \A k \in FloorMembers : phase'[k] \in {"new", "gone"} => phase[k] = phase'[k]
    BY <1>2, <2>1
  <2>9. VideoFloorThere'
    <3> SUFFICES ASSUME ~stale', vid'.holder # Nobody
                 PROVE  phase'[vid'.holder] \notin {"new", "gone"}
      BY DEF VideoFloorThere
    <3>1. vid'.holder \in FloorMembers
      BY <2>7 DEF VidType, Holders
    <3>2. CASE vid'.holder \in ToSet(members')
      BY <2>3, <3>2
    <3>3. CASE vid'.holder = vid.holder
      BY <1>2, <2>8, <3>1, <3>3 DEF VidInv, VideoFloorThere
    <3> QED BY <2>7, <3>2, <3>3
  <2> QED BY <1>p, <2>2, <2>3, <2>7, <2>9 DEF VidInv
<1>5. CASE Deletes(m) \/ GivesUpFloor(m)
  <2>1. /\ UNCHANGED <<vid, members>>
        /\ \E x : phase' = [phase EXCEPT ![m] = x] /\ x \notin {"new", "gone"}
                  /\ (phase[m] \in {"in", "deleting"} <=> x \in {"in", "deleting"})
    BY <1>5 DEF Deletes, GivesUpFloor, Phase, In
  <2>2. ToSet(members) = {k \in FloorMembers : phase'[k] \in {"in", "deleting"}}
    BY <1>1, <1>2, <2>1
  <2>3. VideoFloorThere'
    BY <1>1, <1>2, <2>1 DEF VidInv, VideoFloorThere, VidType, Holders
  <2> QED BY <1>1, <1>p, <2>1, <2>2, <2>3 DEF VidInv
<1>6. CASE Unlists(m)
  <2>1. phase[m] = "deleting" /\ phase' = [phase EXCEPT ![m] = "unlisted"] /\ vid' = vid
        /\ members' = RemoveFirst(members, m)
    BY <1>6 DEF Unlists, Phase
  <2>2. /\ members' \in Seq(FloorMembers)
        /\ \A i, j \in DOMAIN members' : members'[i] = members'[j] => i = j
        /\ ToSet(members') = ToSet(members) \ {m}
    BY <1>1, <2>1, TakenOut
  <2>3. ToSet(members') = {k \in FloorMembers : phase'[k] \in {"in", "deleting"}}
    BY <1>1, <1>2, <2>1, <2>2
  <2>4. VideoFloorThere'
    BY <1>1, <1>2, <2>1 DEF VidInv, VideoFloorThere, VidType, Holders
  <2> QED BY <1>1, <1>p, <2>1, <2>2, <2>3, <2>4 DEF VidInv
<1>7. CASE GivesUpVideoFloor(m)
  <2>1. phase[m] = "silenced" /\ phase' = [phase EXCEPT ![m] = "unseen"] /\ members' = members
        /\ vid' \in {vid, [holder |-> Nobody, last |-> Nobody, locked |-> FALSE]}
    BY <1>7 DEF GivesUpVideoFloor, Phase
  <2>2. ToSet(members') = {k \in FloorMembers : phase'[k] \in {"in", "deleting"}}
    BY <1>1, <1>2, <2>1
  <2>3. CASE vid' = vid
    <3>1. VideoFloorThere'
      BY <1>1, <1>2, <2>1, <2>3 DEF VidInv, VideoFloorThere, VidType, Holders
    <3> QED BY <1>1, <1>p, <2>1, <2>2, <2>3, <3>1 DEF VidInv
  <2>4. CASE vid' = [holder |-> Nobody, last |-> Nobody, locked |-> FALSE]
    <3>1. VideoFloorThere' /\ vid' \in VidType
      BY <2>4 DEF VideoFloorThere, VidType, Holders
    <3> QED BY <1>1, <1>p, <2>1, <2>2, <3>1 DEF VidInv
  <2> QED BY <2>1, <2>3, <2>4
<1>8. CASE Leaves(m)
  <2>1. phase[m] = "unseen" /\ phase' = [phase EXCEPT ![m] = "gone"] /\ members' = members
        /\ vid' = Searched(video, members, Released(vid, m), m, FALSE)
    BY <1>8 DEF Leaves, find_floor, Phase
  <2>2. ToSet(members') = {k \in FloorMembers : phase'[k] \in {"in", "deleting"}}
    BY <1>1, <1>2, <2>1
  <2>3. /\ Released(vid, m) \in VidType /\ Released(vid, m).holder # m
        /\ Released(vid, m).holder \in {vid.holder, Nobody} \cup ToSet(members)
    BY <1>1, ReleasedBy
  <2>4. vid' \in VidType /\ vid'.holder \in {Released(vid, m).holder} \cup ToSet(members)
    BY <1>1, <2>1, <2>3, SearchedFor
  <2>5. m \notin ToSet(members)
    BY <1>1, <2>1
  <2>6. vid'.holder # m /\ vid'.holder \in {vid.holder, Nobody} \cup ToSet(members)
    BY <2>3, <2>4, <2>5
  <2>7. VideoFloorThere'
    <3> SUFFICES ASSUME ~stale', vid'.holder # Nobody
                 PROVE  phase'[vid'.holder] \notin {"new", "gone"}
      BY DEF VideoFloorThere
    <3>1. vid'.holder \in FloorMembers /\ phase'[vid'.holder] = phase[vid'.holder]
      BY <1>2, <2>1, <2>4, <2>6 DEF VidType, Holders
    <3>2. CASE vid'.holder \in ToSet(members)
      BY <1>1, <3>1, <3>2
    <3>3. CASE vid'.holder = vid.holder
      BY <1>2, <3>1, <3>3 DEF VidInv, VideoFloorThere
    <3> QED BY <2>6, <3>2, <3>3
  <2> QED BY <1>1, <1>p, <2>1, <2>2, <2>4, <2>7 DEF VidInv
<1> QED BY <1>4, <1>5, <1>6, <1>7, <1>8 DEF DeletionSteps

\* A command takes the floor for the member it speaks for, or for one it has picked
\* that may have gone since.
LEMMA CommandKeepsSeen ==
  ASSUME NEW m \in FloorMembers, VidInv, FloorInv,
         \/ conference_member_get(m) \/ ApiSteps(m) \/ VidFloor(m) \/ RolePicks(m)
         \/ InputLoop(m) \/ OffCanvas(m) \/ clear_vid_floor
  PROVE  VidInv'
<1>1. /\ vid \in VidType /\ members \in Seq(FloorMembers) /\ stale \in BOOLEAN
      /\ \A k \in ToSet(members) : k \in FloorMembers /\ phase[k] # "new"
      /\ \A k \in FloorMembers : In(k) => k \in ToSet(members)
      /\ DOMAIN api = FloorMembers
      /\ \A k \in FloorMembers : /\ api[k].pick \in Holders
                                 /\ api[k].pick # Nobody => phase[api[k].pick] # "new"
  BY DEF VidInv, FloorInv, In
<1>2. UNCHANGED <<members, phase, pass>>
  BY DEF conference_member_get, ApiSteps, FloorLooks, FloorSets, RoleSets, RoleSearches, VidFloor,
         RolePicks, InputLoop, OffCanvas, clear_vid_floor
<1>p. pass' \in [on : BOOLEAN, todo : Seq(FloorMembers), copy : Holders, gave : BOOLEAN]
  BY <1>2 DEF VidInv
<1>3. \A k \in FloorMembers : /\ api'[k].pick \in Holders
                              /\ api'[k].pick # Nobody => phase[api'[k].pick] # "new"
  <2>1. CASE RolePicks(m)
    <3>1. Pick(vid) = Nobody \/ Pick(vid) \in ToSet(members)
      BY PickedIsMember
    <3>2. \/ api' = [api EXCEPT ![m] = [step |-> "picked", pick |-> Pick(vid)]]
          \/ api' = [api EXCEPT ![m] = [step |-> "searches", pick |-> Nobody]]
      BY <2>1 DEF RolePicks, Api
    <3>3. api'[m].pick \in {Nobody, Pick(vid)} /\ \A k \in FloorMembers \ {m} : api'[k] = api[k]
      BY <1>1, <3>2
    <3> QED BY <1>1, <3>1, <3>3 DEF Holders
  <2>2. CASE UNCHANGED api
    BY <1>1, <2>2
  <2>3. CASE ~RolePicks(m) /\ ~UNCHANGED api
    <3>1. \E x : api' = [api EXCEPT ![m] = [step |-> x, pick |-> Nobody]]
      BY <2>3 DEF conference_member_get, ApiSteps, FloorLooks, FloorSets, RoleSets, RoleSearches,
         VidFloor, InputLoop, OffCanvas, clear_vid_floor, Api
    <3>2. api'[m].pick = Nobody /\ \A k \in FloorMembers \ {m} : api'[k] = api[k]
      BY <1>1, <3>1
    <3> QED BY <1>1, <3>2 DEF Holders
  <2> QED BY <2>1, <2>2, <2>3
<1>4. CASE RoleSets(m)
  <2> DEFINE p == api[m].pick
  <2>1. /\ vid' = [vid EXCEPT !.holder = p]
        /\ stale' = (stale \/ (p # Nobody /\ phase[p] = "gone"))
    BY <1>4 DEF RoleSets
  <2>2. p \in Holders /\ (p # Nobody => phase[p] # "new")
    BY <1>1
  <2> HIDE DEF p
  <2>3. vid' \in VidType /\ vid'.holder = p
    BY <1>1, <2>1, <2>2 DEF VidType
  <2>4. stale' \in BOOLEAN
    BY <2>1
  <2>5. VideoFloorThere'
    BY <1>2, <2>1, <2>2, <2>3 DEF VideoFloorThere
  <2> QED BY <1>2, <1>3, <1>p, <2>3, <2>4, <2>5, SeenStays
<1>5. CASE ~RoleSets(m)
  <2>1. UNCHANGED stale
    BY <1>5 DEF conference_member_get, ApiSteps, FloorLooks, FloorSets, RoleSearches, VidFloor,
         RolePicks, InputLoop, OffCanvas, clear_vid_floor
  <2>2. vid' \in VidType /\ vid'.holder \in {vid.holder, Nobody} \cup ToSet(members)
    <3>1. CASE conference_member_get(m) \/ FloorLooks(m) \/ FloorSets(m)
      BY <1>1, <3>1 DEF conference_member_get, FloorLooks, FloorSets
    <3>2. CASE clear_vid_floor
      BY <1>1, <3>2 DEF clear_vid_floor, VidType
    <3>3. CASE VidFloor(m)
      <4>1. m \in ToSet(members)
        BY <1>1, <3>3 DEF VidFloor, FloorInv
      <4>2. Given(vid, m, TRUE) \in VidType /\ Given(vid, m, TRUE).holder \in {vid.holder, m}
        BY <1>1, GivenTo
      <4>3. \/ vid' = [vid EXCEPT !.locked = FALSE]
            \/ vid' = [Given(vid, m, TRUE) EXCEPT !.locked = TRUE]
        BY <3>3 DEF VidFloor
      <4> QED BY <1>1, <4>1, <4>2, <4>3 DEF VidType
    <3>4. CASE RolePicks(m)
      <4>1. vid' \in {[vid EXCEPT !.locked = FALSE], Released(vid, m)}
        BY <3>4 DEF RolePicks
      <4>2. /\ Released(vid, m) \in VidType
            /\ Released(vid, m).holder \in {vid.holder, Nobody} \cup ToSet(members)
        BY <1>1, ReleasedBy
      <4> QED BY <1>1, <4>1, <4>2 DEF VidType
    <3>5. CASE RoleSearches(m)
      <4>1. vid' = Searched(video, members, vid, m, FALSE)
        BY <3>5 DEF RoleSearches
      <4>2. /\ Searched(video, members, vid, m, FALSE) \in VidType
            /\ Searched(video, members, vid, m, FALSE).holder \in {vid.holder} \cup ToSet(members)
        BY ONLY <1>1, SearchedFor
      <4> QED BY ONLY <4>1, <4>2
    <3>6. CASE InputLoop(m)
      <4>1. m \in ToSet(members) /\ vid' = Given(vid, m, FALSE)
        BY <1>1, <3>6 DEF InputLoop
      <4>2. Given(vid, m, FALSE) \in VidType /\ Given(vid, m, FALSE).holder \in {vid.holder, m}
        BY <1>1, GivenTo
      <4> QED BY ONLY <4>1, <4>2
    <3>7. CASE OffCanvas(m)
      BY <1>1, <3>7, ReleasedBy DEF OffCanvas
    <3> QED BY <1>5, <3>1, <3>2, <3>3, <3>4, <3>5, <3>6, <3>7 DEF ApiSteps
  <2>3. VideoFloorThere'
    BY <1>2, <2>1, <2>2, GoesToMember
  <2> QED BY <1>1, <1>2, <1>3, <1>p, <2>1, <2>2, <2>3, SeenStays
<1> QED BY <1>4, <1>5

\* Every step of the floor keeps the invariant of the video floor.
LEMMA VidInvKept == FloorInv /\ VidInv /\ [FloorNext]_floorvars => VidInv'
<1> SUFFICES ASSUME FloorInv, VidInv, [FloorNext]_floorvars
             PROVE  VidInv'
  OBVIOUS
<1>1. CASE PassSteps \/ PassSeesFlow
  BY <1>1, PassKeepsSeen
<1>2. CASE clear_vid_floor
  <2>1. vid' \in VidType /\ vid'.holder = vid.holder
    BY <1>2 DEF clear_vid_floor, VidInv, VidType
  <2> QED BY <1>2, <2>1 DEF clear_vid_floor, VidInv, VideoFloorThere
<1>3. ASSUME NEW m \in FloorMembers,
             \/ member_add(m) \/ Deletes(m) \/ DeletionSteps(m)
             \/ conference_member_get(m) \/ ApiSteps(m) \/ VidFloor(m) \/ RolePicks(m)
             \/ InputLoop(m) \/ OffCanvas(m)
      PROVE  VidInv'
  BY <1>3, MemberKeepsSeen, CommandKeepsSeen
<1>4. CASE UNCHANGED floorvars
  BY <1>4 DEF floorvars, VidInv, VideoFloorThere
<1> QED BY <1>1, <1>2, <1>3, <1>4 DEF FloorNext

\* Both invariants hold in every reachable state.
LEMMA SeenInvariant == FloorSpec => [](FloorInv /\ VidInv)
BY VidInvKept, FloorInvKept, FloorInvInit, VidInvInit, PTL DEF FloorSpec

\* The video floor is not left with a member that has gone either, but for a command
\* that picks a member without the conference's mutex and sets it after it went.
THEOREM VideoFloorHolderStays == FloorSpec => []VideoFloorThere
<1>1. VidInv => VideoFloorThere
  BY DEF VidInv
<1> QED BY <1>1, SeenInvariant, PTL

\* Types are part of both invariants.
LEMMA FloorTypes == FloorInv /\ VidInv => FloorTypeOK
<1> SUFFICES ASSUME FloorInv, VidInv
             PROVE  FloorTypeOK
  OBVIOUS
<1>1. ASSUME NEW m \in FloorMembers
      PROVE  (\E i \in DOMAIN members : members[i] = m) <=> (phase[m] \in {"in", "deleting"})
  <2>1. (\E i \in DOMAIN members : members[i] = m) <=> m \in ToSet(members)
    BY DEF ToSet
  <2>2. m \in ToSet(members) <=> phase[m] \in {"in", "deleting"}
    BY DEF VidInv
  <2> QED BY <2>1, <2>2
<1> QED BY <1>1 DEF FloorTypeOK, FloorInv, VidInv, VidType, Holders

\* The types of both floors; the list holds who has come and is not yet taken out.
THEOREM FloorTypesHold == FloorSpec => []FloorTypeOK
BY FloorTypes, SeenInvariant, PTL

-----------------------------------------------------------------------------
(***************************************************************************)
(* The two together, as they are run                                       *)
(***************************************************************************)

\* One part takes a step of its own and the other stands still.
LEMMA EachItsOwn == [Next]_partvars => [FloorNext]_floorvars /\ [RecNext]_recvars
<1>1. UNCHANGED partvars => UNCHANGED floorvars /\ UNCHANGED recvars
  BY DEF partvars
<1>2. OfFloor(FloorNext) => FloorNext /\ UNCHANGED recvars
  BY DEF OfFloor
<1>3. OfRecording(RecNext) => RecNext /\ UNCHANGED floorvars
  BY DEF OfRecording
<1> QED BY <1>1, <1>2, <1>3 DEF Next

\* The conference as its recordings see it.
RoomKnown == room \in {"up", "ending", "destroyed"}

\* A conference is up, ends and is destroyed.
LEMMA RoomKept == RoomKnown /\ [RecNext]_recvars => RoomKnown'
BY DEF RoomKnown, recvars, RecNext, RecSteps, Joins, Parts, conference_record_stop, RoomEnds, RoomGone,
       AutoRecords, WriteFails, AsksToRecord, conference_api_sub_record, RecLocks, Opens, FailsToOpen,
       LoopEnds, RecMemberDel, Uncounts, RecEnds

\* Types are part of the invariants of recordings.
LEMMA RecTypes == ListInv /\ AutoInv /\ CountInv /\ RoomKnown => RecTypeOK
BY DEF ListInv, AutoInv, CountInv, TreeInv, TallyInv, RoomKnown, RecType, RecTypeOK

\* The values that the state of the recordings takes.
THEOREM RecTypesHold == RecSpec => []RecTypeOK
<1>1. RecInit => RoomKnown
  BY DEF RecInit, RoomKnown
<1> QED BY <1>1, RoomKept, RecTypes, CountInvInit, CountInvKept, RecInvariant, PTL DEF RecSpec

\* The types of floors and recordings hold whichever of them runs.
THEOREM PartsTypesHold == PartsSpec => []PartsTypeOK
<1> DEFINE Inv == FloorInv /\ VidInv /\ ListInv /\ AutoInv /\ CountInv /\ RoomKnown
<1>1. Init => Inv
  BY FloorInvInit, VidInvInit, RecInvInit, CountInvInit DEF Init, RecInit, RoomKnown
<1>2. Inv /\ [Next]_partvars => Inv'
  BY EachItsOwn, FloorInvKept, VidInvKept, RecInvKept, CountInvKept, RoomKept
<1>3. Inv => PartsTypeOK
  BY FloorTypes, RecTypes DEF PartsTypeOK
<1> HIDE DEF Inv
<1> QED BY <1>1, <1>2, <1>3, PTL DEF PartsSpec
=============================================================================
