--------------------------- MODULE ConferenceFloor ---------------------------
(***************************************************************************)
(* mod_conference: who has the floor, by ear (floor_holder) and by sight   *)
(* (video_floor_holder).  Both are ids of members, written by              *)
(*   - the monitor, which holds conference->mutex for a whole pass and     *)
(*     compares with a copy it took at the start of the pass,              *)
(*   - member_add and member_del, under conference->mutex,                 *)
(*   - API commands and the members' own input threads, which hold only    *)
(*     the member's rwlock as readers; member_del waits for these.         *)
(* Scores, events, dedicated layers and several canvases are left out.     *)
(***************************************************************************)
EXTENDS Integers, Sequences, SequencesExt

CONSTANTS FloorMembers   \* ids

ASSUME FloorAssumption == FloorMembers \subseteq Nat \ {0}

Nobody == 0

VARIABLES
  phase,    \* of each member: "new", "in", "deleting" (told to stop, rwlock taken),
            \* "unlisted", "silenced" (off the audio floor), "unseen" (and off the video floor), "gone"
  members,  \* conference->members, the newest first
  video,    \* the members that can be seen
  floor,    \* floor_holder
  vid,      \* holder, last: (last_)video_floor_holder; locked: CFLAG_VID_FLOOR_LOCK
  pass,     \* the monitor's pass: on, the members still to come, its copy of the floor
  api,      \* per member: what is going on under its rwlock, and the member picked
  stale     \* history: a member was picked that had gone before the floor was its own

floorvars == <<phase, members, video, floor, vid, pass, api, stale>>

In(m) == phase[m] = "in"
\* member_del holds conference->mutex.
Deleting == \E m \in FloorMembers : phase[m] \in {"unlisted", "silenced", "unseen"}
MutexFree == ~pass.on /\ ~Deleting
Phase(m, x) == [phase EXCEPT ![m] = x]
Idle == [step |-> "idle", pick |-> Nobody]
Api(m, x, p) == [api EXCEPT ![m] = [step |-> x, pick |-> p]]
NoPass == [on |-> FALSE, todo |-> <<>>, copy |-> Nobody, gave |-> FALSE]

FloorInit ==
  /\ phase = [m \in FloorMembers |-> "new"]
  /\ members = <<>>
  /\ video \in SUBSET FloorMembers
  /\ floor = Nobody
  /\ vid = [holder |-> Nobody, last |-> Nobody, locked |-> FALSE]
  /\ pass = NoPass
  /\ api = [m \in FloorMembers |-> Idle]
  /\ stale = FALSE

-----------------------------------------------------------------------------
(***************************************************************************)
(* conference_video_set_floor_holder, conference_video_find_floor          *)
(***************************************************************************)

\* Given to member m; the lock keeps it where it is, except by force.
Given(v, m, force) ==
  IF (~force /\ v.locked) \/ v.holder = m THEN v
  ELSE [v EXCEPT !.last = IF v.holder # Nobody THEN v.holder ELSE @, !.holder = m]

\* Given to nobody in particular: to the first who can be seen.
Pick(v) ==
  LET seen == {k \in DOMAIN members : members[k] # v.holder /\ members[k] \in video}
  IN IF seen = {} THEN Nobody ELSE members[Min(seen)]

\* The loop comes to member i.  Who cannot be seen, and one that does not enter, is
\* passed over.
Look(w, i, seers, m, entering) ==
  IF i \notin seers \/ (~entering /\ i = m) THEN w
  ELSE IF i = floor \/ w.holder = Nobody THEN Given(w, i, FALSE)
  ELSE IF w.last = Nobody THEN [w EXCEPT !.last = i] ELSE w

Searched(seers, list, v, m, entering) ==
  LET after[k \in 0 .. Len(list)] ==
        IF k = 0 THEN v ELSE Look(after[k - 1], list[k], seers, m, entering)
      found == after[Len(list)]
  IN IF found.last = found.holder THEN [found EXCEPT !.last = Nobody] ELSE found

\* What comes first, for one that does not enter.
Released(v, m) ==
  IF m = v.holder THEN [v EXCEPT !.holder = Pick(v), !.locked = FALSE]
  ELSE IF m = v.last THEN [v EXCEPT !.last = Nobody] ELSE v

find_floor(m, entering) ==
  Searched(video, members, IF entering THEN vid ELSE Released(vid, m), m, entering)

-----------------------------------------------------------------------------
(***************************************************************************)
(* Members come and go                                                     *)
(***************************************************************************)

\* Some want the video floor at once (MFLAG_JOIN_VID_FLOOR).
member_add(m) ==
  /\ phase[m] = "new" /\ MutexFree
  /\ phase' = Phase(m, "in")
  /\ members' = <<m>> \o members
  /\ LET v == Searched(video, members', vid, m, TRUE)
         w == IF m \in video THEN Given(v, m, TRUE) ELSE v
     IN vid' \in {v, [w EXCEPT !.locked = TRUE]}
  /\ UNCHANGED <<video, floor, pass, api, stale>>

\* Slip: nobody is waited for.
DeletesAtOnce(m) ==
  /\ In(m)
  /\ phase' = Phase(m, "deleting")
  /\ UNCHANGED <<members, video, floor, vid, pass, api, stale>>

\* member_del: the write lock of the member waits for those who hold it.
Deletes(m) ==
  /\ In(m) /\ api[m] = Idle
  /\ phase' = Phase(m, "deleting")
  /\ UNCHANGED <<members, video, floor, vid, pass, api, stale>>
\* Slip: the newest is taken out of the list.
UnlistsNewest(m) ==
  /\ phase[m] = "deleting" /\ MutexFree
  /\ phase' = Phase(m, "unlisted")
  /\ members' = Tail(members)
  /\ UNCHANGED <<video, floor, vid, pass, api, stale>>
Unlists(m) ==
  /\ phase[m] = "deleting" /\ MutexFree
  /\ phase' = Phase(m, "unlisted")
  /\ members' = RemoveFirst(members, m)
  /\ UNCHANGED <<video, floor, vid, pass, api, stale>>
GivesUpFloor(m) ==
  /\ phase[m] = "unlisted"
  /\ phase' = Phase(m, "silenced")
  /\ floor' = IF floor = m THEN Nobody ELSE floor
  /\ UNCHANGED <<members, video, vid, pass, api, stale>>

\* last_video_floor_holder takes over, and loses it in the next line.
GivesUpVideoFloor(m) ==
  /\ phase[m] = "silenced"
  /\ phase' = Phase(m, "unseen")
  /\ vid' = IF vid.holder = m THEN [holder |-> Nobody, last |-> Nobody, locked |-> FALSE] ELSE vid
  /\ UNCHANGED <<members, video, floor, pass, api, stale>>
\* Slip: nobody else is looked for.
LeavesQuietly(m) ==
  /\ phase[m] = "unseen"
  /\ phase' = Phase(m, "gone")
  /\ UNCHANGED <<members, video, floor, vid, pass, api, stale>>
Leaves(m) ==
  /\ phase[m] = "unseen"
  /\ phase' = Phase(m, "gone")
  /\ vid' = find_floor(m, FALSE)
  /\ UNCHANGED <<members, video, floor, pass, api, stale>>

-----------------------------------------------------------------------------
(***************************************************************************)
(* The monitor's pass                                                      *)
(***************************************************************************)

PassStarts ==
  /\ MutexFree
  /\ pass' = [on |-> TRUE, todo |-> members, copy |-> floor, gave |-> FALSE]
  /\ UNCHANGED <<phase, members, video, floor, vid, api, stale>>

\* Slip: only one who speaks is given the floor.
GetsIfSpeaks(m) == FALSE
\* A floor that was free is given to whoever comes first; else one who speaks may
\* get it from one who does not.
Gets(m) == pass.copy = Nobody

PassGives ==
  /\ pass.on /\ pass.todo # <<>> /\ ~pass.gave
  /\ \E m \in FloorMembers :
       /\ m = Head(pass.todo) /\ In(m) /\ (Gets(m) \/ m # floor)
       /\ floor' = m
  /\ pass' = [pass EXCEPT !.gave = TRUE]
  /\ UNCHANGED <<phase, members, video, vid, api, stale>>

\* The copy is renewed when the floor was given.
PassGoesOn ==
  /\ pass.on /\ pass.todo # <<>>
  /\ LET m == Head(pass.todo) IN In(m) /\ Gets(m) => pass.gave
  /\ pass' = [pass EXCEPT !.todo = Tail(@), !.gave = FALSE,
                          !.copy = IF pass.gave THEN floor ELSE @]
  /\ UNCHANGED <<phase, members, video, floor, vid, api, stale>>

\* A member begins or ceases to send video.
PassSeesFlow ==
  /\ pass.on /\ pass.todo # <<>>
  /\ LET m == Head(pass.todo)
     IN /\ In(m)
        /\ \/ m \in video /\ video' = video \ {m}
           \/ m \notin video /\ video' = video \cup {m}
        /\ vid' = LET v == IF m \in video THEN Released(vid, m) ELSE vid
                  IN Searched(video', members, v, m, m \notin video)
  /\ UNCHANGED <<phase, members, floor, pass, api, stale>>

\* The copy is written back: if it is of one who cannot be had any more (or whose
\* channel is down), the floor becomes free.
PassEnds ==
  /\ pass.on /\ pass.todo = <<>>
  /\ pass' = NoPass
  /\ \/ pass.copy = floor /\ UNCHANGED floor
     \/ pass.copy # floor /\ floor' = Nobody
     \/ pass.copy # floor /\ pass.copy # Nobody /\ In(pass.copy) /\ floor' = pass.copy
  /\ UNCHANGED <<phase, members, video, vid, api, stale>>

-----------------------------------------------------------------------------
(***************************************************************************)
(* API commands for a member (which hold its rwlock), its input thread,    *)
(* and the thread that mixes the video                                     *)
(***************************************************************************)

conference_member_get(m) ==
  /\ In(m) /\ api[m] = Idle
  /\ api' = Api(m, "asked", Nobody)
  /\ UNCHANGED <<phase, members, video, floor, vid, pass, stale>>

\* conference_api_sub_floor
FloorLooks(m) ==
  /\ api[m].step = "asked"
  /\ api' = Api(m, IF floor = m THEN "drops" ELSE IF floor = Nobody THEN "takes" ELSE "idle", Nobody)
  /\ UNCHANGED <<phase, members, video, floor, vid, pass, stale>>
FloorSets(m) ==
  /\ api[m].step \in {"drops", "takes"}
  /\ floor' = IF api[m].step = "takes" THEN m ELSE Nobody
  /\ api' = Api(m, "idle", Nobody)
  /\ UNCHANGED <<phase, members, video, vid, pass, stale>>

\* conference_api_sub_vid_floor: a floor that was locked is unlocked; else it is
\* taken by force, or if it is free.
VidFloor(m) ==
  /\ api[m].step = "asked" /\ m \in video
  /\ IF vid.holder = m /\ vid.locked
     THEN vid' = [vid EXCEPT !.locked = FALSE] /\ floor' = m
     ELSE /\ vid' = [Given(vid, m, TRUE) EXCEPT !.locked = TRUE]
          /\ UNCHANGED floor
  /\ api' = Api(m, "idle", Nobody)
  /\ UNCHANGED <<phase, members, video, pass, stale>>

\* conference_api_sub_clear_vid_floor
clear_vid_floor ==
  /\ vid' = [vid EXCEPT !.locked = FALSE]
  /\ UNCHANGED <<phase, members, video, floor, pass, api, stale>>

\* A role or reservation: find_floor without conference->mutex.  The member that
\* is picked is used after member_mutex was given back.
RolePicks(m) ==
  /\ api[m].step = "asked" /\ m \in video
  /\ IF m = vid.holder
     THEN /\ api' = Api(m, "picked", Pick(vid))
          /\ vid' = [vid EXCEPT !.locked = FALSE]
     ELSE api' = Api(m, "searches", Nobody) /\ vid' = Released(vid, m)
  /\ UNCHANGED <<phase, members, video, floor, pass, stale>>
RoleSets(m) ==
  /\ api[m].step = "picked"
  /\ LET p == api[m].pick
     IN /\ vid' = [vid EXCEPT !.holder = p]
        /\ stale' = (stale \/ (p # Nobody /\ phase[p] = "gone"))
  /\ api' = Api(m, "searches", Nobody)
  /\ UNCHANGED <<phase, members, video, floor, pass>>
RoleSearches(m) ==
  /\ api[m].step = "searches"
  /\ vid' = Searched(video, members, vid, m, FALSE)
  /\ api' = Api(m, "idle", Nobody)
  /\ UNCHANGED <<phase, members, video, floor, pass, stale>>

\* conference_loop_input: who has the floor by ear wants it by sight, too.
InputLoop(m) ==
  /\ In(m) /\ m \in video
  /\ vid' = Given(vid, m, FALSE)
  /\ UNCHANGED <<phase, members, video, floor, pass, api, stale>>

\* conference_video_muxing_thread_run: one who is on hold.
OffCanvas(m) ==
  /\ \E i \in DOMAIN members : members[i] = m
  /\ vid' = Released(vid, m)
  /\ UNCHANGED <<phase, members, video, floor, pass, api, stale>>

-----------------------------------------------------------------------------
PassSteps == PassStarts \/ PassGives \/ PassGoesOn \/ PassEnds
DeletionSteps(m) == Unlists(m) \/ GivesUpFloor(m) \/ GivesUpVideoFloor(m) \/ Leaves(m)
ApiSteps(m) == FloorLooks(m) \/ FloorSets(m) \/ RoleSets(m) \/ RoleSearches(m)

FloorNext ==
  \/ PassSteps \/ PassSeesFlow \/ clear_vid_floor
  \/ \E m \in FloorMembers :
       \/ member_add(m) \/ Deletes(m) \/ DeletionSteps(m)
       \/ conference_member_get(m) \/ ApiSteps(m) \/ VidFloor(m) \/ RolePicks(m)
       \/ InputLoop(m) \/ OffCanvas(m)

\* The monitor goes on, and what was begun is finished.
FloorFairness ==
  /\ WF_floorvars(PassSteps)
  /\ \A m \in FloorMembers : WF_floorvars(DeletionSteps(m)) /\ WF_floorvars(ApiSteps(m))
FloorSpec == FloorInit /\ [][FloorNext]_floorvars /\ FloorFairness

-----------------------------------------------------------------------------
(***************************************************************************)
(* Properties                                                              *)
(***************************************************************************)

FloorTypeOK ==
  /\ floor \in FloorMembers \cup {Nobody}
  /\ vid.holder \in FloorMembers \cup {Nobody} /\ vid.last \in FloorMembers \cup {Nobody}
  /\ pass.copy \in FloorMembers \cup {Nobody} /\ pass.on \in BOOLEAN
  /\ \A m \in FloorMembers : (\E i \in DOMAIN members : members[i] = m) <=> (phase[m] \in {"in", "deleting"})

\* The floor is never left with a member that has gone: neither the monitor, with
\* its copy, nor a command that looked before somebody left gives it back to one.
FloorHolderThere == floor # Nobody => phase[floor] \in {"in", "deleting", "unlisted"}

\* Nor is the video floor, which nobody would take from a member that has gone,
\* unless a command outside conference->mutex picked a member that went meanwhile.
VideoFloorThere ==
  ~stale /\ vid.holder # Nobody => phase[vid.holder] \notin {"new", "gone"}

\* While there are members the floor does not stay free.
FloorIsTaken == []<>(floor # Nobody \/ \A m \in FloorMembers : ~In(m))
=============================================================================
