------------------------- MODULE ConferenceRoomProofs -------------------------
(***************************************************************************)
(* What a conference does as a room, proved for any callers, API threads   *)
(* and conference objects.                                                 *)
(*                                                                         *)
(* When it must end: no conference is left behind without a caller, and    *)
(* none goes on below its enforced minimum.                                *)
(*                                                                         *)
(* ConferenceLifecycle implements RoomRegistry: each step of the code      *)
(* joins, leaves, opens, closes or removes a room, or changes nothing the  *)
(* registry sees.                                                          *)
(*                                                                         *)
(* All rest on the invariants of ConferenceLifecycleProofs.                *)
(***************************************************************************)
EXTENDS ConferenceLifecycleProofs

(* A caller inside c that still has the "done:" block before it.              *)
WillCheck(c) == \E t \in Caller : conference[t] = c /\ pc[t] \in UsesConference

(* A conference is dynamic from Arm on, and staffed until it is marked.       *)
Staffed ==
  /\ \A t \in Caller : pc[t] = "undefined" => ~Alive(conference[t])
  /\ \A c \in Conf :
       /\ stage[c] = "created" =>
            \E t \in Caller : conference[t] = c /\ pc[t] = "arm"
       /\ stage[c] \in {"starting", "mixing"} => Has(c, "DYNAMIC")
       /\ stage[c] \in {"created", "starting", "mixing"} /\ ~Has(c, "DESTRUCT")
            => WillCheck(c)

(* The minimum is enforced only once it is set, and only while somebody is in *)
(* the member list.                                                           *)
MinInv ==
  /\ \A c \in Conf :
       /\ Has(c, "ENFORCE_MIN") => min[c] > 0
       /\ stage[c] = "unborn" => min[c] = 0 /\ cflags[c] = {}
       /\ stage[c] = "created" => min[c] # 1
       /\ Alive(c) /\ Has(c, "ENFORCE_MIN")
            => Has(c, "DESTRUCT") \/ count[c] + count_ghosts[c] > 0
  /\ MinimumEnforced

-----------------------------------------------------------------------------
(* Somebody counted is somebody in the loop or leaving it.                    *)
LEMMA CountedIsInside ==
  ASSUME LockInv, CountInv, Staffed, NEW c \in Conf, Alive(c),
         count[c] # 0 \/ count_ghosts[c] # 0
  PROVE  \E t \in Caller : conference[t] = c /\ pc[t] \in {"loop", "leaving"}
<1>1. members[c] # {}
  <2> SUFFICES ASSUME members[c] = {} PROVE FALSE
    OBVIOUS
  <2>1. members[c] \ GhostCaller = {} /\ members[c] \cap GhostCaller = {}
    OBVIOUS
  <2> QED BY <2>1, FS_EmptySet DEF CountInv, CountersMatch
<1>2. PICK t \in members[c] : TRUE
  BY <1>1
<1>3. t \in Caller /\ conference[t] = c /\ pc[t] \in {"loop", "leaving",
    "undefined"}
  BY DEF LockInv, Shape, CountInv, MembersInside
<1> QED BY <1>3 DEF Staffed

(* Every step keeps a conference staffed: Done is the one that could take the *)
(* last caller away, and marks the conference when nobody is counted.         *)
LEMMA StaffedStep == LockInv /\ CountInv /\ Staffed /\ [Next]_vars => Staffed'
<1> SUFFICES ASSUME LockInv, CountInv, Staffed, [Next]_vars PROVE Staffed'
  OBVIOUS
<1> USE CallersAssumption, LimitsAssumption
    DEF LockInv, Shape, Pointers, Staffed, WillCheck, Goto, At, Alive, Has,
    Advance,
        Thread, UsesConference, confVars, threadVars
<1>1. ASSUME NEW t \in Caller, Enter(t) PROVE Staffed'
  BY <1>1 DEF Enter
<1>2. ASSUME NEW t \in Caller, FindExisting(t) PROVE Staffed'
  BY <1>2 DEF FindExisting, Found, RdLock
<1>3. ASSUME NEW t \in Caller, FindNothing(t) PROVE Staffed'
  BY <1>3 DEF FindNothing, UnlistDestructed
<1>4. ASSUME NEW t \in Caller, Create(t) PROVE Staffed'
  BY <1>4 DEF Create, TableAgrees
<1>5. ASSUME NEW t \in Caller, RejectNew(t) PROVE Staffed'
  BY <1>5 DEF RejectNew
<1>6. ASSUME NEW t \in Caller, ReleaseSetup(t) PROVE Staffed'
  BY <1>6 DEF ReleaseSetup
<1>7. ASSUME NEW t \in Caller, Arm(t) PROVE Staffed'
  BY <1>7 DEF Arm, CreatorLocks, Creators
<1>8. ASSUME NEW t \in Caller, DialStart(t) PROVE Staffed'
  BY <1>8 DEF DialStart, RdLock
<1>9. ASSUME NEW t \in Caller, DialEnd(t) PROVE Staffed'
  BY <1>9 DEF DialEnd, RdUnlock
<1>10. ASSUME NEW t \in Caller, ScreenPass(t) PROVE Staffed'
  BY <1>10 DEF ScreenPass
<1>11. ASSUME NEW t \in Caller, ScreenReject(t) PROVE Staffed'
  BY <1>11 DEF ScreenReject
<1>12. ASSUME NEW t \in Caller, Setup(t) PROVE Staffed'
  BY <1>12 DEF Setup
<1>13. ASSUME NEW t \in Caller, SetupFails(t) PROVE Staffed'
  BY <1>13 DEF SetupFails
<1>14. ASSUME NEW t \in Caller, Add(t) PROVE Staffed'
  BY <1>14 DEF Add, Mark
<1>15. ASSUME NEW t \in Caller, HangUp(t) PROVE Staffed'
  BY <1>15 DEF HangUp
<1>16. ASSUME NEW t \in Caller, Leave(t) PROVE Staffed'
  BY <1>16 DEF Leave
<1>17. ASSUME NEW t \in Caller, Del(t) PROVE Staffed'
  BY <1>17 DEF Del, EndsWith, CountWithout, GhostsWithout, Mark
<1>18. ASSUME NEW t \in Caller, Done(t) PROVE Staffed'
  <2> DEFINE c == conference[t]
  <2>1. c \in Conf /\ stage'[c] = stage[c] /\ stage[c] # "freed"
    BY <1>18 DEF Done
  <2>2. ASSUME stage[c] \in {"starting", "mixing"}, ~Has(c, "DESTRUCT")',
               \A u \in Caller : ~(conference[u] = c /\ pc[u] \in {"loop",
               "leaving"})
        PROVE  FALSE
    <3>1. count[c] = 0 /\ count_ghosts[c] = 0
      BY <2>1, <2>2, CountedIsInside
    <3>2. Emptied(c)
      BY <2>1, <2>2, <3>1 DEF Emptied
    <3> QED BY <1>18, <2>1, <2>2, <3>2 DEF Done, Mark
  <2> QED BY <1>18, <2>1, <2>2 DEF Done, Mark
<1>19. ASSUME NEW t \in Caller, Exit(t) PROVE Staffed'
  BY <1>19 DEF Exit
<1>20. ASSUME NEW t \in Caller, UseAfterFree(t) PROVE Staffed'
  BY <1>20 DEF UseAfterFree
<1>21. ASSUME NEW a \in Admin, AdminFind(a) PROVE Staffed'
  BY <1>21 DEF AdminFind, Found, RdLock
<1>22. ASSUME NEW a \in Admin, AdminMiss(a) PROVE Staffed'
  BY <1>22 DEF AdminMiss, UnlistDestructed
<1>23. ASSUME NEW a \in Admin, AdminKick(a) PROVE Staffed'
  BY <1>23 DEF AdminKick
<1>24. ASSUME NEW a \in Admin, AdminDone(a) PROVE Staffed'
  BY <1>24 DEF AdminDone, RdUnlock
<1>25. ASSUME NEW c \in Conf, MonitorStart(c) PROVE Staffed'
  BY <1>25 DEF MonitorStart
<1>26. ASSUME NEW c \in Conf, MonitorLost(c) PROVE Staffed'
  BY <1>26 DEF MonitorLost
<1>27. ASSUME NEW c \in Conf, MixEnds(c) PROVE Staffed'
  BY <1>27 DEF MixEnds, Mark
<1>28. ASSUME NEW c \in Conf, StopMixing(c) PROVE Staffed'
  BY <1>28 DEF StopMixing
<1>29. ASSUME NEW c \in Conf, TimerBreaks(c) PROVE Staffed'
  BY <1>29 DEF TimerBreaks, Mark
<1>30. ASSUME NEW c \in Conf, WriteFails(c) PROVE Staffed'
  BY <1>30 DEF WriteFails
<1>31. ASSUME NEW c \in Conf, Sweep(c) PROVE Staffed'
  BY <1>31 DEF Sweep, ToldToStop
<1>32. ASSUME NEW c \in Conf, Unlist(c) PROVE Staffed'
  BY <1>32 DEF Unlist
<1>33. ASSUME NEW c \in Conf, WriteLock(c) PROVE Staffed'
  BY <1>33 DEF WriteLock, Unread
<1>34. ASSUME NEW c \in Conf, Free(c) PROVE Staffed'
  BY <1>34 DEF Free
<1>35. CASE UNCHANGED vars
  BY <1>35 DEF vars
<1> QED
  BY <1>1, <1>2, <1>3, <1>4, <1>5, <1>6, <1>7, <1>8, <1>9, <1>10, <1>11, <1>12,
     <1>13, <1>14, <1>15, <1>16, <1>17, <1>18, <1>19, <1>20, <1>21, <1>22, <1>23,
         <1>24, <1>25, <1>26, <1>27, <1>28, <1>29, <1>30, <1>31, <1>32, <1>33,
             <1>34, <1>35
     DEF Next, CallerStep, AdminStep, MonitorStep, MonitorEvent

(* Every step keeps the minimum enforced: Del marks, Setup leaves a caller    *)
(* about to be added, Add raises the count.                                   *)
LEMMA MinStep == LockInv /\ CountInv /\ MinInv /\ [Next]_vars => MinInv'
<1> SUFFICES ASSUME LockInv, CountInv, MinInv, [Next]_vars PROVE MinInv'
  OBVIOUS
<1>0. \A c \in Conf : count[c] \in Nat /\ count_ghosts[c] \in Nat
  BY MembersSizes DEF LockInv, CountInv, CountersMatch
<1> USE CallersAssumption, LimitsAssumption, <1>0
    DEF LockInv, Shape, Pointers, MinInv, MinimumEnforced, Goto, At, Alive, Has,
    Advance,
        Thread, UsesConference, confVars, threadVars
<1>1. ASSUME NEW t \in Caller, Enter(t) PROVE MinInv'
  BY <1>1 DEF Enter
<1>2. ASSUME NEW t \in Caller, FindExisting(t) PROVE MinInv'
  BY <1>2 DEF FindExisting, Found, RdLock
<1>3. ASSUME NEW t \in Caller, FindNothing(t) PROVE MinInv'
  BY <1>3 DEF FindNothing, UnlistDestructed
<1>4. ASSUME NEW t \in Caller, Create(t) PROVE MinInv'
  BY <1>4 DEF Create, TableAgrees
<1>5. ASSUME NEW t \in Caller, RejectNew(t) PROVE MinInv'
  BY <1>5 DEF RejectNew
<1>6. ASSUME NEW t \in Caller, ReleaseSetup(t) PROVE MinInv'
  BY <1>6 DEF ReleaseSetup
<1>7. ASSUME NEW t \in Caller, Arm(t) PROVE MinInv'
  BY <1>7 DEF Arm, CreatorLocks, Creators
<1>8. ASSUME NEW t \in Caller, DialStart(t) PROVE MinInv'
  BY <1>8 DEF DialStart, RdLock
<1>9. ASSUME NEW t \in Caller, DialEnd(t) PROVE MinInv'
  BY <1>9 DEF DialEnd, RdUnlock
<1>10. ASSUME NEW t \in Caller, ScreenPass(t) PROVE MinInv'
  BY <1>10 DEF ScreenPass
<1>11. ASSUME NEW t \in Caller, ScreenReject(t) PROVE MinInv'
  BY <1>11 DEF ScreenReject
<1>12. ASSUME NEW t \in Caller, Setup(t) PROVE MinInv'
  BY <1>12 DEF Setup
<1>13. ASSUME NEW t \in Caller, SetupFails(t) PROVE MinInv'
  BY <1>13 DEF SetupFails
<1>14. ASSUME NEW t \in Caller, Add(t) PROVE MinInv'
  BY <1>14 DEF Add, Mark
<1>15. ASSUME NEW t \in Caller, HangUp(t) PROVE MinInv'
  BY <1>15 DEF HangUp
<1>16. ASSUME NEW t \in Caller, Leave(t) PROVE MinInv'
  BY <1>16 DEF Leave
<1>17. ASSUME NEW t \in Caller, Del(t) PROVE MinInv'
  BY <1>17 DEF Del, EndsWith, CountWithout, GhostsWithout, Mark
<1>18. ASSUME NEW t \in Caller, Done(t) PROVE MinInv'
  BY <1>18 DEF Done, Mark
<1>19. ASSUME NEW t \in Caller, Exit(t) PROVE MinInv'
  BY <1>19 DEF Exit
<1>20. ASSUME NEW t \in Caller, UseAfterFree(t) PROVE MinInv'
  BY <1>20 DEF UseAfterFree
<1>21. ASSUME NEW a \in Admin, AdminFind(a) PROVE MinInv'
  BY <1>21 DEF AdminFind, Found, RdLock
<1>22. ASSUME NEW a \in Admin, AdminMiss(a) PROVE MinInv'
  BY <1>22 DEF AdminMiss, UnlistDestructed
<1>23. ASSUME NEW a \in Admin, AdminKick(a) PROVE MinInv'
  BY <1>23 DEF AdminKick
<1>24. ASSUME NEW a \in Admin, AdminDone(a) PROVE MinInv'
  BY <1>24 DEF AdminDone, RdUnlock
<1>25. ASSUME NEW c \in Conf, MonitorStart(c) PROVE MinInv'
  BY <1>25 DEF MonitorStart
<1>26. ASSUME NEW c \in Conf, MonitorLost(c) PROVE MinInv'
  BY <1>26 DEF MonitorLost
<1>27. ASSUME NEW c \in Conf, MixEnds(c) PROVE MinInv'
  BY <1>27 DEF MixEnds, Mark
<1>28. ASSUME NEW c \in Conf, StopMixing(c) PROVE MinInv'
  BY <1>28 DEF StopMixing
<1>29. ASSUME NEW c \in Conf, TimerBreaks(c) PROVE MinInv'
  BY <1>29 DEF TimerBreaks, Mark
<1>30. ASSUME NEW c \in Conf, WriteFails(c) PROVE MinInv'
  BY <1>30 DEF WriteFails
<1>31. ASSUME NEW c \in Conf, Sweep(c) PROVE MinInv'
  BY <1>31 DEF Sweep, ToldToStop
<1>32. ASSUME NEW c \in Conf, Unlist(c) PROVE MinInv'
  BY <1>32 DEF Unlist
<1>33. ASSUME NEW c \in Conf, WriteLock(c) PROVE MinInv'
  BY <1>33 DEF WriteLock, Unread
<1>34. ASSUME NEW c \in Conf, Free(c) PROVE MinInv'
  BY <1>34 DEF Free
<1>35. CASE UNCHANGED vars
  BY <1>35 DEF vars
<1> QED
  BY <1>1, <1>2, <1>3, <1>4, <1>5, <1>6, <1>7, <1>8, <1>9, <1>10, <1>11, <1>12,
     <1>13, <1>14, <1>15, <1>16, <1>17, <1>18, <1>19, <1>20, <1>21, <1>22, <1>23,
         <1>24, <1>25, <1>26, <1>27, <1>28, <1>29, <1>30, <1>31, <1>32, <1>33,
             <1>34, <1>35
     DEF Next, CallerStep, AdminStep, MonitorStep, MonitorEvent

-----------------------------------------------------------------------------
(* The theorems.                                                              *)

\* A conference that is not marked for destruction, and whose monitor was not
\* lost to a fault, has a caller in it that will run the "done:" block.
THEOREM NobodyOrphaned == Spec => []NoOrphan
<1>1. Init => Staffed
  BY DEF Init, Staffed, Thread
<1>2. (LockInv /\ CountInv) /\ Staffed /\ [Next]_vars => Staffed'
  BY StaffedStep
<1>3. Staffed => NoOrphan
  BY DEF Staffed, WillCheck, NoOrphan, Inside, Thread
<1> QED BY <1>1, <1>2, <1>3, InvariantsHold, PTL DEF Spec

\* A conference that reached its minimum does not go on below it.
THEOREM MinimumKept == Spec => []MinimumEnforced
<1>1. Init => MinInv
  BY DEF Init, MinInv, MinimumEnforced, Has
<1>2. (LockInv /\ CountInv) /\ MinInv /\ [Next]_vars => MinInv'
  BY MinStep
<1>3. MinInv => MinimumEnforced
  BY DEF MinInv
<1> QED BY <1>1, <1>2, <1>3, InvariantsHold, PTL DEF Spec

-----------------------------------------------------------------------------
(***************************************************************************)
(* The registry of rooms                                                   *)
(***************************************************************************)

(* The two state functions of the refinement mapping.                         *)
RegState == [c \in Conf |-> RoomState(c)]
RegInside == [c \in Conf |-> {t \in LockedGuest : conference[t] = c}]

RegStep == Registry!RegNext \/ (RegState' = RegState /\ RegInside' = RegInside)

-----------------------------------------------------------------------------
(* How a pointer that is set or cleared shows in the registry.                *)

(* A pointer that is set puts the guest into the room.                        *)
LEMMA GuestEnters ==
  ASSUME Shape, NEW t \in LockedGuest, NEW r \in Conf, conference[t] = NoConf,
         conference' = [conference EXCEPT ![t] = r]
  PROVE  RegInside' = [RegInside EXCEPT ![r] = @ \cup {t}]
<1>1. ASSUME NEW c \in Conf
      PROVE  RegInside'[c] = IF c = r THEN RegInside[c] \cup {t} ELSE RegInside[c]
  BY LimitsAssumption DEF RegInside, LockedGuest, Shape
<1>2. RegInside' = [c \in Conf |-> RegInside'[c]]
  BY DEF RegInside
<1>3. [RegInside EXCEPT ![r] = @ \cup {t}] =
        [c \in Conf |-> IF c = r THEN RegInside[c] \cup {t} ELSE RegInside[c]]
  BY DEF RegInside
<1> QED BY ONLY <1>1, <1>2, <1>3

(* A pointer that is cleared takes the guest out of the room.                 *)
LEMMA GuestParts ==
  ASSUME Shape, NEW t \in LockedGuest, NEW r \in Conf, conference[t] = r,
         conference' = [conference EXCEPT ![t] = NoConf]
  PROVE  RegInside' = [RegInside EXCEPT ![r] = @ \ {t}]
<1>1. ASSUME NEW c \in Conf
      PROVE  RegInside'[c] = IF c = r THEN RegInside[c] \ {t} ELSE RegInside[c]
  BY LimitsAssumption DEF RegInside, LockedGuest, Shape
<1>2. RegInside' = [c \in Conf |-> RegInside'[c]]
  BY DEF RegInside
<1>3. [RegInside EXCEPT ![r] = @ \ {t}] =
        [c \in Conf |-> IF c = r THEN RegInside[c] \ {t} ELSE RegInside[c]]
  BY DEF RegInside
<1> QED BY ONLY <1>1, <1>2, <1>3

(* The registry does not see the "bridge:" callers.                           *)
LEMMA OthersUnseen ==
  ASSUME Shape, \A t \in LockedGuest : conference'[t] = conference[t]
  PROVE  RegInside' = RegInside
BY DEF RegInside

(* The name's object is the listed room; it is alive.                         *)
LEMMA NameListed ==
  ASSUME Shape, TableAgrees, conference_hash # NoConf
  PROVE  /\ conference_hash \in Conf
         /\ RegState[conference_hash] = "listed"
         /\ stage[conference_hash] \in Listable
BY DEF Shape, TableAgrees, RegState, RoomState, Listable

(* Taking the name off an object closes its room, when nothing else moves.    *)
LEMMA NameTaken ==
  ASSUME Shape, TableAgrees, conference_hash # NoConf, conference_hash' = NoConf,
         RegInside' = RegInside,
         \A c \in Conf : (stage'[c] = "unborn" <=> stage[c] = "unborn")
                         /\ (stage'[c] = "freed" <=> stage[c] = "freed")
  PROVE  Registry!RegNext
<1> DEFINE r == conference_hash
<1>1. r \in Conf /\ RegState[r] = "listed" /\ stage[r] \in Listable
  BY NameListed
<1>2. ASSUME NEW c \in Conf
      PROVE  RegState'[c] = IF c = r THEN "unlisted" ELSE RegState[c]
  BY <1>1, LimitsAssumption DEF RegState, RoomState, Listable
<1>3. RegState' = [RegState EXCEPT ![r] = "unlisted"]
  BY <1>1, <1>2 DEF RegState
<1>4. Registry!Close(r)
  BY <1>1, <1>3 DEF Registry!Close, RegState, RegInside
<1> QED BY <1>1, <1>4 DEF Registry!RegNext

(* A guest comes in through the name, and leaves.                             *)
LEMMA GuestJoins ==
  ASSUME LockInv, NEW t \in LockedGuest, conference_hash # NoConf,
         conference[t] = NoConf,
         conference' = [conference EXCEPT ![t] = conference_hash],
         RegState' = RegState
  PROVE  Registry!RegNext
<1> PICK r \in Conf : r = conference_hash
  BY NameListed DEF LockInv
<1>1. RegState[r] = "listed"
  BY NameListed DEF LockInv
<1>2. RegInside' = [RegInside EXCEPT ![r] = @ \cup {t}]
  BY <1>1, GuestEnters DEF LockInv
<1>3. \A c \in Conf : t \notin RegInside[c]
  BY LimitsAssumption DEF RegInside
<1>4. Registry!Join(t, r)
  BY <1>1, <1>2, <1>3 DEF Registry!Join, Registry!Free, RegState, RegInside
<1> QED BY <1>4 DEF Registry!RegNext

(* A guest that clears its pointer leaves its room.                           *)
LEMMA GuestLeaves ==
  ASSUME LockInv, NEW t \in LockedGuest, conference[t] \in Conf,
         conference' = [conference EXCEPT ![t] = NoConf],
         RegState' = RegState
  PROVE  Registry!RegNext
<1> PICK r \in Conf : r = conference[t]
  OBVIOUS
<1>1. RegInside' = [RegInside EXCEPT ![r] = @ \ {t}]
  BY GuestParts DEF LockInv
<1>2. t \in RegInside[r]
  BY DEF RegInside
<1>3. Registry!Part(t, r)
  BY <1>1, <1>2 DEF Registry!Part, RegState, RegInside
<1> QED BY <1>3 DEF Registry!RegNext

(* conference_new opens a room; nobody else is listed, setup_mutex is held.   *)
LEMMA CreateOpens == ASSUME LockInv, NEW t \in Caller,
    Create(t) PROVE Registry!RegNext
<1>1. PICK c \in Conf : /\ stage[c] = "unborn"
                        /\ stage' = [stage EXCEPT ![c] = "created"]
                        /\ conference_hash' = c
                        /\ conference' = [conference EXCEPT ![t] = c]
  BY DEF Create
<1>2. conference_hash = NoConf /\ conference[t] = NoConf /\ t \in Thread
  BY DEF Create, LockInv, SetupHeld, Pointers, Thread
<1>3. ASSUME NEW d \in Conf
      PROVE  RegState'[d] = IF d = c THEN "listed" ELSE RegState[d]
  BY <1>1, <1>2, LimitsAssumption DEF RegState, RoomState, LockInv, Shape
<1>4. RegState' = [RegState EXCEPT ![c] = "listed"]
  BY <1>3 DEF RegState
<1>5. RegState[c] = "unborn" /\ \A d \in Conf : RegState[d] # "listed"
  BY <1>1, <1>2, LimitsAssumption DEF RegState, RoomState
<1>6. CASE t \in BridgeCaller
  <2>1. RegInside' = RegInside
    BY <1>1, <1>6, OthersUnseen DEF LockInv, Shape, LockedGuest
  <2>2. Registry!Open(c)
    BY <1>4, <1>5, <2>1 DEF Registry!Open, RegState, RegInside
  <2> QED BY <2>2 DEF Registry!RegNext
<1>7. CASE t \notin BridgeCaller
  <2>1. t \in LockedGuest
    BY <1>2, <1>7 DEF LockedGuest
  <2>2. \A d \in Conf : t \notin RegInside[d]
    BY <1>2, LimitsAssumption DEF RegInside
  <2>3. RegInside[c] = {}
    BY <1>1, LimitsAssumption DEF RegInside, LockInv, Pointers, LockedGuest
  <2>4. RegInside' = [RegInside EXCEPT ![c] = {t}]
    BY <1>1, <1>2, <2>1, <2>3, GuestEnters DEF LockInv
  <2>5. Registry!Open(c)
    BY <1>4, <1>5, <2>1, <2>2, <2>4 DEF Registry!Open, Registry!Free, RegState,
       RegInside
  <2> QED BY <2>5 DEF Registry!RegNext
<1> QED BY <1>6, <1>7

(* The pool goes only when every guest has gone: past the write lock nobody   *)
(* holds a read lock, and every guest holds one.                              *)
LEMMA FreeVanishes == ASSUME LockInv, NEW c \in Conf,
    Free(c) PROVE Registry!RegNext
<1>1. stage[c] = "draining" /\ stage' = [stage EXCEPT ![c] = "freed"]
  BY DEF Free, Advance
<1>2. RegState[c] = "unlisted"
  BY <1>1 DEF RegState, RoomState, LockInv, TableAgrees, Listable
<1>3. RegInside[c] = {}
  BY <1>1, LimitsAssumption
     DEF RegInside, LockInv, ReadersHold, Drained, Creators, Pointers,
     LockedGuest,
         Thread, AdminPc
<1>4. ASSUME NEW d \in Conf
      PROVE  RegState'[d] = IF d = c THEN "gone" ELSE RegState[d]
  BY <1>1 DEF RegState, RoomState, Free, LockInv, Shape
<1>5. RegState' = [RegState EXCEPT ![c] = "gone"]
  BY <1>4 DEF RegState
<1>6. RegInside' = RegInside
  BY OthersUnseen DEF Free, threadVars, LockInv
<1>7. Registry!Vanish(c)
  BY <1>2, <1>3, <1>5, <1>6 DEF Registry!Vanish, RegState, RegInside
<1> QED BY <1>7 DEF Registry!RegNext

-----------------------------------------------------------------------------
(* The lifecycle starts where the registry does.                              *)
LEMMA RegistryInit == Init => Registry!RegInit
BY LimitsAssumption DEF Init, Registry!RegInit, RoomState, LockedGuest, Thread

(* Each step of the code is a step of the registry, or one it does not see.   *)
LEMMA RegistryStep == LockInv /\ [Next]_vars => RegStep
<1> SUFFICES ASSUME LockInv, [Next]_vars PROVE RegStep
  OBVIOUS
<1> USE DEF RegStep, Goto
<1>1. ASSUME NEW t \in Caller, Enter(t) PROVE RegStep
  BY <1>1 DEF Enter, confVars, threadVars, RegState, RegInside, RoomState
<1>2. ASSUME NEW t \in Caller, FindExisting(t) PROVE RegStep
  <2>1. /\ conference_hash # NoConf /\ conference[t] = NoConf /\ t \in Thread
        /\ conference' = [conference EXCEPT ![t] = conference_hash]
        /\ RegState' = RegState
    BY <1>2 DEF FindExisting, Found, LockInv, Pointers, Thread, RegState,
       RoomState
  <2>2. CASE t \in BridgeCaller
    BY <2>1, <2>2, OthersUnseen DEF LockInv, Shape, LockedGuest
  <2>3. CASE t \notin BridgeCaller
    BY <2>1, <2>3, GuestJoins DEF LockedGuest
  <2> QED BY <2>2, <2>3
<1>3. ASSUME NEW t \in Caller, FindNothing(t) PROVE RegStep
  <2>1. RegInside' = RegInside
    BY <1>3 DEF FindNothing, RegInside
  <2>2. CASE conference_hash = NoConf
    BY <1>3, <2>1, <2>2 DEF FindNothing, UnlistDestructed, RegState, RoomState
  <2>3. CASE conference_hash # NoConf
    BY <1>3, <2>1, <2>3, NameTaken DEF FindNothing, UnlistDestructed, LockInv
  <2> QED BY <2>2, <2>3
<1>4. ASSUME NEW t \in Caller, Create(t) PROVE RegStep
  BY <1>4, CreateOpens
<1>5. ASSUME NEW t \in Caller, RejectNew(t) PROVE RegStep
  BY <1>5 DEF RejectNew, confVars, threadVars, RegState, RegInside, RoomState
<1>6. ASSUME NEW t \in Caller, ReleaseSetup(t) PROVE RegStep
  BY <1>6 DEF ReleaseSetup, confVars, threadVars, RegState, RegInside, RoomState
<1>7. ASSUME NEW t \in Caller, Arm(t) PROVE RegStep
  <2>1. stage[conference[t]] = "created"
    BY <1>7 DEF Arm, At, LockInv, Creators
  <2> QED BY <1>7, <2>1 DEF Arm, RegState, RegInside, RoomState, LockInv, Shape
<1>8. ASSUME NEW t \in Caller, DialStart(t) PROVE RegStep
  BY <1>8 DEF DialStart, confVars, threadVars, RegState, RegInside, RoomState
<1>9. ASSUME NEW t \in Caller, DialEnd(t) PROVE RegStep
  BY <1>9 DEF DialEnd, confVars, threadVars, RegState, RegInside, RoomState
<1>10. ASSUME NEW t \in Caller, ScreenPass(t) PROVE RegStep
  BY <1>10 DEF ScreenPass, confVars, threadVars, RegState, RegInside, RoomState
<1>11. ASSUME NEW t \in Caller, ScreenReject(t) PROVE RegStep
  BY <1>11 DEF ScreenReject, confVars, threadVars, RegState, RegInside, RoomState
<1>12. ASSUME NEW t \in Caller, Setup(t) PROVE RegStep
  BY <1>12 DEF Setup, confVars, threadVars, RegState, RegInside, RoomState
<1>13. ASSUME NEW t \in Caller, SetupFails(t) PROVE RegStep
  BY <1>13 DEF SetupFails, confVars, threadVars, RegState, RegInside, RoomState
<1>14. ASSUME NEW t \in Caller, Add(t) PROVE RegStep
  BY <1>14 DEF Add, confVars, threadVars, RegState, RegInside, RoomState
<1>15. ASSUME NEW t \in Caller, HangUp(t) PROVE RegStep
  BY <1>15 DEF HangUp, confVars, threadVars, RegState, RegInside, RoomState
<1>16. ASSUME NEW t \in Caller, Leave(t) PROVE RegStep
  BY <1>16 DEF Leave, confVars, threadVars, RegState, RegInside, RoomState
<1>17. ASSUME NEW t \in Caller, Del(t) PROVE RegStep
  BY <1>17 DEF Del, confVars, threadVars, RegState, RegInside, RoomState
<1>18. ASSUME NEW t \in Caller, Done(t) PROVE RegStep
  BY <1>18 DEF Done, confVars, threadVars, RegState, RegInside, RoomState
<1>19. ASSUME NEW t \in Caller, Exit(t) PROVE RegStep
  <2>1. /\ conference' = [conference EXCEPT ![t] = NoConf]
        /\ RegState' = RegState
        /\ t \in Thread /\ conference \in [Thread -> Conf \cup {NoConf}]
    BY <1>19 DEF Exit, RegState, RoomState, LockInv, Shape, Thread
  <2>2. CASE t \in LockedGuest /\ conference[t] # NoConf
    BY <2>1, <2>2, GuestLeaves
  <2>3. CASE t \notin LockedGuest \/ conference[t] = NoConf
    BY <2>1, <2>3, OthersUnseen DEF LockInv, LockedGuest
  <2> QED BY <2>2, <2>3
<1>20. ASSUME NEW t \in Caller, UseAfterFree(t) PROVE RegStep
  BY <1>20 DEF UseAfterFree, confVars, threadVars, RegState, RegInside, RoomState
<1>21. ASSUME NEW a \in Admin, AdminFind(a) PROVE RegStep
  <2>1. /\ conference_hash # NoConf /\ conference[a] = NoConf
        /\ conference' = [conference EXCEPT ![a] = conference_hash]
        /\ RegState' = RegState
    BY <1>21 DEF AdminFind, Found, LockInv, Pointers, RegState, RoomState
  <2>2. a \in LockedGuest
    BY CallersAssumption DEF LockedGuest, Thread
  <2> QED BY <2>1, <2>2, GuestJoins
<1>22. ASSUME NEW a \in Admin, AdminMiss(a) PROVE RegStep
  <2>1. RegInside' = RegInside
    BY <1>22 DEF AdminMiss, threadVars, RegInside
  <2> QED BY <1>22, <2>1, NameTaken DEF AdminMiss, UnlistDestructed, LockInv
<1>23. ASSUME NEW a \in Admin, AdminKick(a) PROVE RegStep
  BY <1>23 DEF AdminKick, confVars, threadVars, RegState, RegInside, RoomState
<1>24. ASSUME NEW a \in Admin, AdminDone(a) PROVE RegStep
  <2>1. /\ conference' = [conference EXCEPT ![a] = NoConf]
        /\ RegState' = RegState
        /\ conference[a] \in Conf
    BY <1>24 DEF AdminDone, RegState, RoomState, LockInv, Shape, Pointers, Thread
  <2>2. a \in LockedGuest
    BY CallersAssumption DEF LockedGuest, Thread
  <2> QED BY <2>1, <2>2, GuestLeaves
<1>25. ASSUME NEW c \in Conf, MonitorStart(c) PROVE RegStep
  BY <1>25 DEF MonitorStart, confVars, threadVars, RegState, RegInside,
     RoomState, Advance, LockInv, Shape
<1>26. ASSUME NEW c \in Conf, MonitorLost(c) PROVE RegStep
  BY <1>26 DEF MonitorLost, confVars, threadVars, RegState, RegInside, RoomState,
     Advance, LockInv, Shape
<1>27. ASSUME NEW c \in Conf, MixEnds(c) PROVE RegStep
  BY <1>27 DEF MixEnds, confVars, threadVars, RegState, RegInside, RoomState
<1>28. ASSUME NEW c \in Conf, StopMixing(c) PROVE RegStep
  BY <1>28 DEF StopMixing, confVars, threadVars, RegState, RegInside, RoomState,
     Advance, LockInv, Shape
<1>29. ASSUME NEW c \in Conf, TimerBreaks(c) PROVE RegStep
  BY <1>29 DEF TimerBreaks, confVars, threadVars, RegState, RegInside, RoomState,
     Advance, LockInv, Shape
<1>30. ASSUME NEW c \in Conf, WriteFails(c) PROVE RegStep
  BY <1>30 DEF WriteFails, confVars, threadVars, RegState, RegInside, RoomState,
     Advance, LockInv, Shape
<1>31. ASSUME NEW c \in Conf, Sweep(c) PROVE RegStep
  BY <1>31 DEF Sweep, confVars, threadVars, RegState, RegInside, RoomState,
     Advance, LockInv, Shape
<1>32. ASSUME NEW c \in Conf, Unlist(c) PROVE RegStep
  <2>1. RegInside' = RegInside
    BY <1>32 DEF Unlist, threadVars, RegInside
  <2>2. \A d \in Conf : (stage'[d] = "unborn" <=> stage[d] = "unborn")
                        /\ (stage'[d] = "freed" <=> stage[d] = "freed")
    BY <1>32 DEF Unlist, Advance, LockInv, Shape
  <2>3. CASE conference_hash' = conference_hash
    BY <2>1, <2>2, <2>3 DEF RegState, RoomState
  <2>4. CASE conference_hash' # conference_hash
    BY <1>32, <2>1, <2>2, <2>4, NameTaken DEF Unlist, LockInv
  <2> QED BY <2>3, <2>4
<1>33. ASSUME NEW c \in Conf, WriteLock(c) PROVE RegStep
  BY <1>33 DEF WriteLock, confVars, threadVars, RegState, RegInside, RoomState,
     Advance, LockInv, Shape
<1>34. ASSUME NEW c \in Conf, Free(c) PROVE RegStep
  BY <1>34, FreeVanishes
<1>35. CASE UNCHANGED vars
  BY <1>35 DEF vars, RegState, RegInside, RoomState
<1> QED
  BY <1>1, <1>2, <1>3, <1>4, <1>5, <1>6, <1>7, <1>8, <1>9, <1>10, <1>11, <1>12,
     <1>13, <1>14, <1>15, <1>16, <1>17, <1>18, <1>19, <1>20, <1>21, <1>22, <1>23,
         <1>24, <1>25, <1>26, <1>27, <1>28, <1>29, <1>30, <1>31, <1>32, <1>33,
             <1>34, <1>35
     DEF Next, CallerStep, AdminStep, MonitorStep, MonitorEvent

\* Every behaviour of the lifecycle is one RoomRegistry allows: a caller let in
\* by name gets the one listed conference, and the object stays until it leaves.
THEOREM ImplementsRegistry == Spec => KeepsRegistryPromise
<1>1. LockInv /\ [Next]_vars => [Registry!RegNext]_(Registry!regVars)
  BY RegistryStep DEF RegStep, RegState, RegInside, Registry!regVars
<1>2. Spec => []LockInv
  BY InvariantsHold, PTL
<1> QED BY RegistryInit, <1>1, <1>2, PTL
           DEF Spec, KeepsRegistryPromise, Registry!RegSpec
=============================================================================
