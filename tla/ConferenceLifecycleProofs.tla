---------------------- MODULE ConferenceLifecycleProofs ----------------------
(***************************************************************************)
(* Proofs about ConferenceLifecycle, for any callers, API threads and      *)
(* conference objects.  Two inductive invariants, the second relative to   *)
(* the first: LockInv relates program counters, pointers, the name table   *)
(* and the read locks; CountInv relates the member list to the counters.   *)
(***************************************************************************)
EXTENDS ConferenceLifecycle, Integers, FiniteSetTheorems, TLAPS

(* TypeOK with the counters left free: that they never go below zero needs    *)
(* CountInv.                                                                  *)
Shape ==
  /\ setup_mutex \in Caller \cup {NoThread}
  /\ conference_hash \in Conf \cup {NoConf}
  /\ stage \in [Conf -> Stage]
  /\ cflags \in [Conf -> SUBSET Cflag]
  /\ min \in [Conf -> 0 .. 2]
  /\ count \in [Conf -> Int]
  /\ count_ghosts \in [Conf -> Int]
  /\ end_count \in [Conf -> Int]
  /\ endconference_time \in [Conf -> BOOLEAN]
  /\ members \in [Conf -> SUBSET Caller]
  /\ rwlock \in [Conf -> SUBSET Thread]
  /\ pc \in [Thread -> CallerPc \cup AdminPc]
  /\ conference \in [Thread -> Conf \cup {NoConf}]
  /\ running \in [Caller -> BOOLEAN]

(* Where a thread holds a conference pointer, and of which object.            *)
Pointers ==
  /\ \A t \in Caller :
       /\ pc[t] \in CallerPc
       /\ pc[t] \in {"out", "find", "new"} => conference[t] = NoConf
       /\ pc[t] \in UsesConference \cup {"undefined"} => conference[t] # NoConf
       /\ pc[t] \in {"dial", "dialing"} => t \in BridgeCaller
       /\ pc[t] = "refused" /\ t \notin BridgeCaller => conference[t] = NoConf
  /\ \A a \in Admin :
       /\ pc[a] \in AdminPc
       /\ pc[a] = "inside" <=> conference[a] # NoConf
  /\ \A t \in Thread : conference[t] # NoConf => stage[conference[t]] # "unborn"

(* setup_mutex is held from Enter to Create or ReleaseSetup.                  *)
SetupHeld ==
  \A t \in Caller :
    /\ pc[t] \in {"find", "new", "refused"} <=> setup_mutex = t
    /\ pc[t] = "new" => conference_hash = NoConf

(* One creator arms a conference, before any monitor runs.                    *)
Creators ==
  /\ \A t \in Caller : pc[t] = "arm" => stage[conference[t]] = "created"
  /\ \A t, u \in Caller :
       pc[t] = "arm" /\ pc[u] = "arm" /\ conference[t] = conference[u] => t = u

(* A guest holds the read lock of its conference, but for the creator that    *)
(* has not armed it yet; past the write lock no guest has it.                 *)
ReadersHold ==
  \A t \in LockedGuest :
    conference[t] # NoConf /\ pc[t] # "arm" => t \in rwlock[conference[t]]

Drained ==
  \A c \in Conf : stage[c] \in {"draining",
      "freed"} => rwlock[c] \cap LockedGuest = {}

LockInv ==
  Shape /\ Pointers /\ SetupHeld /\ Creators /\ ReadersHold /\ Drained /\ TableAgrees

(* A member is a caller in its loop or leaving it, or one that came to use a  *)
(* conference that was destroyed under it.                                    *)
MembersInside ==
  \A c \in Conf, t \in Caller :
    /\ pc[t] \in {"loop", "leaving"} /\ conference[t] = c => t \in members[c]
    /\ t \in members[c] =>
         conference[t] = c /\ pc[t] \in {"loop", "leaving", "undefined"}

CountInv == MembersInside /\ CountersMatch

-----------------------------------------------------------------------------
(* LockInv is inductive.  Initially there is no object and nobody in one.     *)
LEMMA LockInit == Init => LockInv
BY CallersAssumption, LimitsAssumption
   DEF Init, LockInv, Shape, Pointers, SetupHeld, Creators, ReadersHold, Drained,
       TableAgrees, Has, Thread, LockedGuest, Listable, Stage, CallerPc, AdminPc,
       UsesConference

(* A caller about to be added points at a conference.                         *)
LEMMA AddPoints ==
  ASSUME Shape, Pointers, NEW t \in Caller, Add(t)
  PROVE  pc[t] = "adding" /\ conference[t] \in Conf
<1>1. pc[t] = "adding" /\ t \in Thread
  BY DEF Add, At, Thread
<1>2. conference[t] # NoConf
  BY ONLY <1>1, t \in Caller, Pointers DEF Pointers, UsesConference
<1>3. conference[t] \in Conf \cup {NoConf}
  BY ONLY <1>1, Shape DEF Shape
<1> QED BY <1>1, <1>2, <1>3

(* Every step keeps it.  The steps that move a pointer, a lock or the name    *)
(* are split by the conjunct; the others go in one piece.                     *)
LEMMA LockStep == LockInv /\ [Next]_vars => LockInv'
<1> SUFFICES ASSUME LockInv, [Next]_vars PROVE LockInv'
  OBVIOUS
<1> USE CallersAssumption, LimitsAssumption
    DEF LockInv, Shape, Goto, At, Alive, Has, Advance, Thread, LockedGuest,
        confVars, threadVars
<1>1. ASSUME NEW t \in Caller, Enter(t) PROVE LockInv'
  BY <1>1 DEF Enter, Pointers, SetupHeld, Creators, ReadersHold, Drained,
     TableAgrees, Listable, Stage, Cflag, CallerPc, AdminPc, UsesConference
<1>2. ASSUME NEW t \in Caller, FindExisting(t) PROVE LockInv'
  <2>1. Shape'
    BY <1>2 DEF FindExisting, Found, RdLock, Cflag, Stage, CallerPc, AdminPc
  <2>2. Pointers'
    BY <1>2 DEF FindExisting, Found, RdLock, Pointers, CallerPc, AdminPc,
       UsesConference, TableAgrees, Listable
  <2>3. SetupHeld'
    BY <1>2 DEF FindExisting, Found, RdLock, Pointers, SetupHeld, UsesConference
  <2>4. Creators'
    BY <1>2 DEF FindExisting, Found, RdLock, Pointers, Creators, UsesConference
  <2>5. ReadersHold'
    BY <1>2 DEF FindExisting, Found, RdLock, Pointers, ReadersHold, UsesConference
  <2>6. Drained'
    BY <1>2 DEF FindExisting, Found, RdLock, Pointers, ReadersHold, Drained,
       TableAgrees, Listable
  <2>7. TableAgrees'
    BY <1>2 DEF FindExisting, Found, RdLock, SetupHeld, TableAgrees, Listable
  <2> QED BY <2>1, <2>2, <2>3, <2>4, <2>5, <2>6, <2>7
<1>3. ASSUME NEW t \in Caller, FindNothing(t) PROVE LockInv'
  <2>1. Shape'
    BY <1>3 DEF FindNothing, UnlistDestructed, Cflag, Stage, CallerPc, AdminPc
  <2>2. Pointers'
    BY <1>3 DEF FindNothing, UnlistDestructed, Pointers, CallerPc, AdminPc,
       UsesConference
  <2>3. SetupHeld'
    BY <1>3 DEF FindNothing, UnlistDestructed, Pointers, SetupHeld, UsesConference
  <2>4. Creators'
    BY <1>3 DEF FindNothing, UnlistDestructed, Pointers, Creators, UsesConference
  <2>5. ReadersHold'
    BY <1>3 DEF FindNothing, UnlistDestructed, Pointers, ReadersHold,
       UsesConference
  <2>6. Drained'
    BY <1>3 DEF FindNothing, UnlistDestructed, Pointers, ReadersHold, Drained
  <2>7. TableAgrees'
    BY <1>3 DEF FindNothing, UnlistDestructed, SetupHeld, TableAgrees, Listable
  <2> QED BY <2>1, <2>2, <2>3, <2>4, <2>5, <2>6, <2>7
<1>4. ASSUME NEW t \in Caller, Create(t) PROVE LockInv'
  <2>1. Shape'
    BY <1>4 DEF Create, Cflag, Stage, CallerPc, AdminPc
  <2>2. Pointers'
    BY <1>4 DEF Create, Pointers, CallerPc, AdminPc, UsesConference
  <2>3. SetupHeld'
    BY <1>4 DEF Create, Pointers, SetupHeld, UsesConference
  <2>4. Creators'
    BY <1>4 DEF Create, Pointers, Creators, UsesConference
  <2>5. ReadersHold'
    BY <1>4 DEF Create, Pointers, ReadersHold, UsesConference
  <2>6. Drained'
    BY <1>4 DEF Create, Pointers, ReadersHold, Drained
  <2>7. TableAgrees'
    BY <1>4 DEF Create, SetupHeld, TableAgrees, Listable
  <2> QED BY <2>1, <2>2, <2>3, <2>4, <2>5, <2>6, <2>7
<1>5. ASSUME NEW t \in Caller, RejectNew(t) PROVE LockInv'
  BY <1>5 DEF RejectNew, Pointers, SetupHeld, Creators, ReadersHold, Drained,
     TableAgrees, Listable, Stage, Cflag, CallerPc, AdminPc, UsesConference
<1>6. ASSUME NEW t \in Caller, ReleaseSetup(t) PROVE LockInv'
  <2>1. Shape'
    BY <1>6 DEF ReleaseSetup, Cflag, Stage, CallerPc, AdminPc
  <2>2. Pointers'
    BY <1>6 DEF ReleaseSetup, Pointers, CallerPc, AdminPc, UsesConference
  <2>3. SetupHeld'
    BY <1>6 DEF ReleaseSetup, Pointers, SetupHeld, UsesConference
  <2>4. Creators'
    BY <1>6 DEF ReleaseSetup, Pointers, Creators, UsesConference
  <2>5. ReadersHold'
    BY <1>6 DEF ReleaseSetup, Pointers, ReadersHold, UsesConference
  <2>6. Drained'
    BY <1>6 DEF ReleaseSetup, Pointers, ReadersHold, Drained
  <2>7. TableAgrees'
    BY <1>6 DEF ReleaseSetup, SetupHeld, TableAgrees, Listable
  <2> QED BY <2>1, <2>2, <2>3, <2>4, <2>5, <2>6, <2>7
<1>7. ASSUME NEW t \in Caller, Arm(t) PROVE LockInv'
  <2>1. Shape'
    BY <1>7 DEF Arm, CreatorLocks, RdLock, Cflag, Stage, CallerPc, AdminPc,
       Pointers, UsesConference
  <2>2. Pointers'
    BY <1>7 DEF Arm, CreatorLocks, RdLock, Pointers, CallerPc, AdminPc,
       UsesConference
  <2>3. SetupHeld'
    BY <1>7 DEF Arm, CreatorLocks, RdLock, Pointers, SetupHeld, UsesConference
  <2>4. Creators'
    BY <1>7 DEF Arm, CreatorLocks, RdLock, Pointers, Creators, UsesConference
  <2>5. ReadersHold'
    BY <1>7 DEF Arm, CreatorLocks, RdLock, Pointers, ReadersHold, UsesConference
  <2>6. Drained'
    BY <1>7 DEF Arm, CreatorLocks, RdLock, Pointers, ReadersHold, Drained
  <2>7. TableAgrees'
    BY <1>7 DEF Arm, CreatorLocks, RdLock, SetupHeld, TableAgrees, Listable,
       Pointers, Creators, UsesConference
  <2> QED BY <2>1, <2>2, <2>3, <2>4, <2>5, <2>6, <2>7
<1>8. ASSUME NEW t \in Caller, DialStart(t) PROVE LockInv'
  BY <1>8 DEF DialStart, RdLock, Pointers, SetupHeld, Creators, ReadersHold,
     Drained,
     TableAgrees, Listable, Stage, Cflag, CallerPc, AdminPc, UsesConference
<1>9. ASSUME NEW t \in Caller, DialEnd(t) PROVE LockInv'
  <2>1. Shape'
    BY <1>9 DEF DialEnd, RdUnlock, Cflag, Stage, CallerPc, AdminPc
  <2>2. Pointers'
    BY <1>9 DEF DialEnd, RdUnlock, Pointers, CallerPc, AdminPc, UsesConference
  <2>3. SetupHeld'
    BY <1>9 DEF DialEnd, RdUnlock, Pointers, SetupHeld, UsesConference
  <2>4. Creators'
    BY <1>9 DEF DialEnd, RdUnlock, Pointers, Creators, UsesConference
  <2>5. ReadersHold'
    BY <1>9 DEF DialEnd, RdUnlock, Pointers, ReadersHold, UsesConference
  <2>6. Drained'
    BY <1>9 DEF DialEnd, RdUnlock, Pointers, ReadersHold, Drained
  <2>7. TableAgrees'
    BY <1>9 DEF DialEnd, RdUnlock, SetupHeld, TableAgrees, Listable
  <2> QED BY <2>1, <2>2, <2>3, <2>4, <2>5, <2>6, <2>7
<1>10. ASSUME NEW t \in Caller, ScreenPass(t) PROVE LockInv'
  BY <1>10 DEF ScreenPass, Pointers, SetupHeld, Creators, ReadersHold, Drained,
     TableAgrees, Listable, Stage, Cflag, CallerPc, AdminPc, UsesConference
<1>11. ASSUME NEW t \in Caller, ScreenReject(t) PROVE LockInv'
  BY <1>11 DEF ScreenReject, Pointers, SetupHeld, Creators, ReadersHold, Drained,
     TableAgrees, Listable, Stage, Cflag, CallerPc, AdminPc, UsesConference
<1>12. ASSUME NEW t \in Caller, Setup(t) PROVE LockInv'
  BY <1>12 DEF Setup, Pointers, SetupHeld, Creators, ReadersHold, Drained,
     TableAgrees, Listable, Stage, Cflag, CallerPc, AdminPc, UsesConference
<1>13. ASSUME NEW t \in Caller, SetupFails(t) PROVE LockInv'
  <2>1. Shape'
    BY <1>13 DEF SetupFails, Stage, Cflag, CallerPc, AdminPc
  <2>2. Pointers'
    BY <1>13 DEF SetupFails, Pointers, CallerPc, AdminPc,
       UsesConference
  <2>3. SetupHeld'
    BY <1>13 DEF SetupFails, Pointers, SetupHeld, UsesConference
  <2>4. Creators'
    BY <1>13 DEF SetupFails, Pointers, Creators, UsesConference
  <2>5. ReadersHold'
    BY <1>13 DEF SetupFails, Pointers, ReadersHold,
       UsesConference
  <2>6. Drained'
    BY <1>13 DEF SetupFails, Pointers, ReadersHold, Drained
  <2>7. TableAgrees'
    BY <1>13 DEF SetupFails, SetupHeld, TableAgrees, Listable
  <2> QED BY <2>1, <2>2, <2>3, <2>4, <2>5, <2>6, <2>7
<1>14. ASSUME NEW t \in Caller, Add(t) PROVE LockInv'
  <2>1. Shape'
    <3>1. conference[t] \in Conf
      BY <1>14, AddPoints
    <3>2. cflags' \in [Conf -> SUBSET Cflag]
      BY <1>14, <3>1 DEF Add, Mark, Cflag
    <3>3. /\ count' \in [Conf -> Int] /\ count_ghosts' \in [Conf -> Int]
          /\ end_count' \in [Conf -> Int]
      BY <1>14, <3>1 DEF Add
    <3>4. endconference_time' \in [Conf -> BOOLEAN] /\ members' \in [Conf -> SUBSET Caller]
      BY <1>14, <3>1 DEF Add
    <3>5. pc' \in [Thread -> CallerPc \cup AdminPc] /\ running' \in [Caller -> BOOLEAN]
      BY <1>14, <3>1 DEF Add, CallerPc
    <3>6. UNCHANGED <<setup_mutex, conference_hash, stage, min, rwlock, conference>>
      BY <1>14 DEF Add
    <3> QED BY <3>2, <3>3, <3>4, <3>5, <3>6
  <2>2. Pointers'
    BY <1>14 DEF Add, Mark, Pointers, CallerPc, AdminPc,
       UsesConference
  <2>3. SetupHeld'
    BY <1>14 DEF Add, Mark, Pointers, SetupHeld, UsesConference
  <2>4. Creators'
    BY <1>14 DEF Add, Mark, Pointers, Creators, UsesConference
  <2>5. ReadersHold'
    BY <1>14 DEF Add, Mark, Pointers, ReadersHold,
       UsesConference
  <2>6. Drained'
    BY <1>14 DEF Add, Mark, Pointers, ReadersHold, Drained
  <2>7. TableAgrees'
    BY <1>14 DEF Add, Mark, SetupHeld, TableAgrees, Listable
  <2> QED BY <2>1, <2>2, <2>3, <2>4, <2>5, <2>6, <2>7
<1>15. ASSUME NEW t \in Caller, HangUp(t) PROVE LockInv'
  BY <1>15 DEF HangUp, Pointers, SetupHeld, Creators, ReadersHold, Drained,
     TableAgrees, Listable, Stage, Cflag, CallerPc, AdminPc, UsesConference
<1>16. ASSUME NEW t \in Caller, Leave(t) PROVE LockInv'
  BY <1>16 DEF Leave, Pointers, SetupHeld, Creators, ReadersHold, Drained,
     TableAgrees, Listable, Stage, Cflag, CallerPc, AdminPc, UsesConference
<1>17. ASSUME NEW t \in Caller, Del(t) PROVE LockInv'
  BY <1>17 DEF Del, EndsWith, CountWithout, GhostsWithout, Mark, Pointers,
     SetupHeld, Creators, ReadersHold, Drained,
     TableAgrees, Listable, Stage, Cflag, CallerPc, AdminPc, UsesConference
<1>18. ASSUME NEW t \in Caller, Done(t) PROVE LockInv'
  BY <1>18 DEF Done, Mark, Pointers, SetupHeld, Creators, ReadersHold, Drained,
     TableAgrees, Listable, Stage, Cflag, CallerPc, AdminPc, UsesConference
<1>19. ASSUME NEW t \in Caller, Exit(t) PROVE LockInv'
  <2>1. Shape'
    BY <1>19 DEF Exit, Cflag, Stage, CallerPc, AdminPc
  <2>2. Pointers'
    BY <1>19 DEF Exit, Pointers, CallerPc, AdminPc, UsesConference
  <2>3. SetupHeld'
    BY <1>19 DEF Exit, Pointers, SetupHeld, UsesConference
  <2>4. Creators'
    BY <1>19 DEF Exit, Pointers, Creators, UsesConference
  <2>5. ReadersHold'
    BY <1>19 DEF Exit, Pointers, ReadersHold, UsesConference
  <2>6. Drained'
    BY <1>19 DEF Exit, Pointers, ReadersHold, Drained
  <2>7. TableAgrees'
    BY <1>19 DEF Exit, SetupHeld, TableAgrees, Listable
  <2> QED BY <2>1, <2>2, <2>3, <2>4, <2>5, <2>6, <2>7
<1>20. ASSUME NEW t \in Caller, UseAfterFree(t) PROVE LockInv'
  BY <1>20 DEF UseAfterFree, Pointers, SetupHeld, Creators, ReadersHold, Drained,
     TableAgrees, Listable, Stage, Cflag, CallerPc, AdminPc, UsesConference
<1>21. ASSUME NEW a \in Admin, AdminFind(a) PROVE LockInv'
  <2>1. Shape'
    BY <1>21 DEF AdminFind, Found, RdLock, Cflag, Stage, CallerPc, AdminPc
  <2>2. Pointers'
    BY <1>21 DEF AdminFind, Found, RdLock, Pointers, CallerPc, AdminPc,
       UsesConference, TableAgrees, Listable
  <2>3. SetupHeld'
    BY <1>21 DEF AdminFind, Found, RdLock, Pointers, SetupHeld, UsesConference
  <2>4. Creators'
    BY <1>21 DEF AdminFind, Found, RdLock, Pointers, Creators, UsesConference
  <2>5. ReadersHold'
    BY <1>21 DEF AdminFind, Found, RdLock, Pointers, ReadersHold, UsesConference
  <2>6. Drained'
    BY <1>21 DEF AdminFind, Found, RdLock, Pointers, ReadersHold, Drained,
       TableAgrees, Listable
  <2>7. TableAgrees'
    BY <1>21 DEF AdminFind, Found, RdLock, SetupHeld, TableAgrees, Listable
  <2> QED BY <2>1, <2>2, <2>3, <2>4, <2>5, <2>6, <2>7
<1>22. ASSUME NEW a \in Admin, AdminMiss(a) PROVE LockInv'
  <2>1. Shape'
    BY <1>22 DEF AdminMiss, UnlistDestructed, Cflag, Stage, CallerPc, AdminPc
  <2>2. Pointers'
    BY <1>22 DEF AdminMiss, UnlistDestructed, Pointers, CallerPc, AdminPc,
       UsesConference
  <2>3. SetupHeld'
    BY <1>22 DEF AdminMiss, UnlistDestructed, Pointers, SetupHeld, UsesConference
  <2>4. Creators'
    BY <1>22 DEF AdminMiss, UnlistDestructed, Pointers, Creators, UsesConference
  <2>5. ReadersHold'
    BY <1>22 DEF AdminMiss, UnlistDestructed, Pointers, ReadersHold,
       UsesConference
  <2>6. Drained'
    BY <1>22 DEF AdminMiss, UnlistDestructed, Pointers, ReadersHold, Drained
  <2>7. TableAgrees'
    BY <1>22 DEF AdminMiss, UnlistDestructed, SetupHeld, TableAgrees, Listable
  <2> QED BY <2>1, <2>2, <2>3, <2>4, <2>5, <2>6, <2>7
<1>23. ASSUME NEW a \in Admin, AdminKick(a) PROVE LockInv'
  BY <1>23 DEF AdminKick, Pointers, SetupHeld, Creators, ReadersHold, Drained,
     TableAgrees, Listable, Stage, Cflag, CallerPc, AdminPc, UsesConference
<1>24. ASSUME NEW a \in Admin, AdminDone(a) PROVE LockInv'
  <2>1. Shape'
    BY <1>24 DEF AdminDone, RdUnlock, Cflag, Stage, CallerPc, AdminPc
  <2>2. Pointers'
    BY <1>24 DEF AdminDone, RdUnlock, Pointers, CallerPc, AdminPc, UsesConference
  <2>3. SetupHeld'
    BY <1>24 DEF AdminDone, RdUnlock, Pointers, SetupHeld, UsesConference
  <2>4. Creators'
    BY <1>24 DEF AdminDone, RdUnlock, Pointers, Creators, UsesConference
  <2>5. ReadersHold'
    BY <1>24 DEF AdminDone, RdUnlock, Pointers, ReadersHold, UsesConference
  <2>6. Drained'
    BY <1>24 DEF AdminDone, RdUnlock, Pointers, ReadersHold, Drained
  <2>7. TableAgrees'
    BY <1>24 DEF AdminDone, RdUnlock, SetupHeld, TableAgrees, Listable
  <2> QED BY <2>1, <2>2, <2>3, <2>4, <2>5, <2>6, <2>7
<1>25. ASSUME NEW c \in Conf, MonitorStart(c) PROVE LockInv'
  BY <1>25 DEF MonitorStart, Pointers, SetupHeld, Creators, ReadersHold, Drained,
     TableAgrees, Listable, Stage, Cflag, CallerPc, AdminPc, UsesConference
<1>26. ASSUME NEW c \in Conf, MonitorLost(c) PROVE LockInv'
  BY <1>26 DEF MonitorLost, Pointers, SetupHeld, Creators, ReadersHold, Drained,
     TableAgrees, Listable, Stage, Cflag, CallerPc, AdminPc, UsesConference
<1>27. ASSUME NEW c \in Conf, MixEnds(c) PROVE LockInv'
  BY <1>27 DEF MixEnds, Mark, Pointers, SetupHeld, Creators, ReadersHold, Drained,
     TableAgrees, Listable, Stage, Cflag, CallerPc, AdminPc, UsesConference
<1>28. ASSUME NEW c \in Conf, StopMixing(c) PROVE LockInv'
  BY <1>28 DEF StopMixing, Pointers, SetupHeld, Creators, ReadersHold, Drained,
     TableAgrees, Listable, Stage, Cflag, CallerPc, AdminPc, UsesConference
<1>29. ASSUME NEW c \in Conf, TimerBreaks(c) PROVE LockInv'
  BY <1>29 DEF TimerBreaks, Mark, Pointers, SetupHeld, Creators, ReadersHold,
     Drained,
     TableAgrees, Listable, Stage, Cflag, CallerPc, AdminPc, UsesConference
<1>30. ASSUME NEW c \in Conf, WriteFails(c) PROVE LockInv'
  BY <1>30 DEF WriteFails, Pointers, SetupHeld, Creators, ReadersHold, Drained,
     TableAgrees, Listable, Stage, Cflag, CallerPc, AdminPc, UsesConference
<1>31. ASSUME NEW c \in Conf, Sweep(c) PROVE LockInv'
  BY <1>31 DEF Sweep, ToldToStop, Pointers, SetupHeld, Creators, ReadersHold,
     Drained,
     TableAgrees, Listable, Stage, Cflag, CallerPc, AdminPc, UsesConference
<1>32. ASSUME NEW c \in Conf, Unlist(c) PROVE LockInv'
  <2>1. Shape'
    BY <1>32 DEF Unlist, Cflag, Stage, CallerPc, AdminPc
  <2>2. Pointers'
    BY <1>32 DEF Unlist, Pointers, CallerPc, AdminPc, UsesConference
  <2>3. SetupHeld'
    BY <1>32 DEF Unlist, Pointers, SetupHeld, UsesConference
  <2>4. Creators'
    BY <1>32 DEF Unlist, Pointers, Creators, UsesConference
  <2>5. ReadersHold'
    BY <1>32 DEF Unlist, Pointers, ReadersHold, UsesConference
  <2>6. Drained'
    BY <1>32 DEF Unlist, Pointers, ReadersHold, Drained
  <2>7. TableAgrees'
    BY <1>32 DEF Unlist, SetupHeld, TableAgrees, Listable
  <2> QED BY <2>1, <2>2, <2>3, <2>4, <2>5, <2>6, <2>7
<1>33. ASSUME NEW c \in Conf, WriteLock(c) PROVE LockInv'
  <2>1. Shape'
    BY <1>33 DEF WriteLock, Unread, Cflag, Stage, CallerPc, AdminPc
  <2>2. Pointers'
    BY <1>33 DEF WriteLock, Unread, Pointers, CallerPc, AdminPc, UsesConference
  <2>3. SetupHeld'
    BY <1>33 DEF WriteLock, Unread, Pointers, SetupHeld, UsesConference
  <2>4. Creators'
    BY <1>33 DEF WriteLock, Unread, Pointers, Creators, UsesConference
  <2>5. ReadersHold'
    BY <1>33 DEF WriteLock, Unread, Pointers, ReadersHold, UsesConference
  <2>6. Drained'
    BY <1>33 DEF WriteLock, Unread, Pointers, ReadersHold, Drained
  <2>7. TableAgrees'
    BY <1>33 DEF WriteLock, Unread, SetupHeld, TableAgrees, Listable
  <2> QED BY <2>1, <2>2, <2>3, <2>4, <2>5, <2>6, <2>7
<1>34. ASSUME NEW c \in Conf, Free(c) PROVE LockInv'
  <2>1. Shape'
    BY <1>34 DEF Free, Cflag, Stage, CallerPc, AdminPc
  <2>2. Pointers'
    BY <1>34 DEF Free, Pointers, CallerPc, AdminPc, UsesConference
  <2>3. SetupHeld'
    BY <1>34 DEF Free, Pointers, SetupHeld, UsesConference
  <2>4. Creators'
    BY <1>34 DEF Free, Pointers, Creators, UsesConference
  <2>5. ReadersHold'
    BY <1>34 DEF Free, Pointers, ReadersHold, UsesConference
  <2>6. Drained'
    BY <1>34 DEF Free, Pointers, ReadersHold, Drained
  <2>7. TableAgrees'
    BY <1>34 DEF Free, SetupHeld, TableAgrees, Listable
  <2> QED BY <2>1, <2>2, <2>3, <2>4, <2>5, <2>6, <2>7
<1>35. CASE UNCHANGED vars
  BY <1>35 DEF vars, Pointers, SetupHeld, Creators, ReadersHold, Drained,
     TableAgrees
<1> QED
  BY <1>1, <1>2, <1>3, <1>4, <1>5, <1>6, <1>7, <1>8, <1>9, <1>10, <1>11, <1>12,
     <1>13, <1>14, <1>15, <1>16, <1>17, <1>18, <1>19, <1>20, <1>21, <1>22, <1>23,
         <1>24, <1>25, <1>26, <1>27, <1>28, <1>29, <1>30, <1>31, <1>32, <1>33,
             <1>34, <1>35
     DEF Next, CallerStep, AdminStep, MonitorStep, MonitorEvent

-----------------------------------------------------------------------------
(* One member more, one member less: what it does to the size of a part of    *)
(* the member list and of the rest.                                           *)
LEMMA OneMore ==
  ASSUME NEW M, IsFiniteSet(M), NEW t, t \notin M, NEW S
  PROVE  /\ Cardinality((M \cup {t}) \cap S) =
              IF t \in S THEN Cardinality(M \cap S) + 1 ELSE Cardinality(M \cap S)
         /\ Cardinality((M \cup {t}) \ S) =
              IF t \in S THEN Cardinality(M \ S) ELSE Cardinality(M \ S) + 1
<1>1. IsFiniteSet(M \cap S) /\ IsFiniteSet(M \ S)
  BY FS_Intersection, FS_Difference
<1>2. CASE t \in S
  <2>1. (M \cup {t}) \cap S = (M \cap S) \cup {t} /\ (M \cup {t}) \ S = M \ S
    BY <1>2
  <2> QED BY <1>1, <1>2, <2>1, FS_AddElement
<1>3. CASE t \notin S
  <2>1. (M \cup {t}) \cap S = M \cap S /\ (M \cup {t}) \ S = (M \ S) \cup {t}
    BY <1>3
  <2> QED BY <1>1, <1>3, <2>1, FS_AddElement
<1> QED BY <1>2, <1>3

(* The same for a member taken away.                                          *)
LEMMA OneLess ==
  ASSUME NEW M, IsFiniteSet(M), NEW t \in M, NEW S
  PROVE  /\ Cardinality((M \ {t}) \cap S) =
              IF t \in S THEN Cardinality(M \cap S) - 1 ELSE Cardinality(M \cap S)
         /\ Cardinality((M \ {t}) \ S) =
              IF t \in S THEN Cardinality(M \ S) ELSE Cardinality(M \ S) - 1
<1>1. IsFiniteSet(M \cap S) /\ IsFiniteSet(M \ S)
  BY FS_Intersection, FS_Difference
<1>2. CASE t \in S
  <2>1. (M \ {t}) \cap S = (M \cap S) \ {t} /\ (M \ {t}) \ S = M \ S
    BY <1>2
  <2> QED BY <1>1, <1>2, <2>1, FS_RemoveElement
<1>3. CASE t \notin S
  <2>1. (M \ {t}) \cap S = M \cap S /\ (M \ {t}) \ S = (M \ S) \ {t}
    BY <1>3
  <2> QED BY <1>1, <1>3, <2>1, FS_RemoveElement
<1> QED BY <1>2, <1>3

(* The member list is part of the callers, so it is finite.                   *)
LEMMA MembersFinite ==
  ASSUME Shape, NEW c \in Conf
  PROVE  IsFiniteSet(members[c])
BY CallersAssumption, FS_Subset DEF Shape

(* conference_member_add's updates of the counters keep them right, and so do *)
(* conference_member_del's.                                                   *)
LEMMA CountersAdd ==
  ASSUME Shape, CountersMatch, NEW c \in Conf, NEW t \in Caller,
      t \notin members[c],
         members' = [members EXCEPT ![c] = members[c] \cup {t}],
         count' = [count EXCEPT
           ![c] = IF t \in GhostCaller THEN count[c] ELSE count[c] + 1],
         count_ghosts' = [count_ghosts EXCEPT
           ![c] = IF t \in GhostCaller THEN count_ghosts[c] + 1 ELSE count_ghosts[c]],
         end_count' = [end_count EXCEPT
           ![c] = IF t \in EndconfCaller THEN end_count[c] + 1 ELSE end_count[c]]
  PROVE  CountersMatch'
<1> SUFFICES ASSUME NEW d \in Conf
             PROVE  (/\ count[d] = Cardinality(members[d] \ GhostCaller)
                     /\ count_ghosts[d] = Cardinality(members[d] \cap GhostCaller)
                     /\ end_count[d] = Cardinality(members[d] \cap EndconfCaller))'
  BY DEF CountersMatch
<1>1. CASE d # c
  BY <1>1 DEF Shape, CountersMatch
<1>2. CASE d = c
  <2>1. IsFiniteSet(members[c])
    BY MembersFinite
  <2>2. members'[c] = members[c] \cup {t}
    BY DEF Shape
  <2>3. /\ Cardinality((members[c] \cup {t}) \cap GhostCaller) =
             IF t \in GhostCaller THEN Cardinality(members[c] \cap GhostCaller) + 1
             ELSE Cardinality(members[c] \cap GhostCaller)
        /\ Cardinality((members[c] \cup {t}) \ GhostCaller) =
             IF t \in GhostCaller THEN Cardinality(members[c] \ GhostCaller)
             ELSE Cardinality(members[c] \ GhostCaller) + 1
    BY ONLY <2>1, t \notin members[c], OneMore, ZenonT(60)
  <2>4. Cardinality((members[c] \cup {t}) \cap EndconfCaller) =
          IF t \in EndconfCaller THEN Cardinality(members[c] \cap EndconfCaller) + 1
          ELSE Cardinality(members[c] \cap EndconfCaller)
    BY ONLY <2>1, t \notin members[c], OneMore, ZenonT(60)
  <2>5. /\ count'[c] = IF t \in GhostCaller THEN count[c] ELSE count[c] + 1
        /\ count_ghosts'[c] =
             IF t \in GhostCaller THEN count_ghosts[c] + 1 ELSE count_ghosts[c]
        /\ end_count'[c] =
             IF t \in EndconfCaller THEN end_count[c] + 1 ELSE end_count[c]
    BY DEF Shape
  <2> QED BY <1>2, <2>2, <2>3, <2>4, <2>5 DEF CountersMatch
<1> QED BY <1>1, <1>2

(* The same for a member less.                                                *)
LEMMA CountersDel ==
  ASSUME Shape, CountersMatch, NEW c \in Conf, NEW t \in Caller, t \in members[c],
         members' = [members EXCEPT ![c] = members[c] \ {t}],
         count' = [count EXCEPT
           ![c] = IF t \in GhostCaller THEN count[c] ELSE count[c] - 1],
         count_ghosts' = [count_ghosts EXCEPT
           ![c] = IF t \in GhostCaller THEN count_ghosts[c] - 1 ELSE count_ghosts[c]],
         end_count' = [end_count EXCEPT
           ![c] = IF t \in EndconfCaller THEN end_count[c] - 1 ELSE end_count[c]]
  PROVE  CountersMatch'
<1> SUFFICES ASSUME NEW d \in Conf
             PROVE  (/\ count[d] = Cardinality(members[d] \ GhostCaller)
                     /\ count_ghosts[d] = Cardinality(members[d] \cap GhostCaller)
                     /\ end_count[d] = Cardinality(members[d] \cap EndconfCaller))'
  BY DEF CountersMatch
<1>1. CASE d # c
  BY <1>1 DEF Shape, CountersMatch
<1>2. CASE d = c
  <2>1. IsFiniteSet(members[c])
    BY MembersFinite
  <2>2. members'[c] = members[c] \ {t}
    BY DEF Shape
  <2>3. /\ Cardinality((members[c] \ {t}) \cap GhostCaller) =
             IF t \in GhostCaller THEN Cardinality(members[c] \cap GhostCaller) - 1
             ELSE Cardinality(members[c] \cap GhostCaller)
        /\ Cardinality((members[c] \ {t}) \ GhostCaller) =
             IF t \in GhostCaller THEN Cardinality(members[c] \ GhostCaller)
             ELSE Cardinality(members[c] \ GhostCaller) - 1
    BY ONLY <2>1, t \in members[c], OneLess, ZenonT(60)
  <2>4. Cardinality((members[c] \ {t}) \cap EndconfCaller) =
          IF t \in EndconfCaller THEN Cardinality(members[c] \cap EndconfCaller) - 1
          ELSE Cardinality(members[c] \cap EndconfCaller)
    BY ONLY <2>1, t \in members[c], OneLess, ZenonT(60)
  <2>5. /\ count'[c] = IF t \in GhostCaller THEN count[c] ELSE count[c] - 1
        /\ count_ghosts'[c] =
             IF t \in GhostCaller THEN count_ghosts[c] - 1 ELSE count_ghosts[c]
        /\ end_count'[c] =
             IF t \in EndconfCaller THEN end_count[c] - 1 ELSE end_count[c]
    BY DEF Shape
  <2> QED BY <1>2, <2>2, <2>3, <2>4, <2>5 DEF CountersMatch
<1> QED BY <1>1, <1>2

(* A step that leaves list and counters alone keeps them in agreement.        *)
LEMMA CountersKept ==
  ASSUME CountersMatch, UNCHANGED <<members, count, count_ghosts, end_count>>
  PROVE  CountersMatch'
BY DEF CountersMatch

(* Every step keeps the member list and the counters in agreement: Add and Del *)
(* change both, the other steps neither.                                      *)
LEMMA CountStep == LockInv /\ CountInv /\ [Next]_vars => CountInv'
<1> SUFFICES ASSUME LockInv, CountInv, [Next]_vars PROVE CountInv'
  OBVIOUS
<1> USE CallersAssumption, LimitsAssumption
    DEF LockInv, Shape, Pointers, CountInv, MembersInside, confVars, threadVars,
    Alive, Goto, At, Thread, UsesConference
<1>1. ASSUME NEW t \in Caller, Enter(t) PROVE CountInv'
  <2>1. MembersInside'
    BY <1>1 DEF Enter
  <2>2. CountersMatch'
    BY <1>1, CountersKept DEF Enter
  <2> QED BY <2>1, <2>2
<1>2. ASSUME NEW t \in Caller, FindExisting(t) PROVE CountInv'
  <2>1. MembersInside'
    BY <1>2 DEF FindExisting
  <2>2. CountersMatch'
    BY <1>2, CountersKept DEF FindExisting
  <2> QED BY <2>1, <2>2
<1>3. ASSUME NEW t \in Caller, FindNothing(t) PROVE CountInv'
  <2>1. MembersInside'
    BY <1>3 DEF FindNothing
  <2>2. CountersMatch'
    BY <1>3, CountersKept DEF FindNothing
  <2> QED BY <2>1, <2>2
<1>4. ASSUME NEW t \in Caller, Create(t) PROVE CountInv'
  <2>1. MembersInside'
    BY <1>4 DEF Create
  <2>2. CountersMatch'
    BY <1>4, CountersKept DEF Create
  <2> QED BY <2>1, <2>2
<1>5. ASSUME NEW t \in Caller, RejectNew(t) PROVE CountInv'
  <2>1. MembersInside'
    BY <1>5 DEF RejectNew
  <2>2. CountersMatch'
    BY <1>5, CountersKept DEF RejectNew
  <2> QED BY <2>1, <2>2
<1>6. ASSUME NEW t \in Caller, ReleaseSetup(t) PROVE CountInv'
  <2>1. MembersInside'
    BY <1>6 DEF ReleaseSetup
  <2>2. CountersMatch'
    BY <1>6, CountersKept DEF ReleaseSetup
  <2> QED BY <2>1, <2>2
<1>7. ASSUME NEW t \in Caller, Arm(t) PROVE CountInv'
  <2>1. MembersInside'
    BY <1>7 DEF Arm
  <2>2. CountersMatch'
    BY <1>7, CountersKept DEF Arm
  <2> QED BY <2>1, <2>2
<1>8. ASSUME NEW t \in Caller, DialStart(t) PROVE CountInv'
  <2>1. MembersInside'
    BY <1>8 DEF DialStart
  <2>2. CountersMatch'
    BY <1>8, CountersKept DEF DialStart
  <2> QED BY <2>1, <2>2
<1>9. ASSUME NEW t \in Caller, DialEnd(t) PROVE CountInv'
  <2>1. MembersInside'
    BY <1>9 DEF DialEnd
  <2>2. CountersMatch'
    BY <1>9, CountersKept DEF DialEnd
  <2> QED BY <2>1, <2>2
<1>10. ASSUME NEW t \in Caller, ScreenPass(t) PROVE CountInv'
  <2>1. MembersInside'
    BY <1>10 DEF ScreenPass
  <2>2. CountersMatch'
    BY <1>10, CountersKept DEF ScreenPass
  <2> QED BY <2>1, <2>2
<1>11. ASSUME NEW t \in Caller, ScreenReject(t) PROVE CountInv'
  <2>1. MembersInside'
    BY <1>11 DEF ScreenReject
  <2>2. CountersMatch'
    BY <1>11, CountersKept DEF ScreenReject
  <2> QED BY <2>1, <2>2
<1>12. ASSUME NEW t \in Caller, Setup(t) PROVE CountInv'
  <2>1. MembersInside'
    BY <1>12 DEF Setup
  <2>2. CountersMatch'
    BY <1>12, CountersKept DEF Setup
  <2> QED BY <2>1, <2>2
<1>13. ASSUME NEW t \in Caller, SetupFails(t) PROVE CountInv'
  <2>1. MembersInside'
    BY <1>13 DEF SetupFails
  <2>2. CountersMatch'
    BY <1>13, CountersKept DEF SetupFails
  <2> QED BY <2>1, <2>2
<1>14. ASSUME NEW t \in Caller, Add(t) PROVE CountInv'
  <2>1. conference[t] \in Conf /\ t \notin members[conference[t]]
    <3>1. pc[t] = "adding" /\ conference[t] \in Conf
      BY <1>14, AddPoints
    <3> QED BY <3>1
  <2>2. MembersInside'
    <3>1. /\ members' = [members EXCEPT ![conference[t]] = @ \cup {t}]
          /\ conference' = conference /\ pc' = [pc EXCEPT ![t] = "loop"]
      BY <1>14 DEF Add
    <3>2. members'[conference[t]] = members[conference[t]] \cup {t}
          /\ \A c \in Conf \ {conference[t]} : members'[c] = members[c]
      BY <2>1, <3>1
    <3>3. pc'[t] = "loop" /\ \A u \in Caller \ {t} : pc'[u] = pc[u]
      BY <3>1
    <3>4. ASSUME NEW c \in Conf, NEW u \in Caller
          PROVE  /\ pc'[u] \in {"loop", "leaving"} /\ conference[u] = c => u \in members'[c]
                 /\ u \in members'[c] =>
                      conference[u] = c /\ pc'[u] \in {"loop", "leaving", "undefined"}
      <4>1. CASE c = conference[t]
        BY <3>2, <3>3, <4>1
      <4>2. CASE c # conference[t]
        BY <3>2, <3>3, <4>2
      <4> QED BY <4>1, <4>2
    <3> QED BY <3>1, <3>4
  <2>3. CountersMatch'
    BY <1>14, <2>1, CountersAdd DEF Add
  <2> QED BY <2>2, <2>3
<1>15. ASSUME NEW t \in Caller, HangUp(t) PROVE CountInv'
  <2>1. MembersInside'
    BY <1>15 DEF HangUp
  <2>2. CountersMatch'
    BY <1>15, CountersKept DEF HangUp
  <2> QED BY <2>1, <2>2
<1>16. ASSUME NEW t \in Caller, Leave(t) PROVE CountInv'
  <2>1. MembersInside'
    BY <1>16 DEF Leave
  <2>2. CountersMatch'
    BY <1>16, CountersKept DEF Leave
  <2> QED BY <2>1, <2>2
<1>17. ASSUME NEW t \in Caller, Del(t) PROVE CountInv'
  <2>1. conference[t] \in Conf /\ t \in members[conference[t]]
    BY <1>17 DEF Del
  <2>2. MembersInside'
    BY <1>17 DEF Del
  <2>3. CountersMatch'
    BY <1>17, <2>1, CountersDel DEF Del, CountWithout, GhostsWithout
  <2> QED BY <2>2, <2>3
<1>18. ASSUME NEW t \in Caller, Done(t) PROVE CountInv'
  <2>1. MembersInside'
    BY <1>18 DEF Done
  <2>2. CountersMatch'
    BY <1>18, CountersKept DEF Done
  <2> QED BY <2>1, <2>2
<1>19. ASSUME NEW t \in Caller, Exit(t) PROVE CountInv'
  <2>1. MembersInside'
    BY <1>19 DEF Exit
  <2>2. CountersMatch'
    BY <1>19, CountersKept DEF Exit
  <2> QED BY <2>1, <2>2
<1>20. ASSUME NEW t \in Caller, UseAfterFree(t) PROVE CountInv'
  <2>1. MembersInside'
    BY <1>20 DEF UseAfterFree
  <2>2. CountersMatch'
    BY <1>20, CountersKept DEF UseAfterFree
  <2> QED BY <2>1, <2>2
<1>21. ASSUME NEW a \in Admin, AdminFind(a) PROVE CountInv'
  <2>1. MembersInside'
    BY <1>21 DEF AdminFind
  <2>2. CountersMatch'
    BY <1>21, CountersKept DEF AdminFind
  <2> QED BY <2>1, <2>2
<1>22. ASSUME NEW a \in Admin, AdminMiss(a) PROVE CountInv'
  <2>1. MembersInside'
    BY <1>22 DEF AdminMiss
  <2>2. CountersMatch'
    BY <1>22, CountersKept DEF AdminMiss
  <2> QED BY <2>1, <2>2
<1>23. ASSUME NEW a \in Admin, AdminKick(a) PROVE CountInv'
  <2>1. MembersInside'
    BY <1>23 DEF AdminKick
  <2>2. CountersMatch'
    BY <1>23, CountersKept DEF AdminKick
  <2> QED BY <2>1, <2>2
<1>24. ASSUME NEW a \in Admin, AdminDone(a) PROVE CountInv'
  <2>1. MembersInside'
    BY <1>24 DEF AdminDone
  <2>2. CountersMatch'
    BY <1>24, CountersKept DEF AdminDone
  <2> QED BY <2>1, <2>2
<1>25. ASSUME NEW c \in Conf, MonitorStart(c) PROVE CountInv'
  <2>1. MembersInside'
    BY <1>25 DEF MonitorStart
  <2>2. CountersMatch'
    BY <1>25, CountersKept DEF MonitorStart
  <2> QED BY <2>1, <2>2
<1>26. ASSUME NEW c \in Conf, MonitorLost(c) PROVE CountInv'
  <2>1. MembersInside'
    BY <1>26 DEF MonitorLost
  <2>2. CountersMatch'
    BY <1>26, CountersKept DEF MonitorLost
  <2> QED BY <2>1, <2>2
<1>27. ASSUME NEW c \in Conf, MixEnds(c) PROVE CountInv'
  <2>1. MembersInside'
    BY <1>27 DEF MixEnds
  <2>2. CountersMatch'
    BY <1>27, CountersKept DEF MixEnds
  <2> QED BY <2>1, <2>2
<1>28. ASSUME NEW c \in Conf, StopMixing(c) PROVE CountInv'
  <2>1. MembersInside'
    BY <1>28 DEF StopMixing
  <2>2. CountersMatch'
    BY <1>28, CountersKept DEF StopMixing
  <2> QED BY <2>1, <2>2
<1>29. ASSUME NEW c \in Conf, TimerBreaks(c) PROVE CountInv'
  <2>1. MembersInside'
    BY <1>29 DEF TimerBreaks
  <2>2. CountersMatch'
    BY <1>29, CountersKept DEF TimerBreaks
  <2> QED BY <2>1, <2>2
<1>30. ASSUME NEW c \in Conf, WriteFails(c) PROVE CountInv'
  <2>1. MembersInside'
    BY <1>30 DEF WriteFails
  <2>2. CountersMatch'
    BY <1>30, CountersKept DEF WriteFails
  <2> QED BY <2>1, <2>2
<1>31. ASSUME NEW c \in Conf, Sweep(c) PROVE CountInv'
  <2>1. MembersInside'
    BY <1>31 DEF Sweep
  <2>2. CountersMatch'
    BY <1>31, CountersKept DEF Sweep
  <2> QED BY <2>1, <2>2
<1>32. ASSUME NEW c \in Conf, Unlist(c) PROVE CountInv'
  <2>1. MembersInside'
    BY <1>32 DEF Unlist
  <2>2. CountersMatch'
    BY <1>32, CountersKept DEF Unlist
  <2> QED BY <2>1, <2>2
<1>33. ASSUME NEW c \in Conf, WriteLock(c) PROVE CountInv'
  <2>1. MembersInside'
    BY <1>33 DEF WriteLock
  <2>2. CountersMatch'
    BY <1>33, CountersKept DEF WriteLock
  <2> QED BY <2>1, <2>2
<1>34. ASSUME NEW c \in Conf, Free(c) PROVE CountInv'
  <2>1. MembersInside'
    BY <1>34 DEF Free
  <2>2. CountersMatch'
    BY <1>34, CountersKept DEF Free
  <2> QED BY <2>1, <2>2
<1>35. CASE UNCHANGED vars
  <2>1. MembersInside'
    BY <1>35 DEF vars
  <2>2. CountersMatch'
    BY <1>35, CountersKept DEF vars
  <2> QED BY <2>1, <2>2
<1> QED
  BY <1>1, <1>2, <1>3, <1>4, <1>5, <1>6, <1>7, <1>8, <1>9, <1>10, <1>11, <1>12,
     <1>13, <1>14, <1>15, <1>16, <1>17, <1>18, <1>19, <1>20, <1>21, <1>22, <1>23,
         <1>24, <1>25, <1>26, <1>27, <1>28, <1>29, <1>30, <1>31, <1>32, <1>33,
             <1>34, <1>35 DEF Next, CallerStep, AdminStep, MonitorStep,
                 MonitorEvent

(* The counters stand for natural numbers.                                    *)
LEMMA MembersSizes ==
  ASSUME Shape, NEW c \in Conf, NEW S
  PROVE  Cardinality(members[c] \cap S) \in Nat /\ Cardinality(members[c] \ S) \in Nat
BY MembersFinite, FS_Intersection, FS_Difference, FS_CardinalityType

(* Initially every list is empty and every counter zero.                      *)
LEMMA CountInit == Init => CountInv
BY FS_EmptySet DEF Init, CountInv, MembersInside, CountersMatch, Thread

-----------------------------------------------------------------------------
\* Every lock comes back.  Whoever has setup_mutex is finding or making the
\* conference, in steps that wait for nobody.  Whoever has a read lock is still
\* inside that object, on a way that ends with the unlock (unless the object is
\* taken from under a "bridge:" caller, see EverybodyOut): no return of
\* conference_function, conference_outcall or a command leaves one behind, for
\* which the monitor would wait for ever.
MayRead(t, step) ==
  \/ t \in Admin /\ step = "inside"
  \/ t \in BridgeCaller /\ step \in {"dialing", "undefined"}
  \/ /\ t \in Caller \ BridgeCaller
     /\ step \in {"screen", "ready", "adding", "loop", "leaving", "done", "exit"}

ReadersInside == \A c \in Conf : \A t \in rwlock[c] : conference[t] = c /\ MayRead(t, pc[t])

LocksComeBack ==
  /\ setup_mutex # NoThread => pc[setup_mutex] \in {"find", "new", "refused"}
  /\ ReadersInside

(* For ReadersInside a step is looked at for the readers it adds, and for the *)
(* readers whose pointer or program counter it moves.  Here: a step of one    *)
(* thread moves no pointer but its own, and gives no other a read lock.       *)
Stay(t) == \A u \in Thread \ {t} : pc'[u] = pc[u] /\ conference'[u] = conference[u]
Gives(t) == \A c \in Conf : rwlock'[c] \subseteq rwlock[c] \cup {t}
Stands(t) == \A c \in Conf : t \in rwlock'[c] => conference'[t] = c /\ MayRead(t, pc'[t])

LEMMA OneMoves ==
  ASSUME Shape, ReadersInside, NEW t \in Thread, Stay(t), Gives(t), Stands(t)
  PROVE  ReadersInside'
<1> SUFFICES ASSUME NEW c \in Conf, NEW u \in rwlock'[c]
             PROVE  conference'[u] = c /\ MayRead(u, pc'[u])
  BY DEF ReadersInside
<1>1. CASE u = t
  BY <1>1 DEF Stands
<1>2. CASE u # t
  <2>1. u \in rwlock[c]
    BY <1>2 DEF Gives
  <2>2. u \in Thread /\ conference[u] = c /\ MayRead(u, pc[u])
    BY <2>1 DEF Shape, ReadersInside
  <2>3. conference'[u] = conference[u] /\ pc'[u] = pc[u]
    BY <1>2, <2>2 DEF Stay
  <2> QED BY <2>2, <2>3
<1> QED BY <1>1, <1>2

(* What the thread's own move is.                                             *)
LEMMA OwnMove ==
  ASSUME Shape, NEW t \in Thread, NEW p, NEW x,
         pc' = [pc EXCEPT ![t] = p], conference' = [conference EXCEPT ![t] = x]
  PROVE  Stay(t) /\ pc'[t] = p /\ conference'[t] = x
BY DEF Shape, Stay

(* A guest's conference is there.                                             *)
LEMMA LockedKept == LockInv => LockedConferenceStays
BY DEF LockInv, Creators, ReadersHold, Drained, Pointers, Shape,
       LockedConferenceStays, LockedGuest, Alive, Thread

(* A step that leaves locks, pointers and program counters alone.             *)
LEMMA ReadersKept ==
  ASSUME ReadersInside, UNCHANGED <<rwlock, pc, conference>>
  PROVE  ReadersInside'
BY DEF ReadersInside

(* A caller goes on without a change to the locks, and without a read lock, or *)
(* as an ordinary one with its lock.                                          *)
LEMMA CallerMoves ==
  ASSUME Shape, ReadersInside, NEW t \in Caller, NEW p,
         pc' = [pc EXCEPT ![t] = p], UNCHANGED <<rwlock, conference>>,
         \/ pc[t] \in {"out", "find", "new", "refused"}
         \/ t \in BridgeCaller /\ pc[t] # "dialing" /\ pc[t] # "undefined"
         \/ /\ p \in {"screen", "ready", "adding", "loop", "leaving", "done", "exit"}
            /\ pc[t] \notin {"dialing", "undefined"}
         \/ p = "undefined" /\ t \in BridgeCaller
  PROVE  ReadersInside'
<1>1. t \in Thread /\ t \notin Admin
  BY CallersAssumption DEF Thread
<1>2. Stay(t) /\ Gives(t) /\ pc'[t] = p
  BY <1>1 DEF Shape, Stay, Gives
<1>3. Stands(t)
  <2> SUFFICES ASSUME NEW c \in Conf, t \in rwlock'[c]
               PROVE  conference'[t] = c /\ MayRead(t, pc'[t])
    BY DEF Stands
  <2>1. conference[t] = c /\ MayRead(t, pc[t])
    BY DEF ReadersInside
  <2> QED BY <1>1, <1>2, <2>1 DEF MayRead
<1> QED BY <1>1, <1>2, <1>3, OneMoves

(* Every step keeps it.                                                       *)
LEMMA ReadersStep == LockInv /\ ReadersInside /\ [Next]_vars => ReadersInside'
<1> SUFFICES ASSUME LockInv, ReadersInside, [Next]_vars PROVE ReadersInside'
  OBVIOUS
<1>s. Shape /\ Pointers
  BY DEF LockInv
<1>c. \A t \in Caller : t \in Thread /\ t \notin Admin
  BY CallersAssumption DEF Thread
<1>1. ASSUME NEW t \in Caller, Enter(t) PROVE ReadersInside'
  <2>1. /\ pc' = [pc EXCEPT ![t] = "find"] /\ UNCHANGED <<rwlock, conference>>
        /\ pc[t] \in {"out", "find", "new"}
    BY <1>1 DEF Enter, Goto, confVars
  <2> QED BY <1>s, <2>1, CallerMoves
<1>2. ASSUME NEW t \in Caller, FindNothing(t) PROVE ReadersInside'
  <2>1. /\ pc' = [pc EXCEPT ![t] = "new"] /\ UNCHANGED <<rwlock, conference>>
        /\ pc[t] \in {"out", "find", "new"}
    BY <1>2 DEF FindNothing, Goto, UnlistDestructed, confVars
  <2> QED BY <1>s, <2>1, CallerMoves
<1>3. ASSUME NEW t \in Caller, RejectNew(t) PROVE ReadersInside'
  <2>1. /\ pc' = [pc EXCEPT ![t] = "refused"] /\ UNCHANGED <<rwlock, conference>>
        /\ pc[t] \in {"out", "find", "new"}
    BY <1>3 DEF RejectNew, Goto, confVars
  <2> QED BY <1>s, <2>1, CallerMoves
<1>4. ASSUME NEW t \in Caller, ReleaseSetup(t) PROVE ReadersInside'
  <2>1. PICK p \in {"exit", "done"} :
          /\ pc' = [pc EXCEPT ![t] = p] /\ UNCHANGED <<rwlock, conference>>
          /\ pc[t] = "refused"
    BY <1>4 DEF ReleaseSetup, Goto, confVars
  <2> QED BY <1>s, <2>1, CallerMoves
<1>5. ASSUME NEW t \in Caller, ScreenPass(t) PROVE ReadersInside'
  <2>1. /\ pc' = [pc EXCEPT ![t] = "ready"] /\ UNCHANGED <<rwlock, conference>>
        /\ pc[t] \notin {"dialing", "undefined"}
    BY <1>5 DEF ScreenPass, At, Goto, confVars
  <2> QED BY <1>s, <2>1, CallerMoves
<1>6. ASSUME NEW t \in Caller, ScreenReject(t) PROVE ReadersInside'
  <2>1. /\ pc' = [pc EXCEPT ![t] = "done"] /\ UNCHANGED <<rwlock, conference>>
        /\ pc[t] \notin {"dialing", "undefined"}
    BY <1>6 DEF ScreenReject, At, Goto, confVars
  <2> QED BY <1>s, <2>1, CallerMoves
<1>7. ASSUME NEW t \in Caller, Setup(t) PROVE ReadersInside'
  <2>1. /\ pc' = [pc EXCEPT ![t] = "adding"] /\ UNCHANGED <<rwlock, conference>>
        /\ pc[t] \notin {"dialing", "undefined"}
    BY <1>7 DEF Setup, At, Goto, confVars
  <2> QED BY <1>s, <2>1, CallerMoves
<1>8. ASSUME NEW t \in Caller, SetupFails(t) PROVE ReadersInside'
  <2>1. /\ pc' = [pc EXCEPT ![t] = "done"] /\ UNCHANGED <<rwlock, conference>>
        /\ pc[t] \notin {"dialing", "undefined"}
    BY <1>8 DEF SetupFails, At, Goto, confVars
  <2> QED BY <1>s, <2>1, CallerMoves
<1>9. ASSUME NEW t \in Caller, Add(t) PROVE ReadersInside'
  <2>1. /\ pc' = [pc EXCEPT ![t] = "loop"] /\ UNCHANGED <<rwlock, conference>>
        /\ pc[t] \notin {"dialing", "undefined"}
    BY <1>9 DEF Add, At, Goto, confVars
  <2> QED BY <1>s, <2>1, CallerMoves
<1>10. ASSUME NEW t \in Caller, Leave(t) PROVE ReadersInside'
  <2>1. /\ pc' = [pc EXCEPT ![t] = "leaving"] /\ UNCHANGED <<rwlock, conference>>
        /\ pc[t] \notin {"dialing", "undefined"}
    BY <1>10 DEF Leave, At, Goto, confVars
  <2> QED BY <1>s, <2>1, CallerMoves
<1>11. ASSUME NEW t \in Caller, Del(t) PROVE ReadersInside'
  <2>1. /\ pc' = [pc EXCEPT ![t] = "done"] /\ UNCHANGED <<rwlock, conference>>
        /\ pc[t] \notin {"dialing", "undefined"}
    BY <1>11 DEF Del, At, Goto, confVars
  <2> QED BY <1>s, <2>1, CallerMoves
<1>12. ASSUME NEW t \in Caller, Done(t) PROVE ReadersInside'
  <2>1. /\ pc' = [pc EXCEPT ![t] = "exit"] /\ UNCHANGED <<rwlock, conference>>
        /\ pc[t] \notin {"dialing", "undefined"}
    BY <1>12 DEF Done, At, Goto, confVars
  <2> QED BY <1>s, <2>1, CallerMoves
<1>13. ASSUME NEW t \in Caller, UseAfterFree(t) PROVE ReadersInside'
  <2>1. /\ pc' = [pc EXCEPT ![t] = "undefined"] /\ UNCHANGED <<rwlock, conference>>
        /\ pc[t] \in UsesConference /\ ~Alive(conference[t])
    BY <1>13 DEF UseAfterFree, Goto, confVars
  <2>2. conference[t] # NoConf
    BY <1>s, <2>1 DEF Pointers
  <2>3. t \in BridgeCaller
    BY <1>c, <2>1, <2>2, LockedKept DEF LockedConferenceStays
  <2> QED BY <1>s, <2>1, <2>3, CallerMoves
<1>14. ASSUME NEW t \in Caller, FindExisting(t) PROVE ReadersInside'
  <2>1. /\ conference' = [conference EXCEPT ![t] = conference_hash]
        /\ \/ /\ t \in BridgeCaller /\ pc' = [pc EXCEPT ![t] = "refused"]
              /\ UNCHANGED rwlock
           \/ /\ t \notin BridgeCaller /\ pc' = [pc EXCEPT ![t] = "screen"]
              /\ rwlock' = [rwlock EXCEPT ![conference_hash] = @ \cup {t}]
    BY <1>14 DEF FindExisting, Goto, RdLock
  <2>2. \A c \in Conf : t \notin rwlock[c]
    BY <1>14, <1>c DEF FindExisting, ReadersInside, MayRead
  <2>3. t \in Thread /\ Gives(t)
    BY <1>s, <1>c, <2>1 DEF Gives, Shape
  <2>4. Stay(t) /\ conference'[t] = conference_hash
    BY <1>s, <2>1, <2>3 DEF Stay, Shape
  <2>5. CASE t \in BridgeCaller
    <3>1. Stands(t)
      BY <2>1, <2>2, <2>5 DEF Stands
    <3> QED BY <1>s, <2>3, <2>4, <3>1, OneMoves
  <2>6. CASE t \notin BridgeCaller
    <3>1. MayRead(t, pc'[t])
      BY <1>s, <1>c, <2>1, <2>3, <2>6 DEF MayRead, Shape
    <3>2. \A c \in Conf : t \in rwlock'[c] => conference_hash = c
      BY <1>s, <2>1, <2>2, <2>6 DEF Shape
    <3>3. Stands(t)
      BY <2>4, <3>1, <3>2 DEF Stands
    <3> QED BY <1>s, <2>3, <2>4, <3>3, OneMoves
  <2> QED BY <2>5, <2>6
<1>15. ASSUME NEW t \in Caller, Create(t) PROVE ReadersInside'
  <2>1. PICK c \in Conf : conference' = [conference EXCEPT ![t] = c]
    BY <1>15 DEF Create
  <2>2. pc' = [pc EXCEPT ![t] = "arm"] /\ UNCHANGED rwlock
    BY <1>15 DEF Create, Goto
  <2>3. \A d \in Conf : t \notin rwlock[d]
    BY <1>15, <1>c DEF Create, ReadersInside, MayRead
  <2>4. t \in Thread /\ Stay(t)
    BY <1>s, <1>c, <2>1, <2>2, OwnMove
  <2>5. Gives(t) /\ Stands(t)
    BY <2>2, <2>3 DEF Gives, Stands
  <2> QED BY <1>s, <2>4, <2>5, OneMoves
<1>16. ASSUME NEW t \in Caller, Arm(t) PROVE ReadersInside'
  <2>1. /\ pc[t] = "arm" /\ conference' = conference
        /\ \/ /\ t \in BridgeCaller /\ pc' = [pc EXCEPT ![t] = "dial"]
              /\ UNCHANGED rwlock
           \/ /\ t \notin BridgeCaller /\ pc' = [pc EXCEPT ![t] = "screen"]
              /\ rwlock' = [rwlock EXCEPT ![conference[t]] = @ \cup {t}]
    BY <1>16 DEF Arm, At, Goto, RdLock, CreatorLocks
  <2>2. \A c \in Conf : t \notin rwlock[c]
    BY <1>c, <2>1 DEF ReadersInside, MayRead
  <2>3. CASE t \in BridgeCaller
    BY <1>s, <2>1, <2>3, CallerMoves
  <2>4. CASE t \notin BridgeCaller
    <3>1. t \in Thread /\ Stay(t) /\ Gives(t)
      BY <1>s, <1>c, <2>1, <2>4 DEF Stay, Gives, Shape
    <3>2. MayRead(t, pc'[t])
      BY <1>s, <1>c, <2>1, <2>4, <3>1 DEF MayRead, Shape
    <3>3. \A c \in Conf : t \in rwlock'[c] => conference'[t] = c
      BY <1>s, <2>1, <2>2, <2>4 DEF Shape
    <3>4. Stands(t)
      BY <3>2, <3>3 DEF Stands
    <3> QED BY <1>s, <3>1, <3>4, OneMoves
  <2> QED BY <2>3, <2>4
<1>17. ASSUME NEW t \in Caller, DialStart(t) PROVE ReadersInside'
  <2>1. /\ pc[t] = "dial" /\ conference' = conference /\ pc' = [pc EXCEPT ![t] = "dialing"]
        /\ rwlock' = [rwlock EXCEPT ![conference[t]] = @ \cup {t}]
    BY <1>17 DEF DialStart, At, Goto, RdLock
  <2>2. t \in BridgeCaller /\ \A c \in Conf : t \notin rwlock[c]
    BY <1>s, <1>c, <2>1 DEF Pointers, ReadersInside, MayRead
  <2>3. t \in Thread /\ Stay(t) /\ Gives(t)
    BY <1>s, <1>c, <2>1 DEF Stay, Gives, Shape
  <2>4. MayRead(t, pc'[t])
    BY <1>s, <2>1, <2>2, <2>3 DEF MayRead, Shape
  <2>5. \A c \in Conf : t \in rwlock'[c] => conference'[t] = c
    BY <1>s, <2>1, <2>2 DEF Shape
  <2>6. Stands(t)
    BY <2>4, <2>5 DEF Stands
  <2> QED BY <1>s, <2>3, <2>6, OneMoves
<1>18. ASSUME NEW t \in Caller, DialEnd(t) PROVE ReadersInside'
  <2>1. PICK p \in {"ready", "done"} : pc' = [pc EXCEPT ![t] = p]
    BY <1>18 DEF DialEnd, Goto
  <2>2. conference' = conference /\ rwlock' = [rwlock EXCEPT ![conference[t]] = @ \ {t}]
    BY <1>18 DEF DialEnd, RdUnlock
  <2>3. \A c \in Conf : rwlock'[c] \subseteq rwlock[c] /\ t \notin rwlock'[c]
    BY <1>s, <2>2 DEF Shape, ReadersInside
  <2>4. t \in Thread /\ Stay(t)
    BY <1>s, <1>c, <2>1, <2>2 DEF Stay, Shape
  <2>5. Gives(t) /\ Stands(t)
    BY <2>3 DEF Gives, Stands
  <2> QED BY <1>s, <2>4, <2>5, OneMoves
<1>19. ASSUME NEW t \in Caller, Exit(t) PROVE ReadersInside'
  <2>1. /\ pc' = [pc EXCEPT ![t] = "out"] /\ conference' = [conference EXCEPT ![t] = NoConf]
        /\ rwlock' = [c \in Conf |-> IF c = conference[t] THEN rwlock[c] \ {t} ELSE rwlock[c]]
    BY <1>19 DEF Exit, Goto
  <2>2. \A c \in Conf : rwlock'[c] \subseteq rwlock[c] /\ t \notin rwlock'[c]
    BY <2>1 DEF ReadersInside
  <2>3. t \in Thread /\ Stay(t)
    BY <1>s, <1>c, <2>1, OwnMove
  <2>4. Gives(t) /\ Stands(t)
    BY <2>2 DEF Gives, Stands
  <2> QED BY <1>s, <2>3, <2>4, OneMoves
<1>20. ASSUME NEW a \in Admin, AdminFind(a) PROVE ReadersInside'
  <2>1. /\ pc[a] = "idle" /\ pc' = [pc EXCEPT ![a] = "inside"]
        /\ conference' = [conference EXCEPT ![a] = conference_hash]
        /\ rwlock' = [rwlock EXCEPT ![conference_hash] = @ \cup {a}]
    BY <1>20 DEF AdminFind, Goto, RdLock
  <2>2. a \in Thread /\ \A c \in Conf : a \notin rwlock[c]
    BY <2>1, CallersAssumption DEF Thread, ReadersInside, MayRead
  <2>3. Stay(a) /\ Gives(a)
    BY <1>s, <2>1, <2>2 DEF Stay, Gives, Shape
  <2>4. MayRead(a, pc'[a])
    BY <1>s, <2>1, <2>2 DEF MayRead, Shape
  <2>5. \A c \in Conf : a \in rwlock'[c] => conference'[a] = c
    BY <1>s, <2>1, <2>2 DEF Shape
  <2>6. Stands(a)
    BY <2>4, <2>5 DEF Stands
  <2> QED BY <1>s, <2>2, <2>3, <2>6, OneMoves
<1>21. ASSUME NEW a \in Admin, AdminDone(a) PROVE ReadersInside'
  <2>1. /\ pc' = [pc EXCEPT ![a] = "idle"] /\ conference' = [conference EXCEPT ![a] = NoConf]
        /\ rwlock' = [rwlock EXCEPT ![conference[a]] = @ \ {a}]
    BY <1>21 DEF AdminDone, Goto, RdUnlock
  <2>2. \A c \in Conf : rwlock'[c] \subseteq rwlock[c] /\ a \notin rwlock'[c]
    BY <1>s, <2>1 DEF Shape, ReadersInside
  <2>3. a \in Thread
    BY DEF Thread
  <2>4. Stay(a)
    BY <1>s, <2>1, <2>3, OwnMove
  <2>5. Gives(a) /\ Stands(a)
    BY <2>2 DEF Gives, Stands
  <2> QED BY <1>s, <2>3, <2>4, <2>5, OneMoves
<1>22. ASSUME NEW t \in Caller, HangUp(t) PROVE ReadersInside'
  BY <1>22, ReadersKept DEF HangUp, confVars
<1>23. ASSUME NEW a \in Admin, AdminMiss(a) \/ AdminKick(a) PROVE ReadersInside'
  BY <1>23, ReadersKept DEF AdminMiss, AdminKick, confVars, threadVars
<1>24. ASSUME NEW c \in Conf, MonitorStep(c) \/ MonitorEvent(c) \/ Free(c) PROVE ReadersInside'
  <2>1. UNCHANGED <<rwlock, pc, conference>>
    BY <1>24 DEF MonitorStep, MonitorEvent, MonitorStart, StopMixing, Sweep, Unlist, WriteLock,
       MonitorLost, MixEnds, TimerBreaks, WriteFails, Free, threadVars
  <2> QED BY <2>1, ReadersKept
<1>25. CASE UNCHANGED vars
  BY <1>25, ReadersKept DEF vars
<1> QED
  BY <1>1, <1>2, <1>3, <1>4, <1>5, <1>6, <1>7, <1>8, <1>9, <1>10, <1>11,
     <1>12, <1>13, <1>14, <1>15, <1>16, <1>17, <1>18, <1>19, <1>20, <1>21, <1>22,
     <1>23, <1>24, <1>25 DEF Next, CallerStep, AdminStep

-----------------------------------------------------------------------------
(* The theorems.                                                              *)

\* In every reachable state the pointers, the name table, the read locks, the
\* member list and the counters are related as LockInv and CountInv say.
THEOREM InvariantsHold == Spec => [](LockInv /\ CountInv)
<1>1. Init => LockInv /\ CountInv
  BY LockInit, CountInit
<1>2. (LockInv /\ CountInv) /\ [Next]_vars => (LockInv /\ CountInv)'
  BY LockStep, CountStep
<1> QED BY <1>1, <1>2, PTL DEF Spec

\* Types hold; in particular no counter that conference_member_del decrements
\* ever goes below zero, for conference->count is unsigned and would wrap.
THEOREM TypeCorrect == Spec => []TypeOK
<1>1. LockInv /\ CountInv => TypeOK
  <2> SUFFICES ASSUME LockInv, CountInv PROVE TypeOK
    OBVIOUS
  <2>1. ASSUME NEW c \in Conf
        PROVE  count[c] \in Nat /\ count_ghosts[c] \in Nat /\ end_count[c] \in Nat
    BY MembersSizes DEF LockInv, CountInv, CountersMatch
  <2> QED BY <2>1 DEF LockInv, Shape, TypeOK
<1> QED BY <1>1, InvariantsHold, PTL

\* The read lock conference_function and conference_find take keeps the object:
\* no conference is destroyed while an ordinary caller or an API thread is in it.
THEOREM LockedStays == Spec => []LockedConferenceStays
BY LockedKept, InvariantsHold, PTL

\* Every lock the teardown waits for comes back: setup_mutex is held by a caller
\* that waits for nobody, and no return of conference_function, conference_outcall
\* or a command leaves its read lock behind.
THEOREM LocksReturn == Spec => []LocksComeBack
<1>1. Init => ReadersInside
  BY DEF Init, ReadersInside
<1>2. Spec => []ReadersInside
  BY <1>1, ReadersStep, InvariantsHold, PTL DEF Spec
<1>3. LockInv /\ ReadersInside => LocksComeBack
  BY DEF LockInv, Shape, SetupHeld, ReadersInside, LocksComeBack
<1> QED BY <1>2, <1>3, InvariantsHold, PTL

\* CFLAG_INHASH and the name table agree, so the monitor of an ended conference
\* never unlists its successor.
THEOREM TableCorrect == Spec => []TableAgrees
<1>1. LockInv => TableAgrees
  BY DEF LockInv
<1> QED BY <1>1, InvariantsHold, PTL

\* The counters conference_member_add and conference_member_del keep are the
\* numbers of members they stand for.
THEOREM CountersCorrect == Spec => []CountersMatch
<1>1. CountInv => CountersMatch
  BY DEF CountInv
<1> QED BY <1>1, InvariantsHold, PTL
=============================================================================
