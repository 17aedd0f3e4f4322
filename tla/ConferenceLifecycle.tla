------------------------- MODULE ConferenceLifecycle -------------------------
(***************************************************************************)
(* The life of a conference object of mod_conference: the name table, the  *)
(* callers that create, find, join and leave a conference, the monitor     *)
(* thread that mixes it and tears it down, and the threads that run an API *)
(* command on it.                                                          *)
(*                                                                         *)
(* One conference name is modelled: names share nothing but the two global *)
(* mutexes.  Each element of Conf is one conference_obj_t, from            *)
(* conference_new to the destruction of its pool; a conference that ends   *)
(* and is called again is a new element.  A critical section under         *)
(* hash_mutex, conference->mutex or member_mutex is one step; setup_mutex, *)
(* which is held across several of them, is a variable.  A step that       *)
(* touches a destroyed conference is undefined behaviour: the thread goes  *)
(* to "undefined" and takes no further step.                               *)
(***************************************************************************)
EXTENDS Naturals, FiniteSets

CONSTANTS
  Caller,         \* the session threads that run conference_function
  Admin,          \* the threads that run "conference <name> <command>"
  Conf,           \* the conference objects conference_new can hand out
  BridgeCaller,   \* the callers whose dial string is "bridge:..."
  GhostCaller,    \* the callers that join with MFLAG_GHOST
  EndconfCaller,  \* the callers that join with MFLAG_ENDCONF
  MintwoCaller,   \* the callers that join with MFLAG_MINTWO
  MaxMembers,     \* conference->max_members, 0 when there is no limit
  MonitorFaults,  \* may the monitor's timer or a write to a member fail?
  NoConf,         \* NULL
  NoThread        \* nobody holds the mutex

ASSUME CallersAssumption ==
  /\ IsFiniteSet(Caller)
  /\ Caller \cap Admin = {}
  /\ NoThread \notin Caller
  /\ BridgeCaller \subseteq Caller
  /\ GhostCaller \subseteq Caller
  /\ EndconfCaller \subseteq Caller
  /\ MintwoCaller \subseteq Caller

ASSUME LimitsAssumption ==
  /\ NoConf \notin Conf
  /\ MaxMembers \in Nat
  /\ MonitorFaults \in BOOLEAN

VARIABLES
  setup_mutex,          \* the caller that holds conference_globals.setup_mutex
  conference_hash,      \* the object the name maps to
  stage,                \* how far the monitor thread of each object has come
  cflags,               \* conference->flags
  min,                  \* conference->min
  count,                \* conference->count
  count_ghosts,         \* conference->count_ghosts
  end_count,            \* conference->end_count
  endconference_time,   \* is conference->endconference_time set?
  members,              \* conference->members
  rwlock,               \* the threads that hold conference->rwlock for reading
  pc,                   \* where each caller or API thread is
  conference,           \* the conference pointer each of them holds
  running               \* MFLAG_RUNNING of each caller's member

confVars == <<stage, cflags, min, count, count_ghosts, end_count,
              endconference_time, members, rwlock>>
threadVars == <<pc, conference, running>>
vars == <<setup_mutex, conference_hash, stage, cflags, min, count, count_ghosts,
          end_count, endconference_time, members, rwlock, pc, conference, running>>

Thread == Caller \cup Admin

(* The stages of conference_thread_run.  "unborn": no object yet; "created":  *)
(* in the name table, no monitor launched; "lost": the monitor returned       *)
(* because its timer could not be set up; "ending": out of the mixing loop;   *)
(* "swept": every member told to leave; "waiting": unlisted, at the write     *)
(* lock; "draining": past the write lock; "freed": the pool is destroyed.     *)
Stage == {"unborn", "created", "starting", "lost", "mixing", "ending", "swept",
          "waiting", "draining", "freed"}

Cflag == {"RUNNING", "DESTRUCT", "INHASH", "DYNAMIC", "ENFORCE_MIN"}

CallerPc == {"out", "find", "new", "arm", "dial", "dialing", "screen", "ready",
             "adding", "loop", "leaving", "refused", "done", "exit", "undefined"}
AdminPc == {"idle", "inside"}

TypeOK ==
  /\ setup_mutex \in Caller \cup {NoThread}
  /\ conference_hash \in Conf \cup {NoConf}
  /\ stage \in [Conf -> Stage]
  /\ cflags \in [Conf -> SUBSET Cflag]
  /\ min \in [Conf -> 0 .. 2]
  /\ count \in [Conf -> Nat]
  /\ count_ghosts \in [Conf -> Nat]
  /\ end_count \in [Conf -> Nat]
  /\ endconference_time \in [Conf -> BOOLEAN]
  /\ members \in [Conf -> SUBSET Caller]
  /\ rwlock \in [Conf -> SUBSET Thread]
  /\ pc \in [Thread -> CallerPc \cup AdminPc]
  /\ conference \in [Thread -> Conf \cup {NoConf}]
  /\ running \in [Caller -> BOOLEAN]

Init ==
  /\ setup_mutex = NoThread
  /\ conference_hash = NoConf
  /\ stage = [c \in Conf |-> "unborn"]
  /\ cflags = [c \in Conf |-> {}]
  /\ min = [c \in Conf |-> 0]
  /\ count = [c \in Conf |-> 0]
  /\ count_ghosts = [c \in Conf |-> 0]
  /\ end_count = [c \in Conf |-> 0]
  /\ endconference_time = [c \in Conf |-> FALSE]
  /\ members = [c \in Conf |-> {}]
  /\ rwlock = [c \in Conf |-> {}]
  /\ pc = [t \in Thread |-> IF t \in Caller THEN "out" ELSE "idle"]
  /\ conference = [t \in Thread |-> NoConf]
  /\ running = [t \in Caller |-> FALSE]

-----------------------------------------------------------------------------
(* Conditions and small updates the steps are built from.                    *)

Has(c, f) == f \in cflags[c]
Alive(c) == stage[c] # "freed"
Goto(t, label) == pc' = [pc EXCEPT ![t] = label]

\* A caller about to run a step that reads or writes its conference object.
At(t, label) == pc[t] = label /\ Alive(conference[t])

Mark(c, f) == cflags' = [cflags EXCEPT ![c] = @ \cup {f}]
RdLock(t, c) == rwlock' = [rwlock EXCEPT ![c] = @ \cup {t}]
RdUnlock(t, c) == rwlock' = [rwlock EXCEPT ![c] = @ \ {t}]

\* Does conference_find return the object the name maps to?  Its tryrdlock can
\* only fail while the monitor holds the write lock, and by then (Unlist) the
\* name no longer maps to the object.
Found == conference_hash # NoConf /\ ~Has(conference_hash, "DESTRUCT")

\* Slip: the flag stays set, and the old monitor deletes its successor's entry.
UnlistKeepingFlag ==
  /\ conference_hash' = NoConf
  /\ UNCHANGED cflags

\* conference_find meets an object that is ending: it takes it out of the table.
UnlistDestructed ==
  IF conference_hash = NoConf
  THEN UNCHANGED <<conference_hash, cflags>>
  ELSE /\ conference_hash' = NoConf
       /\ cflags' = [cflags EXCEPT ![conference_hash] = @ \ {"INHASH"}]

-----------------------------------------------------------------------------
(* A caller in conference_function, up to the conference object.             *)

\* Slip: find and create are not under setup_mutex.
EnterUnlocked(t) ==
  /\ pc[t] = "out"
  /\ setup_mutex' = t
  /\ Goto(t, "find")
  /\ UNCHANGED <<conference_hash, confVars, conference, running>>

Enter(t) ==
  /\ pc[t] = "out"
  /\ setup_mutex = NoThread
  /\ setup_mutex' = t
  /\ Goto(t, "find")
  /\ UNCHANGED <<conference_hash, confVars, conference, running>>

\* A "bridge:" caller must not join an existing conference: it unlocks the
\* object at once, but keeps the pointer, and setup_mutex until done.
FindExisting(t) ==
  /\ pc[t] = "find"
  /\ Found
  /\ conference' = [conference EXCEPT ![t] = conference_hash]
  /\ IF t \in BridgeCaller
     THEN Goto(t, "refused") /\ UNCHANGED <<rwlock, setup_mutex>>
     ELSE /\ RdLock(t, conference_hash)
          /\ setup_mutex' = NoThread
          /\ Goto(t, "screen")
  /\ UNCHANGED <<conference_hash, stage, cflags, min, count, count_ghosts,
                 end_count, endconference_time, members, running>>

FindNothing(t) ==
  /\ pc[t] = "find"
  /\ ~Found
  /\ UnlistDestructed
  /\ Goto(t, "new")
  /\ UNCHANGED <<setup_mutex, stage, min, count, count_ghosts, end_count,
                 endconference_time, members, rwlock, conference, running>>

\* conference_new enters the object in the table; setup_mutex is released.
Create(t) ==
  /\ pc[t] = "new"
  /\ \E c \in Conf :
       /\ stage[c] = "unborn"
       /\ stage' = [stage EXCEPT ![c] = "created"]
       /\ cflags' = [cflags EXCEPT ![c] = {"INHASH"}]
       /\ conference_hash' = c
       /\ conference' = [conference EXCEPT ![t] = c]
  /\ setup_mutex' = NoThread
  /\ Goto(t, "arm")
  /\ UNCHANGED <<min, count, count_ghosts, end_count, endconference_time,
                 members, rwlock, running>>

\* The caller may only join (MFLAG_JOIN_ONLY), or conference_new returned NULL.
RejectNew(t) ==
  /\ pc[t] = "new"
  /\ Goto(t, "refused")
  /\ UNCHANGED <<setup_mutex, conference_hash, confVars, conference, running>>

ReleaseSetup(t) ==
  /\ pc[t] = "refused"
  /\ setup_mutex' = NoThread
  /\ Goto(t, IF conference[t] = NoConf THEN "exit" ELSE "done")
  /\ UNCHANGED <<conference_hash, confVars, conference, running>>

\* The creator makes the conference dynamic, takes a read lock (a "bridge:"
\* caller does not) and launches the monitor.  One step: with no monitor yet
\* nothing can tear the object down between the three, and what others do to
\* the object meanwhile commutes with them (see the README for the minimum).
CreatorLocks(t) == t \notin BridgeCaller

Arm(t) ==
  LET c == conference[t] IN
  /\ At(t, "arm")
  /\ min' = [min EXCEPT ![c] = IF t \in BridgeCaller THEN 2 ELSE 1]
  /\ cflags' = [cflags EXCEPT ![c] = @ \cup {"DYNAMIC", "RUNNING"}]
  /\ stage' = [stage EXCEPT ![c] = "starting"]
  /\ IF CreatorLocks(t) THEN RdLock(t, c) ELSE UNCHANGED rwlock
  /\ Goto(t, IF t \in BridgeCaller THEN "dial" ELSE "screen")
  /\ UNCHANGED <<setup_mutex, conference_hash, count, count_ghosts, end_count,
                 endconference_time, members, conference, running>>

-----------------------------------------------------------------------------
(* The outbound leg of a "bridge:" caller (conference_outcall).  The leg it  *)
(* calls comes back through conference_function: it is another caller.       *)

DialStart(t) ==
  /\ At(t, "dial")
  /\ RdLock(t, conference[t])
  /\ Goto(t, "dialing")
  /\ UNCHANGED <<setup_mutex, conference_hash, stage, cflags, min, count,
                 count_ghosts, end_count, endconference_time, members,
                 conference, running>>

\* conference_outcall reports what originate reported, also when it then finds
\* CFLAG_RUNNING cleared: the caller goes on either way unless originate failed.
DialEnd(t) ==
  /\ At(t, "dialing")
  /\ RdUnlock(t, conference[t])
  /\ \E answered \in BOOLEAN : Goto(t, IF answered THEN "ready" ELSE "done")
  /\ UNCHANGED <<setup_mutex, conference_hash, stage, cflags, min, count,
                 count_ghosts, end_count, endconference_time, members,
                 conference, running>>

-----------------------------------------------------------------------------
(* PIN, lock and room: a caller that holds the read lock but is no member.   *)

HasRoom(c) == MaxMembers = 0 \/ count[c] < MaxMembers

ScreenPass(t) ==
  /\ At(t, "screen")
  /\ HasRoom(conference[t])
  /\ Goto(t, "ready")
  /\ UNCHANGED <<setup_mutex, conference_hash, confVars, conference, running>>

\* A wrong PIN, a locked conference or a full one.
ScreenReject(t) ==
  /\ At(t, "screen")
  /\ Goto(t, "done")
  /\ UNCHANGED <<setup_mutex, conference_hash, confVars, conference, running>>

\* Media set up, flags copied; MFLAG_MINTWO raises the minimum before the add.
Setup(t) ==
  LET c == conference[t] IN
  /\ At(t, "ready")
  /\ min' = [min EXCEPT ![c] = IF t \in MintwoCaller THEN 2 ELSE @]
  /\ Goto(t, "adding")
  /\ UNCHANGED <<setup_mutex, conference_hash, stage, cflags, count,
                 count_ghosts, end_count, endconference_time, members, rwlock,
                 conference, running>>

SetupFails(t) ==
  /\ At(t, "ready")
  /\ Goto(t, "done")
  /\ UNCHANGED <<setup_mutex, conference_hash, confVars, conference, running>>

-----------------------------------------------------------------------------
(* A member.                                                                 *)

\* conference_member_add.  It looks at neither CFLAG_DESTRUCT nor
\* CFLAG_RUNNING, and does not count again against max_members.
Add(t) ==
  LET c == conference[t]
      n == IF t \in GhostCaller THEN count[c] ELSE count[c] + 1 IN
  /\ At(t, "adding")
  /\ members' = [members EXCEPT ![c] = @ \cup {t}]
  /\ count' = [count EXCEPT ![c] = n]
  /\ count_ghosts' = [count_ghosts EXCEPT ![c] = IF t \in GhostCaller THEN @ + 1 ELSE @]
  /\ end_count' = [end_count EXCEPT ![c] = IF t \in EndconfCaller THEN @ + 1 ELSE @]
  /\ endconference_time' = [endconference_time EXCEPT
       ![c] = @ /\ ~(t \in EndconfCaller /\ end_count[c] > 0)]
  /\ IF min[c] > 0 /\ n >= min[c] THEN Mark(c, "ENFORCE_MIN") ELSE UNCHANGED cflags
  /\ running' = [running EXCEPT ![t] = TRUE]
  /\ Goto(t, "loop")
  /\ UNCHANGED <<setup_mutex, conference_hash, stage, min, rwlock, conference>>

\* The caller hangs up, or its media fails: the loop clears MFLAG_RUNNING.
HangUp(t) ==
  /\ At(t, "loop")
  /\ running[t]
  /\ running' = [running EXCEPT ![t] = FALSE]
  /\ UNCHANGED <<setup_mutex, conference_hash, confVars, pc, conference>>

Leave(t) ==
  /\ At(t, "loop")
  /\ ~running[t]
  /\ Goto(t, "leaving")
  /\ UNCHANGED <<setup_mutex, conference_hash, confVars, conference, running>>

\* Slip: the count before the departure is compared.
EndsWithStale(c, n, g) ==
  \/ min[c] > 0 /\ Has(c, "ENFORCE_MIN") /\ n + g + 1 < min[c]
  \/ Has(c, "DYNAMIC") /\ n + g = 0

\* With n and g members and ghosts left, does the last one out end the
\* conference?
EndsWith(c, n, g) ==
  \/ min[c] > 0 /\ Has(c, "ENFORCE_MIN") /\ n + g < min[c]
  \/ Has(c, "DYNAMIC") /\ n + g = 0

CountWithoutAny(t, c) == count[c] - 1    \* slip: a ghost leaves the main count
GhostsForgotten(t, c) == count_ghosts[c] \* slip: a ghost is never uncounted

CountWithout(t, c) == IF t \in GhostCaller THEN count[c] ELSE count[c] - 1
GhostsWithout(t, c) == IF t \in GhostCaller THEN count_ghosts[c] - 1 ELSE count_ghosts[c]

\* conference_member_del.
Del(t) ==
  LET c == conference[t]
      n == CountWithout(t, c)
      g == GhostsWithout(t, c) IN
  /\ At(t, "leaving")
  /\ members' = [members EXCEPT ![c] = @ \ {t}]
  /\ count' = [count EXCEPT ![c] = n]
  /\ count_ghosts' = [count_ghosts EXCEPT ![c] = g]
  /\ end_count' = [end_count EXCEPT ![c] = IF t \in EndconfCaller THEN @ - 1 ELSE @]
  /\ endconference_time' = [endconference_time EXCEPT
       ![c] = @ \/ (t \in EndconfCaller /\ end_count[c] = 1)]
  /\ IF EndsWith(c, n, g) THEN Mark(c, "DESTRUCT") ELSE UNCHANGED cflags
  /\ Goto(t, "done")
  /\ UNCHANGED <<setup_mutex, conference_hash, stage, min, rwlock, conference, running>>

\* Slip: only a conference that has had members is ended.
EmptiedOnce(c) ==
  Has(c, "ENFORCE_MIN") /\ Has(c, "DYNAMIC") /\ count[c] = 0 /\ count_ghosts[c] = 0

Emptied(c) == Has(c, "DYNAMIC") /\ count[c] = 0 /\ count_ghosts[c] = 0

\* The "done:" block, member or not: nobody in a dynamic conference, it ends.
Done(t) ==
  LET c == conference[t] IN
  /\ At(t, "done")
  /\ IF Emptied(c) THEN Mark(c, "DESTRUCT") ELSE UNCHANGED cflags
  /\ Goto(t, "exit")
  /\ UNCHANGED <<setup_mutex, conference_hash, stage, min, count, count_ghosts,
                 end_count, endconference_time, members, rwlock, conference, running>>

Exit(t) ==
  /\ pc[t] = "exit"
  /\ rwlock' = [c \in Conf |-> IF c = conference[t] THEN rwlock[c] \ {t} ELSE rwlock[c]]
  /\ conference' = [conference EXCEPT ![t] = NoConf]
  /\ Goto(t, "out")
  /\ UNCHANGED <<setup_mutex, conference_hash, stage, cflags, min, count,
                 count_ghosts, end_count, endconference_time, members, running>>

\* The next step of t reads a conference object whose pool is gone.
UsesConference == {"arm", "dial", "dialing", "screen", "ready", "adding", "loop",
                   "leaving", "done"}

UseAfterFree(t) ==
  /\ pc[t] \in UsesConference
  /\ ~Alive(conference[t])
  /\ Goto(t, "undefined")
  /\ UNCHANGED <<setup_mutex, conference_hash, confVars, conference, running>>

-----------------------------------------------------------------------------
(* An API thread: conference_find, one command, unlock.                      *)

AdminFind(a) ==
  /\ pc[a] = "idle"
  /\ Found
  /\ conference' = [conference EXCEPT ![a] = conference_hash]
  /\ RdLock(a, conference_hash)
  /\ Goto(a, "inside")
  /\ UNCHANGED <<setup_mutex, conference_hash, stage, cflags, min, count,
                 count_ghosts, end_count, endconference_time, members, running>>

AdminMiss(a) ==
  /\ pc[a] = "idle"
  /\ conference_hash # NoConf
  /\ ~Found
  /\ UnlistDestructed
  /\ UNCHANGED <<setup_mutex, stage, min, count, count_ghosts, end_count,
                 endconference_time, members, rwlock, threadVars>>

AdminKick(a) ==
  /\ pc[a] = "inside"
  /\ \E m \in members[conference[a]] :
       /\ running[m]
       /\ running' = [running EXCEPT ![m] = FALSE]
  /\ UNCHANGED <<setup_mutex, conference_hash, confVars, pc, conference>>

AdminDone(a) ==
  /\ pc[a] = "inside"
  /\ RdUnlock(a, conference[a])
  /\ conference' = [conference EXCEPT ![a] = NoConf]
  /\ Goto(a, "idle")
  /\ UNCHANGED <<setup_mutex, conference_hash, stage, cflags, min, count,
                 count_ghosts, end_count, endconference_time, members, running>>

-----------------------------------------------------------------------------
(* The monitor thread of a conference (conference_thread_run).               *)

Advance(c, from, to) ==
  /\ stage[c] = from
  /\ stage' = [stage EXCEPT ![c] = to]

MonitorStart(c) ==
  /\ Advance(c, "starting", "mixing")
  /\ UNCHANGED <<setup_mutex, conference_hash, cflags, min, count, count_ghosts,
                 end_count, endconference_time, members, rwlock, threadVars>>

\* The timer cannot be set up: the thread returns, and nothing is undone.
MonitorLost(c) ==
  /\ MonitorFaults
  /\ Advance(c, "starting", "lost")
  /\ UNCHANGED <<setup_mutex, conference_hash, cflags, min, count, count_ghosts,
                 end_count, endconference_time, members, rwlock, threadVars>>

\* A pass of the mixing loop ends the conference: the grace time after the last
\* MFLAG_ENDCONF member is over, or nobody has talked for too long.
GraceOver(c) == end_count[c] = 0 /\ endconference_time[c]

MixEnds(c) ==
  /\ stage[c] = "mixing"
  /\ ~Has(c, "DESTRUCT")
  /\ GraceOver(c) \/ count[c] > 1
  /\ Mark(c, "DESTRUCT")
  /\ UNCHANGED <<setup_mutex, conference_hash, stage, min, count, count_ghosts,
                 end_count, endconference_time, members, rwlock, threadVars>>

StopMixing(c) ==
  /\ Has(c, "DESTRUCT")
  /\ Advance(c, "mixing", "ending")
  /\ UNCHANGED <<setup_mutex, conference_hash, cflags, min, count, count_ghosts,
                 end_count, endconference_time, members, rwlock, threadVars>>

TimerBreaks(c) ==
  /\ MonitorFaults
  /\ Advance(c, "mixing", "ending")
  /\ Mark(c, "DESTRUCT")
  /\ UNCHANGED <<setup_mutex, conference_hash, min, count, count_ghosts,
                 end_count, endconference_time, members, rwlock, threadVars>>

\* A member's buffer refuses the frame: the monitor leaves the loop, unmarked.
WriteFails(c) ==
  /\ MonitorFaults
  /\ \E m \in members[c] : running[m]
  /\ Advance(c, "mixing", "ending")
  /\ UNCHANGED <<setup_mutex, conference_hash, cflags, min, count, count_ghosts,
                 end_count, endconference_time, members, rwlock, threadVars>>

ToldNobody(t, c) == FALSE   \* slip: the channels are hung up, the flag stays
ToldToStop(t, c) == t \in members[c]

\* Every member in the list is hung up and told to stop.
Sweep(c) ==
  /\ Advance(c, "ending", "swept")
  /\ running' = [t \in Caller |-> running[t] /\ ~ToldToStop(t, c)]
  /\ UNCHANGED <<setup_mutex, conference_hash, cflags, min, count, count_ghosts,
                 end_count, endconference_time, members, rwlock, pc, conference>>

Unlist(c) ==
  /\ Advance(c, "swept", "waiting")
  /\ conference_hash' = IF Has(c, "INHASH") THEN NoConf ELSE conference_hash
  /\ cflags' = [cflags EXCEPT ![c] = @ \ {"RUNNING"}]
  /\ UNCHANGED <<setup_mutex, min, count, count_ghosts, end_count,
                 endconference_time, members, rwlock, threadVars>>

ReadersIgnored(c) == TRUE   \* slip: the write lock is not taken

\* "Wait till everybody is out": the write lock is taken and released.
Unread(c) == rwlock[c] = {}

WriteLock(c) ==
  /\ Unread(c)
  /\ Advance(c, "waiting", "draining")
  /\ UNCHANGED <<setup_mutex, conference_hash, cflags, min, count, count_ghosts,
                 end_count, endconference_time, members, rwlock, threadVars>>

\* The layouts go under setup_mutex, then the pool.
Free(c) ==
  /\ setup_mutex = NoThread
  /\ Advance(c, "draining", "freed")
  /\ UNCHANGED <<setup_mutex, conference_hash, cflags, min, count, count_ghosts,
                 end_count, endconference_time, members, rwlock, threadVars>>

-----------------------------------------------------------------------------
CallerStep(t) ==
  \/ FindExisting(t) \/ FindNothing(t) \/ Create(t) \/ RejectNew(t)
  \/ ReleaseSetup(t) \/ Arm(t) \/ DialStart(t) \/ DialEnd(t)
  \/ ScreenPass(t) \/ ScreenReject(t) \/ Setup(t) \/ SetupFails(t) \/ Add(t)
  \/ Leave(t) \/ Del(t) \/ Done(t) \/ Exit(t)

AdminStep(a) == AdminFind(a) \/ AdminMiss(a) \/ AdminKick(a) \/ AdminDone(a)

MonitorStep(c) ==
  \/ MonitorStart(c) \/ StopMixing(c) \/ Sweep(c) \/ Unlist(c) \/ WriteLock(c)

MonitorEvent(c) == MonitorLost(c) \/ MixEnds(c) \/ TimerBreaks(c) \/ WriteFails(c)

Next ==
  \/ \E t \in Caller : Enter(t) \/ CallerStep(t) \/ HangUp(t) \/ UseAfterFree(t)
  \/ \E a \in Admin : AdminStep(a)
  \/ \E c \in Conf : MonitorStep(c) \/ MonitorEvent(c) \/ Free(c)

Spec == Init /\ [][Next]_vars

(* Every thread that can go on does: no wait in CallerStep is unbounded (the  *)
(* PIN prompt and the outbound call time out).  Nothing obliges a caller to   *)
(* call or to hang up, or an API command to come.  The teardown competes for  *)
(* setup_mutex with every new call; it is assumed not to be passed over for   *)
(* ever.                                                                      *)
Fairness ==
  /\ \A t \in Caller : WF_vars(CallerStep(t))
  /\ \A a \in Admin : WF_vars(AdminDone(a))
  /\ \A c \in Conf : WF_vars(MonitorStep(c)) /\ SF_vars(Free(c))

FairSpec == Spec /\ Fairness

-----------------------------------------------------------------------------
(* Properties.                                                               *)

\* Who is using conference c: the callers between conference_find or
\* conference_new and the end of conference_function, and the API threads.
Inside(c) == {t \in Thread : conference[t] = c}

\* "acquire a read lock on the thread so it can't leave without us": the object
\* an ordinary caller or an API thread works on is never destroyed under it,
\* whatever the monitor, the other callers and the "bridge:" callers do.
LockedConferenceStays ==
  \A t \in Thread \ BridgeCaller :
    conference[t] # NoConf => Alive(conference[t])

\* "Wait till everybody is out": no caller at all touches a conference after
\* its pool is gone.
EverybodyOut == \A t \in Caller : pc[t] # "undefined"

\* CFLAG_INHASH and the name table agree: the name maps to the one object that
\* carries the flag and whose monitor has not unlisted it.  The monitor of an
\* ended conference then never takes the entry of its successor away, and no
\* object is destroyed while conference_find can still return it.
Listable == {"created", "starting", "lost", "mixing", "ending", "swept"}

TableAgrees ==
  \A c \in Conf : conference_hash = c <=> (Has(c, "INHASH") /\ stage[c] \in Listable)

\* The three counters the lifetime decisions are taken on are the numbers of
\* members they stand for, and a member is a caller in its loop or leaving it.
CountersMatch ==
  \A c \in Conf :
    /\ count[c] = Cardinality(members[c] \ GhostCaller)
    /\ count_ghosts[c] = Cardinality(members[c] \cap GhostCaller)
    /\ end_count[c] = Cardinality(members[c] \cap EndconfCaller)

\* No conference is left behind: one that is not marked for destruction, and
\* whose monitor was not lost to a fault, still has a caller inside that will
\* run the "done:" block before it goes.
NoOrphan ==
  \A c \in Conf :
    stage[c] \in {"created", "starting", "mixing"} /\ ~Has(c, "DESTRUCT")
      => Inside(c) \cap Caller # {}

\* "once you go above it you cannot go below it": a conference that reached its
\* minimum and has fewer members is ending, or a MFLAG_MINTWO caller has just
\* raised the minimum and is about to be added.
MinimumEnforced ==
  \A c \in Conf :
    Alive(c) /\ Has(c, "ENFORCE_MIN") /\ count[c] + count_ghosts[c] < min[c]
      => \/ Has(c, "DESTRUCT")
         \/ \E t \in MintwoCaller : conference[t] = c /\ pc[t] = "adding"

\* "dont allow more callers than the max_members allows for".
MaxMembersRespected ==
  MaxMembers > 0 => \A c \in Conf : count[c] <= MaxMembers

\* When every caller has gone for good, every conference is destroyed, and
\* stays so: no read lock, flag or table entry keeps one alive.
NobodyLeft == \A t \in Caller : pc[t] = "out"

NoConferenceLeaks ==
  <>[]NobodyLeft => <>[](\A c \in Conf : stage[c] \in {"unborn", "freed"})

\* Nobody holds the conference on the way to becoming a member of it.  A caller
\* that does may be added after the monitor has told the members to leave
\* (conference_member_add looks at no flag), and then nothing stops its loop.
NobodyEntering(c) ==
  \A t \in Inside(c) :
    pc[t] \notin {"arm", "dial", "dialing", "screen", "ready", "adding"}

\* A conference marked for destruction is destroyed without any caller having
\* to hang up, provided nobody is on the way in when it is marked.
EndingConferenceEnds ==
  \A c \in Conf :
    (Has(c, "DESTRUCT") /\ stage[c] = "mixing" /\ NobodyEntering(c)) ~> ~Alive(c)

-----------------------------------------------------------------------------
(* The lifecycle implements RoomRegistry for everyone who is let in under    *)
(* the read lock: a room is an object, listed while the name maps to it.     *)

RoomState(c) ==
  IF stage[c] \in {"unborn", "freed"}
  THEN (IF stage[c] = "unborn" THEN "unborn" ELSE "gone")
  ELSE IF conference_hash = c THEN "listed" ELSE "unlisted"

LockedGuest == Thread \ BridgeCaller

Registry == INSTANCE RoomRegistry WITH
  Guest <- LockedGuest,
  Room <- Conf,
  state <- [c \in Conf |-> RoomState(c)],
  inside <- [c \in Conf |-> {t \in LockedGuest : conference[t] = c}]

\* A caller let in by name gets the one listed room, and the room stays until
\* it leaves: conference_find, the locks of conference_function and the
\* monitor's teardown together keep the promise of RoomRegistry.
KeepsRegistryPromise == Registry!RegSpec
=============================================================================
