---------------------------- MODULE SofiaProfile ----------------------------
(***************************************************************************)
(* mod_sofia (sofia.c, mod_sofia.c, sofia_glue.c): one SIP profile, from   *)
(* the start of its thread until its memory is freed, the queue of SIP     *)
(* events that all profiles share and the threads that work it off, and    *)
(* the unloading of the module.                                            *)
(*                                                                         *)
(* Threads: the profile's own, which runs the SIP stack and so is the one  *)
(* that calls sofia_event_callback; its worker; the message threads; a     *)
(* thread per REGISTER, if configured; those of the calls; the users, who  *)
(* hold the profile by a read lock (commands, outbound calls); the one     *)
(* that unloads the module.  What keeps the profile's memory from being    *)
(* freed too early are two counts, queued_events and inuse, a read-write   *)
(* lock, and PFLAG_DESTROY, by which a call that outlives the profile is   *)
(* left to free it.  Every wait for calls or events ends after a number of *)
(* steps; gaveUp remembers that something was still there then.            *)
(*                                                                         *)
(* The SIP stack and the core's sessions are external.  What an event      *)
(* does is left out, but for nua_r_shutdown; so are gateways, the          *)
(* database, respawning, and calls that are detached and attached again.   *)
(***************************************************************************)
EXTENDS Integers, Sequences, FiniteSets

CONSTANTS
  Events,          \* the events the stack reports, each once
  Registers,       \* those that are nua_i_register
  Calls,           \* the sessions of the profile
  Users,           \* those who find the profile by name
  max_msg_queues, SOFIA_MSG_QUEUE_SIZE,
  max_reg_threads  \* 0: no thread per REGISTER (PFLAG_THREAD_PER_REG)

\* The names of events and calls are not those of the places and phases below.
ASSUME SofiaProfileAssumption ==
  /\ Events \cap {"r_shutdown", "NULL", "none", "created", "idle", "ended"} = {}
  /\ Calls \cap {"none", "pushing", "queue", "busy", "launched", "own", "lost", "handled"} = {}
  /\ Registers \subseteq Events
  /\ max_msg_queues \in Nat /\ max_msg_queues >= 2
  /\ SOFIA_MSG_QUEUE_SIZE \in Nat \ {0} /\ max_reg_threads \in Nat

VARIABLES
  running,   \* mod_sofia_globals.running
  loaded,    \* the load function has started the first message thread
  unload,    \* "no", "waiting" for the profile, "pills", "joining", "done"
  pc,        \* the profile's thread: "start", "launch", "root",
             \* "shutdown", "join", "lock", "destroy", "flag", "over"
  pflags,    \* "RUNNING", "WORKER_RUNNING", "SHUTDOWN", "DESTROY"
  worker,    \* "none", "running", "ended"
  table,     \* the profile is in profile_hash, its own hashes exist
  pool,      \* its memory: "held", "freed"
  where,     \* an event: "none", "pushing", "queue", "busy" (a message thread has it),
             \* "launched", "own" (a thread of its own), "lost", "handled", or a call
  queued_events,
  msg_queue, \* of events and NULL
  thread,    \* msg_queue_thread: "none", "created", "idle", "ended", or its event
  sess,      \* "none", "up", "left" (no longer counted), "gone", "undefined"
  inuse,
  user,      \* "out", "in" (holds the read lock)
  gaveUp     \* history: what was given up waiting for, "events", the profile's "threads"

profilevars == <<pc, pflags, worker, table, pool>>
eventvars == <<where, queued_events, msg_queue, thread>>
callvars == <<sess, inuse, user>>
modulevars == <<running, loaded, unload>>
spvars == <<profilevars, eventvars, callvars, modulevars, gaveUp>>

NULL == "NULL"
r_shutdown == "r_shutdown"   \* the stack's answer to nua_shutdown
AllEvents == Events \cup {r_shutdown}
Slots == 0 .. max_msg_queues - 1
Put(f, x, v) == [f EXCEPT ![x] = v]

msg_queue_len == Cardinality({i \in Slots : thread[i] # "none"})
msg_queue_threads == Cardinality({i \in Slots : thread[i] \notin {"none", "created", "ended"}})
DE_THREAD_CNT == Cardinality({e \in AllEvents : where[e] = "own"})
Capacity == SOFIA_MSG_QUEUE_SIZE * max_msg_queues
critical == (Capacity * 900) \div 1000

\* The module is being loaded, the profile's thread has been launched.
SpInit ==
  /\ running = TRUE /\ loaded = FALSE /\ unload = "no"
  /\ pc = "start" /\ pflags = {} /\ worker = "none" /\ table = FALSE /\ pool = "held"
  /\ where = [e \in AllEvents |-> "none"] /\ queued_events = 0 /\ msg_queue = <<>>
  /\ thread = [i \in Slots |-> "none"]
  /\ sess = [s \in Calls |-> "none"] /\ inuse = 0
  /\ user = [u \in Users |-> "out"] /\ gaveUp = {}

-----------------------------------------------------------------------------
(***************************************************************************)
(* Message threads                                                         *)
(***************************************************************************)

\* sofia_msg_thread_start: all the slots up to idx are filled.
WithThread(idx) ==
  IF idx >= max_msg_queues \/ idx < msg_queue_len THEN thread
  ELSE [i \in Slots |-> IF i <= idx /\ thread[i] = "none" THEN "created" ELSE thread[i]]

\* mod_sofia_load starts the first one after the profiles.
LoadEnds ==
  /\ ~loaded /\ loaded' = TRUE
  /\ thread' = WithThread(0)
  /\ UNCHANGED <<running, unload, profilevars, where, queued_events, msg_queue, callvars, gaveUp>>

\* sofia_process_dispatch_event: only nua_r_shutdown has an effect here, and the
\* event is counted off when it has been processed.
Process(e) ==
  /\ queued_events' = queued_events - 1
  /\ where' = Put(where, e, "handled")
  /\ pflags' = pflags \cup (IF e = r_shutdown THEN {"SHUTDOWN"} ELSE {})
  /\ UNCHANGED <<pc, worker, table, pool, callvars, modulevars, gaveUp>>

\* Slip: counted off when it is taken.
ThreadPopsCountedOff(i) ==
  /\ thread[i] = "idle" /\ msg_queue # <<>>
  /\ msg_queue' = Tail(msg_queue)
  /\ LET e == Head(msg_queue) IN
       IF e = NULL THEN thread' = Put(thread, i, "ended") /\ UNCHANGED <<where, queued_events>>
       ELSE /\ thread' = Put(thread, i, e) /\ where' = Put(where, e, "busy")
            /\ queued_events' = queued_events - 1
  /\ UNCHANGED <<profilevars, callvars, modulevars, gaveUp>>

\* sofia_msg_thread_run
ThreadStarts(i) ==
  /\ thread[i] = "created" /\ thread' = Put(thread, i, "idle")
  /\ UNCHANGED <<profilevars, where, queued_events, msg_queue, callvars, modulevars, gaveUp>>
ThreadPops(i) ==
  /\ thread[i] = "idle" /\ msg_queue # <<>>
  /\ msg_queue' = Tail(msg_queue)
  /\ LET e == Head(msg_queue) IN
       IF e = NULL THEN thread' = Put(thread, i, "ended") /\ UNCHANGED where
       ELSE thread' = Put(thread, i, e) /\ where' = Put(where, e, "busy")
  /\ UNCHANGED <<profilevars, queued_events, callvars, modulevars, gaveUp>>
ThreadProcesses(i) ==
  /\ thread[i] \in AllEvents
  /\ Process(thread[i]) /\ thread' = Put(thread, i, "idle")
  /\ UNCHANGED msg_queue
ThreadSteps(i) == ThreadStarts(i) \/ ThreadPops(i) \/ ThreadProcesses(i)

\* sofia_msg_thread_run_once: the thread counts itself when it runs, so that
\* several may be launched under the limit.
OwnThread(e) ==
  \/ /\ where[e] = "launched" /\ where' = Put(where, e, "own")
     /\ UNCHANGED <<profilevars, queued_events, msg_queue, thread, callvars, modulevars, gaveUp>>
  \/ where[e] = "own" /\ Process(e) /\ UNCHANGED <<msg_queue, thread>>

-----------------------------------------------------------------------------
(***************************************************************************)
(* sofia_event_callback, in the profile's thread while it steps the stack  *)
(***************************************************************************)
Pushing == \E e \in AllEvents : where[e] = "pushing"
Stepping == pc \in {"root", "shutdown"} /\ ~Pushing
MayReport(e) == Stepping /\ where[e] = "none" /\ (e = r_shutdown => pc = "shutdown")

\* sofia_queue_message while the module runs: a thread of its own, or the
\* queue, which gets more threads when it is long.
Report(e) ==
  /\ MayReport(e) /\ running
  /\ queued_events' = queued_events + 1
  /\ \/ /\ e \in Registers /\ DE_THREAD_CNT < max_reg_threads
        /\ where' = Put(where, e, "launched") /\ UNCHANGED thread
     \/ /\ where' = Put(where, e, "pushing")
        /\ thread' = IF Len(msg_queue) > SOFIA_MSG_QUEUE_SIZE * msg_queue_threads
                     THEN WithThread(msg_queue_len + 1) ELSE thread
  /\ UNCHANGED <<profilevars, msg_queue, callvars, modulevars, gaveUp>>

\* The thread waits while the queue is full.
Push ==
  /\ Len(msg_queue) < Capacity
  /\ \E e \in AllEvents : /\ where[e] = "pushing"
                          /\ where' = Put(where, e, "queue") /\ msg_queue' = Append(msg_queue, e)
  /\ UNCHANGED <<profilevars, queued_events, thread, callvars, modulevars, gaveUp>>

\* Once the module stops the event is processed at once.
ReportDirectly(e) ==
  /\ MayReport(e) /\ ~running
  /\ where' = Put(where, e, "handled")
  /\ pflags' = pflags \cup (IF e = r_shutdown THEN {"SHUTDOWN"} ELSE {})
  /\ UNCHANGED <<pc, worker, table, pool, queued_events, msg_queue, thread, callvars,
                 modulevars, gaveUp>>

\* An event of a call goes to the thread of the call.
ReportToCall(e, s) ==
  /\ MayReport(e) /\ e \in Events \ Registers /\ sess[s] = "up"
  /\ queued_events' = queued_events + 1 /\ where' = Put(where, e, s)
  /\ UNCHANGED <<profilevars, msg_queue, thread, callvars, modulevars, gaveUp>>

\* An INVITE makes a call, which is counted at once.  If it gets no thread it is
\* destroyed, but the event stays counted (:2621-2636).
ReportInvite(e, s) ==
  /\ MayReport(e) /\ e \in Events \ Registers /\ sess[s] = "none"
  /\ "RUNNING" \in pflags /\ Len(msg_queue) <= critical
  /\ queued_events' = queued_events + 1
  /\ \/ /\ sess' = Put(sess, s, "up") /\ inuse' = inuse + 1
        /\ where' = Put(where, e, s)
     \/ /\ sess' = Put(sess, s, "gone") /\ UNCHANGED inuse
        /\ where' = Put(where, e, "lost")
  /\ UNCHANGED <<profilevars, msg_queue, thread, user, modulevars, gaveUp>>

-----------------------------------------------------------------------------
(***************************************************************************)
(* Calls and users                                                         *)
(***************************************************************************)

\* sofia_receive_message, SWITCH_MESSAGE_INDICATE_SIGNAL_DATA
CallProcesses(s) ==
  /\ sess[s] = "up"
  /\ \E e \in Events : where[e] = s /\ Process(e)
  /\ UNCHANGED <<msg_queue, thread>>

\* sofia_on_destroy: the name is taken out of a hash that may be gone with the
\* profile, unless the call has no call-id; then the call is counted off.  What
\* it has not processed is lost, as far as this code tells.
OnDestroy(s) ==
  /\ sess[s] = "up"
  /\ \/ /\ sess' = Put(sess, s, "left") /\ inuse' = inuse - 1
     \/ /\ ~table
        /\ sess' = Put(sess, s, "undefined") /\ UNCHANGED inuse
  /\ where' = [e \in AllEvents |-> IF where[e] = s THEN "lost" ELSE where[e]]
  /\ UNCHANGED <<profilevars, queued_events, msg_queue, thread, user, modulevars, gaveUp>>

\* Only then does it look whether it has to free the profile: memory that others
\* may have freed meanwhile.
LastOneFrees(s) ==
  /\ sess[s] = "left"
  /\ IF pool = "freed"
     THEN sess' = Put(sess, s, "undefined") /\ UNCHANGED pool
     ELSE /\ sess' = Put(sess, s, "gone")
          /\ pool' = IF "DESTROY" \in pflags /\ inuse = 0 THEN "freed" ELSE "held"
  /\ UNCHANGED <<pc, pflags, worker, table, eventvars, inuse, user, modulevars, gaveUp>>

\* sofia_glue_find_profile; sofia_outgoing_channel (sofia_glue_attach_private);
\* sofia_glue_release_profile.
FindProfile(u) ==
  /\ user[u] = "out" /\ table /\ "RUNNING" \in pflags
  /\ user' = Put(user, u, "in")
  /\ UNCHANGED <<profilevars, eventvars, sess, inuse, modulevars, gaveUp>>
AttachOutbound(u, s) ==
  /\ user[u] = "in" /\ sess[s] = "none"
  /\ sess' = Put(sess, s, "up") /\ inuse' = inuse + 1
  /\ UNCHANGED <<profilevars, eventvars, user, modulevars, gaveUp>>
ReleaseProfile(u) ==
  /\ user[u] = "in" /\ user' = Put(user, u, "out")
  /\ UNCHANGED <<profilevars, eventvars, sess, inuse, modulevars, gaveUp>>

\* "stop" and "restart" clear the flag, so does restart all; none of them in the
\* first ten seconds, when the module may still be loading.
StopProfile ==
  /\ loaded /\ table /\ "RUNNING" \in pflags
  /\ pflags' = pflags \ {"RUNNING"}
  /\ UNCHANGED <<pc, worker, table, pool, eventvars, callvars, modulevars, gaveUp>>

-----------------------------------------------------------------------------
(***************************************************************************)
(* The worker and the profile's thread                                     *)
(***************************************************************************)

\* sofia_profile_worker_thread_run: the profile's thread waits for it to start
\* (in time, here), and steps the stack from then on.
WorkerStarts ==
  /\ pc = "launch" /\ pc' = "root"
  /\ worker' = "running" /\ pflags' = pflags \cup {"WORKER_RUNNING"}
  /\ UNCHANGED <<table, pool, eventvars, callvars, modulevars, gaveUp>>
\* Slip: the worker looks at its module only.
WorkerEndsWithModule ==
  /\ worker = "running" /\ ~running
  /\ worker' = "ended" /\ pflags' = pflags \ {"WORKER_RUNNING"}
  /\ UNCHANGED <<pc, table, pool, eventvars, callvars, modulevars, gaveUp>>

WorkerEnds ==
  /\ worker = "running" /\ ~(running /\ "RUNNING" \in pflags)
  /\ worker' = "ended" /\ pflags' = pflags \ {"WORKER_RUNNING"}
  /\ UNCHANGED <<pc, table, pool, eventvars, callvars, modulevars, gaveUp>>

\* sofia_profile_thread_run: no database or no port, and the thread ends; its
\* memory stays.
StartFails ==
  /\ pc = "start" /\ pc' = "over"
  /\ UNCHANGED <<pflags, worker, table, pool, eventvars, callvars, modulevars, gaveUp>>
Start ==
  /\ pc = "start" /\ pc' = "launch"
  /\ table' = TRUE /\ pflags' = {"RUNNING"}
  /\ UNCHANGED <<worker, pool, eventvars, callvars, modulevars, gaveUp>>

\* The loop ends by any of three flags.  The calls are hung up and waited for ten steps at most, then
\* the stack is told to shut down.
LeaveRoot ==
  /\ pc = "root" /\ ~Pushing
  /\ ~(running /\ {"RUNNING", "WORKER_RUNNING"} \subseteq pflags)
  /\ pc' = "shutdown" /\ pflags' = pflags \ {"RUNNING"}
  /\ UNCHANGED <<worker, table, pool, eventvars, callvars, modulevars, gaveUp>>

\* Wait for the answer to nua_shutdown and for all events; given up after a
\* hundred steps.
EventsWaited ==
  /\ pc = "shutdown" /\ ~Pushing
  /\ pc' = "join" /\ pflags' = pflags \ {"RUNNING", "SHUTDOWN"}
  /\ gaveUp' = gaveUp \cup (IF queued_events > 0 THEN {"events"} ELSE {})
  /\ UNCHANGED <<worker, table, pool, eventvars, callvars, modulevars>>

\* The worker is joined; then calls are waited for, four times at most.
JoinWorker ==
  /\ pc = "join" /\ worker = "ended" /\ pc' = "lock"
  /\ UNCHANGED <<pflags, worker, table, pool, eventvars, callvars, modulevars, gaveUp>>

\* Under the write lock: sofia_glue_del_profile, and the hashes go.
DelProfile ==
  /\ pc = "lock" /\ \A u \in Users : user[u] = "out"
  /\ pc' = "destroy" /\ table' = FALSE
  /\ UNCHANGED <<pflags, worker, pool, eventvars, callvars, modulevars, gaveUp>>

\* sofia_profile_destroy looks at inuse, then acts.
DestroyProfile ==
  \/ /\ pc = "destroy" /\ UNCHANGED pflags
     /\ IF inuse = 0 THEN pool' = "freed" /\ pc' = "over"
                     ELSE UNCHANGED pool /\ pc' = "flag"
     /\ UNCHANGED <<worker, table, eventvars, callvars, modulevars, gaveUp>>
  \/ /\ pc = "flag" /\ pc' = "over" /\ pflags' = pflags \cup {"DESTROY"}
     /\ UNCHANGED <<worker, table, pool, eventvars, callvars, modulevars, gaveUp>>

ProfileSteps == \/ Push \/ Start \/ StartFails \/ LeaveRoot \/ EventsWaited
                \/ JoinWorker \/ DelProfile \/ DestroyProfile

-----------------------------------------------------------------------------
(***************************************************************************)
(* mod_sofia_shutdown_cleanup                                              *)
(***************************************************************************)
UnloadBegins ==
  /\ loaded /\ unload = "no"
  /\ running' = FALSE /\ unload' = "waiting"
  /\ UNCHANGED <<loaded, profilevars, eventvars, callvars, gaveUp>>

\* Slip: the profiles are not waited for.
ThreadsNotWaited ==
  /\ unload = "waiting" /\ unload' = "pills"
  /\ UNCHANGED <<running, loaded, profilevars, eventvars, callvars, gaveUp>>

\* `threads' is zero, or was looked at sixty thousand times.
ThreadsWaited ==
  /\ unload = "waiting" /\ unload' = "pills"
  /\ gaveUp' = gaveUp \cup (IF pc # "over" THEN {"threads"} ELSE {})
  /\ UNCHANGED <<running, loaded, profilevars, eventvars, callvars>>

\* A NULL for each message thread; each push waits while the queue is full.
Pills == Cardinality({n \in DOMAIN msg_queue : msg_queue[n] = NULL})
         + Cardinality({i \in Slots : thread[i] = "ended"})
PushPill ==
  /\ unload = "pills"
  /\ IF Pills < msg_queue_len
     THEN /\ Len(msg_queue) < Capacity
          /\ msg_queue' = Append(msg_queue, NULL) /\ UNCHANGED unload
     ELSE unload' = "joining" /\ UNCHANGED msg_queue
  /\ UNCHANGED <<running, loaded, where, queued_events, thread, profilevars, callvars, gaveUp>>

JoinThreads ==
  /\ unload = "joining" /\ \A i \in Slots : thread[i] \in {"none", "ended"}
  /\ unload' = "done"
  /\ UNCHANGED <<running, loaded, eventvars, profilevars, callvars, gaveUp>>

UnloadSteps == ThreadsWaited \/ PushPill \/ JoinThreads

-----------------------------------------------------------------------------
SessSteps(s) == CallProcesses(s) \/ OnDestroy(s) \/ LastOneFrees(s)
SpNext ==
  \/ LoadEnds \/ UnloadBegins \/ UnloadSteps \/ ProfileSteps \/ WorkerStarts \/ WorkerEnds
  \/ StopProfile
  \/ \E i \in Slots : ThreadSteps(i)
  \/ \E e \in AllEvents : \/ OwnThread(e) \/ Report(e) \/ ReportDirectly(e)
                          \/ \E s \in Calls : ReportToCall(e, s) \/ ReportInvite(e, s)
  \/ \E s \in Calls : SessSteps(s) \/ \E u \in Users : AttachOutbound(u, s)
  \/ \E u \in Users : FindProfile(u) \/ ReleaseProfile(u)

\* The module's threads run, processing an event takes finitely long and locks
\* are given back.  Their steps are finitely many, so it is enough that some
\* thread goes on while one can.  Nothing is asked of the calls or of the stack.
ModuleSteps == \/ LoadEnds \/ UnloadSteps \/ ProfileSteps \/ WorkerStarts \/ WorkerEnds
               \/ \E i \in Slots : ThreadSteps(i)
Releases == \E u \in Users : ReleaseProfile(u)
SpFairness == WF_spvars(ModuleSteps) /\ WF_spvars(Releases)
SpSpec == SpInit /\ [][SpNext]_spvars /\ SpFairness

-----------------------------------------------------------------------------
(***************************************************************************)
(* Properties                                                              *)
(***************************************************************************)
SpTypeOK ==
  /\ running \in BOOLEAN /\ loaded \in BOOLEAN
  /\ unload \in {"no", "waiting", "pills", "joining", "done"}
  /\ pc \in {"start", "launch", "root", "shutdown", "join", "lock", "destroy", "flag", "over"}
  /\ pflags \subseteq {"RUNNING", "WORKER_RUNNING", "SHUTDOWN", "DESTROY"}
  /\ worker \in {"none", "created", "running", "ended"}
  /\ table \in BOOLEAN /\ pool \in {"held", "freed"}
  /\ \A e \in AllEvents :
       where[e] \in {"none", "pushing", "queue", "busy", "launched", "own", "lost", "handled"} \cup Calls
  /\ queued_events \in Nat /\ inuse \in Nat
  /\ msg_queue \in Seq(AllEvents \cup {NULL}) /\ Len(msg_queue) <= Capacity
  /\ \A i \in Slots : thread[i] \in {"none", "created", "idle", "ended"} \cup AllEvents
  /\ sess \in [Calls -> {"none", "up", "left", "gone", "undefined"}]
  /\ user \in [Users -> {"out", "in"}] /\ gaveUp \subseteq {"events", "threads"}

\* The memory of a profile is not freed under a user, its worker or a call that
\* is counted, even if the thread has given up waiting for the calls; nor while
\* an event of it is on its way, unless the thread gave up waiting for events.
Outstanding(e) == where[e] \in {"pushing", "queue", "busy", "launched", "own"} \cup Calls
FreedWhenUnused ==
  pool = "freed" =>
    /\ worker = "ended"
    /\ \A u \in Users : user[u] = "out"
    /\ \A s \in Calls : sess[s] # "up"
    /\ "events" \in gaveUp \/ \A e \in AllEvents : ~Outstanding(e)

\* Every event is processed before the message threads are gone: none stays in
\* the queue behind the NULLs, though `running' is tested long before the push
\* (:2372, :2396) and the push may wait; unless the profile's thread, for which
\* the unload waits first, was given up.
EventsHandled ==
  unload = "done" /\ "threads" \notin gaveUp =>
    \A e \in AllEvents : where[e] \notin {"pushing", "queue", "busy"}

\* A profile that is stopped goes, whatever its calls do and whatever became of
\* its events; and the module unloads: every message thread gets its NULL.
EverythingStops ==
  /\ (pc # "start" /\ "RUNNING" \notin pflags) ~> (pc = "over")
  /\ (unload = "waiting") ~> (unload = "done")
=============================================================================
