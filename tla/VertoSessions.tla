---------------------------- MODULE VertoSessions ----------------------------
(***************************************************************************)
(* mod_verto.c: WebSocket connections (jsock_t), the sessions they speak   *)
(* for (jsock_hash, by session id) and the calls of a session.  A client   *)
(* that lost its connection comes back with the same session id: the old   *)
(* connection is punted, the calls that were detached when a connection    *)
(* ended are attached to the new one, and mod_verto_runtime hangs up those *)
(* that stay detached for longer than detach_timeout.                      *)
(*                                                                         *)
(* Threads: one per connection (client_thread), one per call, the runtime  *)
(* thread.  tech_rwlock is a read lock in attach_calls, detach_calls and   *)
(* drop_detached, so these run beside each other, and `detached' is a      *)
(* plain counter: two passes at once may lose an update.  The JSON, the    *)
(* event queues' contents, permissions and media are left out.             *)
(***************************************************************************)
EXTENDS Integers, FiniteSets

CONSTANTS
  Socks,           \* connections the clients make
  Ids,             \* session ids
  VtCalls,         \* calls
  detach_timeout,  \* in ticks of the clock
  Uint32           \* 2^32 of `detached'

NoSock == "no connection"
NoId == "no session"

ASSUME VertoAssumption ==
  /\ detach_timeout \in Nat /\ Uint32 \in Nat \ {0}
  /\ NoSock \notin Socks /\ NoId \notin Ids

\* A connection that ends detaches a call once, and no more calls are detached
\* in all than `detached' can count.
ASSUME DetachedAssumption ==
  /\ IsFiniteSet(Socks) /\ IsFiniteSet(VtCalls)
  /\ Cardinality(Socks) * Cardinality(VtCalls) < Uint32

VARIABLES
  sock,       \* per connection: phase of its thread, id, checked, drop, nodelete
  pass,       \* per connection: the calls attach_calls or detach_calls has still to
              \* look at, and whether it is to wake the runtime
  jsock_hash, \* per session id: the connection that speaks for it
  call,       \* per call: phase, id, answered, tracked, age (of its detach_time, 0: none)
  holder,     \* per call: the connection its thread holds by rwlock
  detached,   \* verto_globals.detached
  runtime,    \* "loop", "window" (found nothing detached, not yet waiting), "asleep"
  missed,     \* history: attach_wake gave up, or came before the wait
  lapped      \* history: two passes went on at once

vtvars == <<sock, pass, jsock_hash, call, holder, detached, runtime, missed, lapped>>

Passing(s) == sock[s].phase \in {"attaching", "detaching"}
Listening(s) == sock[s].phase = "open"
Up(c) == call[c].phase = "up"
InSock(s, f, x) == [sock EXCEPT ![s][f] = x]
InCall(c, f, x) == [call EXCEPT ![c][f] = x]
HungUp(cs) == [c \in VtCalls |-> IF c \in cs THEN [call[c] EXCEPT !.phase = "down"] ELSE call[c]]

NewSock == [phase |-> "none", id |-> NoId, checked |-> FALSE,
            drop |-> FALSE, nodelete |-> FALSE]
NewCall == [phase |-> "none", id |-> NoId, outbound |-> FALSE, answered |-> FALSE,
            tracked |-> FALSE, age |-> 0, remote |-> FALSE]

VtInit ==
  /\ sock = [s \in Socks |-> NewSock]
  /\ pass = [s \in Socks |-> [todo |-> {}, wake |-> FALSE]]
  /\ jsock_hash = [i \in Ids |-> NoSock]
  /\ call = [c \in VtCalls |-> NewCall]
  /\ holder = [c \in VtCalls |-> NoSock]
  /\ detached = 0 /\ runtime = "loop"
  /\ missed = FALSE /\ lapped = FALSE

-----------------------------------------------------------------------------
(***************************************************************************)
(* attach_wake, and the runtime thread                                     *)
(***************************************************************************)

\* A runtime that waits is signalled; one that sweeps looks at `detached' again
\* by itself; one about to wait is signalled by one of ten tries, or never.
attach_wake ==
  \/ runtime \in {"asleep", "window"} /\ runtime' = "loop" /\ UNCHANGED missed
  \/ runtime = "loop" /\ UNCHANGED <<runtime, missed>>
  \/ runtime = "window" /\ missed' = TRUE /\ UNCHANGED runtime

\* drop_detached
Overdue == {c \in VtCalls : call[c].tracked /\ Up(c) /\ call[c].age > detach_timeout}

\* Slip: it waits to be woken whatever is detached.
RuntimeSleeps ==
  /\ runtime = "loop" /\ runtime' = "window"
  /\ UNCHANGED <<sock, pass, jsock_hash, call, holder, detached, missed, lapped>>
RuntimeLooks ==
  /\ runtime = "loop"
  /\ IF detached # 0
     THEN call' = HungUp(Overdue) /\ UNCHANGED runtime
     ELSE runtime' = "window" /\ UNCHANGED call
  /\ UNCHANGED <<sock, pass, jsock_hash, holder, detached, missed, lapped>>
RuntimeWaits ==
  /\ runtime = "window"
  /\ runtime' = "asleep"
  /\ UNCHANGED <<sock, pass, jsock_hash, call, holder, detached, missed, lapped>>

\* The clock, for the detach times.
Tick ==
  /\ \E c \in VtCalls : call[c].age \in 1..detach_timeout
  /\ call' = [c \in VtCalls |->
                IF call[c].age \in 1..detach_timeout THEN [call[c] EXCEPT !.age = @ + 1]
                ELSE call[c]]
  /\ UNCHANGED <<sock, pass, jsock_hash, holder, detached, runtime, missed, lapped>>

-----------------------------------------------------------------------------
(***************************************************************************)
(* A connection: start_jsock, client_run, client_thread                    *)
(***************************************************************************)

start_jsock(s) ==
  /\ sock[s].phase = "none"
  /\ sock' = InSock(s, "phase", "open")
  /\ UNCHANGED <<pass, jsock_hash, call, holder, detached, runtime, missed, lapped>>

\* process_jrpc, the first message: the session id the client sends, or a new
\* one; attach_jsock punts the connection that spoke for it.
set_session_id(s, i) ==
  /\ Listening(s) /\ ~sock[s].drop /\ sock[s].id = NoId
  /\ jsock_hash' = [jsock_hash EXCEPT ![i] = s]
  /\ sock' = [k \in Socks |->
                IF k = s THEN [sock[k] EXCEPT !.id = i]
                ELSE IF k = jsock_hash[i] THEN [sock[k] EXCEPT !.nodelete = TRUE, !.drop = TRUE]
                ELSE sock[k]]
  /\ UNCHANGED <<pass, call, holder, detached, runtime, missed, lapped>>

\* check_auth succeeds; the first time, client_run goes on to attach_calls.
Login(s) ==
  /\ Listening(s) /\ ~sock[s].drop /\ sock[s].id # NoId /\ ~sock[s].checked
  /\ sock' = InSock(s, "phase", "attaching")
  /\ pass' = [pass EXCEPT ![s].todo = {c \in VtCalls : call[c].tracked}]
  /\ UNCHANGED <<jsock_hash, call, holder, detached, runtime, missed, lapped>>

\* A write that fails (ws_write_json), a queue of events that stays full
\* (jsock_queue_event).
Drop(s) ==
  /\ Listening(s)
  /\ sock' = InSock(s, "drop", TRUE)
  /\ UNCHANGED <<pass, jsock_hash, call, holder, detached, runtime, missed, lapped>>

\* Slip: a connection that was dropped, not only a punted one, leaves its entry.
LeaveIfDropped(s) ==
  /\ Listening(s)
  /\ sock' = InSock(s, "phase", IF sock[s].drop THEN "left" ELSE "deleting")
  /\ UNCHANGED <<pass, jsock_hash, call, holder, detached, runtime, missed, lapped>>

\* The loop ends: dropped, closed by the peer, an error.  detach_jsock looks at
\* nodelete before it takes the lock of the table.
Leave(s) ==
  /\ Listening(s)
  /\ sock' = InSock(s, "phase", IF sock[s].nodelete THEN "left" ELSE "deleting")
  /\ UNCHANGED <<pass, jsock_hash, call, holder, detached, runtime, missed, lapped>>
DeletesEntry(s) ==
  /\ sock[s].phase = "deleting"
  /\ sock' = InSock(s, "phase", "left")
  /\ jsock_hash' = [i \in Ids |-> IF i = sock[s].id THEN NoSock ELSE jsock_hash[i]]
  /\ UNCHANGED <<pass, call, holder, detached, runtime, missed, lapped>>

StartsDetaching(s) ==
  /\ sock[s].phase = "left"
  /\ sock' = InSock(s, "phase", "detaching")
  /\ pass' = [pass EXCEPT ![s].todo = {c \in VtCalls : call[c].tracked}]
  /\ UNCHANGED <<jsock_hash, call, holder, detached, runtime, missed, lapped>>

-----------------------------------------------------------------------------
(***************************************************************************)
(* attach_calls and detach_calls, call by call                             *)
(***************************************************************************)

\* Slip: a signed counter.
UpdatedSigned(s, d) ==
  LET others == \E k \in Socks \ {s} : Passing(k)
  IN detached' \in {detached + d, detached} /\ lapped' = (lapped \/ others)

\* `detached' after an update that may be lost when another pass goes on.
Updated(s, d) ==
  LET others == \E k \in Socks \ {s} : Passing(k)
  IN /\ detached' \in {(detached + d) % Uint32} \cup (IF others THEN {detached} ELSE {})
     /\ lapped' = (lapped \/ others)

\* The calls of the session that are up: the others are passed over.
Mine(s, c) == call[c].id = sock[s].id /\ Up(c)

\* tech_reattach
AttachOne(s, c) ==
  /\ sock[s].phase = "attaching" /\ c \in pass[s].todo
  /\ pass' = [pass EXCEPT ![s].todo = @ \ {c}]
  /\ IF Mine(s, c) /\ call[c].age # 0
     THEN /\ call' = InCall(c, "age", 0)
          /\ Updated(s, -1)
          /\ attach_wake
     ELSE UNCHANGED <<call, detached, lapped, runtime, missed>>
  /\ UNCHANGED <<sock, jsock_hash, holder>>

\* Slip: not counted.
DetachUncounted(s, c) ==
  /\ sock[s].phase = "detaching" /\ c \in pass[s].todo
  /\ pass' = [pass EXCEPT ![s].todo = @ \ {c}]
  /\ IF Mine(s, c) /\ call[c].answered THEN call' = InCall(c, "age", 1) ELSE UNCHANGED call
  /\ UNCHANGED <<sock, jsock_hash, holder, detached, lapped, runtime, missed>>

\* A call that is not answered, or has only video, is hung up.
DetachOne(s, c) ==
  /\ sock[s].phase = "detaching" /\ c \in pass[s].todo
  /\ IF ~Mine(s, c)
     THEN pass' = [pass EXCEPT ![s].todo = @ \ {c}] /\ UNCHANGED <<call, detached, lapped>>
     ELSE \/ /\ pass' = [pass EXCEPT ![s].todo = @ \ {c}]
             /\ call' = HungUp({c})
             /\ UNCHANGED <<detached, lapped>>
          \/ /\ call[c].answered
             /\ pass' = [pass EXCEPT ![s].todo = @ \ {c}, ![s].wake = TRUE]
             /\ call' = InCall(c, "age", 1)
             /\ Updated(s, 1)
  /\ UNCHANGED <<sock, jsock_hash, holder, runtime, missed>>

AttachEnds(s) ==
  /\ sock[s].phase = "attaching" /\ pass[s].todo = {}
  /\ sock' = [sock EXCEPT ![s].phase = "open", ![s].checked = TRUE]
  /\ UNCHANGED <<pass, jsock_hash, call, holder, detached, runtime, missed, lapped>>

DetachEnds(s) ==
  /\ sock[s].phase = "detaching" /\ pass[s].todo = {}
  /\ sock' = InSock(s, "phase", "flushing")
  /\ pass' = [pass EXCEPT ![s].wake = FALSE]
  /\ IF pass[s].wake THEN attach_wake ELSE UNCHANGED <<runtime, missed>>
  /\ UNCHANGED <<jsock_hash, call, holder, detached, lapped>>

\* The write lock of jsock->rwlock waits for those that hold the connection;
\* then its memory goes with the thread (del_jsock has taken it off the lists).
ThreadEnds(s) ==
  /\ sock[s].phase = "flushing" /\ \A c \in VtCalls : holder[c] # s
  /\ sock' = [sock EXCEPT ![s] = [NewSock EXCEPT !.phase = "ended"]]
  /\ UNCHANGED <<pass, jsock_hash, call, holder, detached, runtime, missed, lapped>>

-----------------------------------------------------------------------------
(***************************************************************************)
(* Calls                                                                   *)
(***************************************************************************)

\* verto.invite, on the thread of the connection.
invite_func(s, c) ==
  /\ Listening(s) /\ ~sock[s].drop /\ sock[s].checked
  /\ call[c].phase = "none"
  /\ call' = [call EXCEPT ![c].phase = "init", ![c].id = sock[s].id]
  /\ UNCHANGED <<sock, pass, jsock_hash, holder, detached, runtime, missed, lapped>>

\* verto_outgoing_channel, to a session id.
outgoing_channel(c, i) ==
  /\ call[c].phase = "none"
  /\ call' = [call EXCEPT ![c].phase = "init", ![c].id = i, ![c].outbound = TRUE]
  /\ UNCHANGED <<sock, pass, jsock_hash, holder, detached, runtime, missed, lapped>>

\* verto_on_init.  An outbound call goes to the connection of its session, which
\* verto_connect holds (get_jsock) until the invitation is queued.
OnInit(c) ==
  /\ call[c].phase = "init"
  /\ IF ~call[c].outbound
     THEN call' = InCall(c, "phase", "tracking") /\ UNCHANGED holder
     ELSE LET s == jsock_hash[call[c].id]
          IN IF s = NoSock THEN call' = InCall(c, "phase", "down") /\ UNCHANGED holder
             ELSE call' = InCall(c, "phase", "connecting") /\ holder' = [holder EXCEPT ![c] = s]
  /\ UNCHANGED <<sock, pass, jsock_hash, detached, runtime, missed, lapped>>
ConnectEnds(c) ==
  /\ call[c].phase = "connecting"
  /\ call' \in {InCall(c, "phase", "tracking"), InCall(c, "phase", "down")}
  /\ holder' = [holder EXCEPT ![c] = NoSock]
  /\ UNCHANGED <<sock, pass, jsock_hash, detached, runtime, missed, lapped>>

\* The write lock waits for the passes.
NoPass == \A s \in Socks : ~Passing(s)
track_pvt(c) ==
  /\ call[c].phase = "tracking" /\ NoPass
  /\ call' = [call EXCEPT ![c].phase = "up", ![c].tracked = TRUE]
  /\ UNCHANGED <<sock, pass, jsock_hash, holder, detached, runtime, missed, lapped>>

\* verto.answer, or the dialplan's answer of an inbound call.
Answer(c) ==
  /\ Up(c) /\ ~call[c].answered
  /\ call' = InCall(c, "answered", TRUE)
  /\ UNCHANGED <<sock, pass, jsock_hash, holder, detached, runtime, missed, lapped>>

\* verto.bye (remote), a verto.attach that fails, or the other end.
EndCall(c) ==
  /\ Up(c)
  /\ \E r \in BOOLEAN : call' = [call EXCEPT ![c].phase = "down", ![c].remote = r]
  /\ UNCHANGED <<sock, pass, jsock_hash, holder, detached, runtime, missed, lapped>>

\* verto_on_hangup: untrack_pvt, then a bye to the connection, if the client has
\* not ended the call; the connection is held while the bye is queued.
untrack_pvt(c) ==
  /\ call[c].phase = "down" /\ NoPass
  /\ call' = [call EXCEPT ![c] = IF @.remote THEN [NewCall EXCEPT !.phase = "gone"]
                                  ELSE [@ EXCEPT !.phase = "bye", !.tracked = FALSE, !.age = 0]]
  /\ IF call[c].age # 0
     THEN detached' = (detached - 1) % Uint32 /\ attach_wake
     ELSE UNCHANGED <<detached, runtime, missed>>
  /\ UNCHANGED <<sock, pass, jsock_hash, holder, lapped>>
SendsBye(c) ==
  /\ call[c].phase = "bye"
  /\ holder' = [holder EXCEPT ![c] = jsock_hash[call[c].id]]
  /\ call' = InCall(c, "phase", "sending")
  /\ UNCHANGED <<sock, pass, jsock_hash, detached, runtime, missed, lapped>>
Gone(c) ==
  /\ call[c].phase = "sending"
  /\ holder' = [holder EXCEPT ![c] = NoSock]
  /\ call' = [call EXCEPT ![c] = [NewCall EXCEPT !.phase = "gone"]]
  /\ UNCHANGED <<sock, pass, jsock_hash, detached, runtime, missed, lapped>>

-----------------------------------------------------------------------------

PassSteps(s) == AttachEnds(s) \/ DetachEnds(s) \/ \E c \in VtCalls : AttachOne(s, c) \/ DetachOne(s, c)
EndSteps(s) == DeletesEntry(s) \/ StartsDetaching(s) \/ ThreadEnds(s)
RuntimeSteps == RuntimeLooks \/ RuntimeWaits
CallSteps(c) == ConnectEnds(c) \/ OnInit(c) \/ track_pvt(c) \/ untrack_pvt(c) \/ SendsBye(c) \/ Gone(c)

VtNext ==
  \/ RuntimeSteps \/ Tick
  \/ \E s \in Socks :
       \/ start_jsock(s) \/ Login(s) \/ Drop(s) \/ Leave(s)
       \/ PassSteps(s) \/ EndSteps(s)
       \/ \E i \in Ids : set_session_id(s, i)
       \/ \E c \in VtCalls : invite_func(s, c)
  \/ \E c \in VtCalls :
       \/ CallSteps(c) \/ Answer(c) \/ EndCall(c)
       \/ \E i \in Ids : outgoing_channel(c, i)

\* Time passes, and the threads that have something to do run.
VtFairness ==
  /\ WF_vtvars(Tick) /\ WF_vtvars(RuntimeSteps)
  /\ \A s \in Socks : WF_vtvars(PassSteps(s)) /\ WF_vtvars(EndSteps(s))
  /\ \A c \in VtCalls : WF_vtvars(CallSteps(c))
VtSpec == VtInit /\ [][VtNext]_vtvars /\ VtFairness

-----------------------------------------------------------------------------
(***************************************************************************)
(* Properties                                                              *)
(***************************************************************************)

VtTypeOK ==
  /\ \A s \in Socks : /\ sock[s].id \in Ids \cup {NoId}
                      /\ sock[s].drop \in BOOLEAN
                      /\ pass[s].todo \subseteq VtCalls
  /\ \A i \in Ids : jsock_hash[i] \in Socks \cup {NoSock}
  /\ \A c \in VtCalls : call[c].age \in 0..detach_timeout + 1 /\ call[c].tracked \in BOOLEAN
  /\ detached \in 0..Uint32 - 1

\* Nothing leads to memory that is gone: the table of sessions names only
\* connections that have not yet taken themselves out (a punted one was taken
\* out by its successor), a connection that is held has not ended, and the list
\* of calls has none whose session is gone.
NothingDangles ==
  /\ \A i \in Ids : jsock_hash[i] # NoSock =>
       sock[jsock_hash[i]].phase \in {"open", "attaching", "deleting"}
  /\ \A c \in VtCalls : holder[c] # NoSock => sock[holder[c]].phase # "ended"
  /\ \A c \in VtCalls : call[c].tracked => call[c].phase \in {"up", "down"}

\* `detached' never counts fewer calls than are detached, or the runtime thread
\* would sleep over them; unless two passes have been at it at once.
CountCovers ==
  lapped \/ detached >= Cardinality({c \in VtCalls : call[c].age # 0})

\* A detached call does not hang about: a client attaches it again, or it ends,
\* unless the wake of the runtime thread was missed or passes overlapped.
DetachedEnds ==
  \A c \in VtCalls :
    (call[c].age # 0) ~> (call[c].age = 0 \/ missed \/ lapped)
=============================================================================
