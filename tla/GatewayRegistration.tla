------------------------ MODULE GatewayRegistration ------------------------
(***************************************************************************)
(* One outbound registration (sofia_gateway_t) of mod_sofia: the profile   *)
(* thread that checks it every second, the worker threads that handle the  *)
(* answers to its REGISTER and OPTIONS requests, and the operators that    *)
(* register, unregister and delete it.                                     *)
(*                                                                         *)
(* The check holds gw_mutex, but nobody else takes it to write the state:  *)
(* a worker or an operator finds the gateway under hash_mutex and writes   *)
(* later, and the check writes by the state it read before.  Each read and *)
(* each write is therefore a step of its own.  Deadlines are kept as the   *)
(* set of those still ahead, so the lengths of the configured intervals,   *)
(* and failures and failure_status which only choose one, do not appear.   *)
(***************************************************************************)
EXTENDS Integers, FiniteSets, Sequences

CONSTANTS
  Worker,       \* message threads and operators' threads
  Registers,    \* the gateway's "register" parameter
  Pings,        \* is ping_freq set?
  PingMin,      \* gateway->ping_min
  PingMax,      \* gateway->ping_max
  Freq,         \* gateway->freq, the Expires asked for
  Grants,       \* the Expires a registrar may grant; 0 is none in the answer
  AllCommands,  \* may operators use "register all" and "unregister all"?
  MaxAsked,     \* bound: REGISTER requests in progress in the stack
  MaxQueue      \* bound: answers waiting in msg_queue

ASSUME GatewayAssumption ==
  /\ Registers \in BOOLEAN
  /\ Pings \in BOOLEAN
  /\ PingMin \in Nat
  /\ PingMax \in Nat
  /\ Freq \in Nat
  /\ Grants \subseteq Nat
  /\ AllCommands \in BOOLEAN
  /\ MaxAsked \in Nat
  /\ MaxQueue \in Nat

VARIABLES
  state,       \* gateway->state
  status,      \* gateway->status
  deleted,     \* gateway->deleted
  listed,      \* is the gateway in profile->gateways?
  nh,          \* gateway->nh: "null", "bare", or "registered" in the stack
  asked,       \* REGISTER requests in progress on nh
  queue,       \* answers in msg_queue, oldest first
  ahead,       \* the deadlines of the gateway that are in the future
  expires,     \* how far ahead gateway->expires was last set
  granted,     \* history: the Expires of the last 200 that was applied
  pinging,     \* gateway->pinging
  ping_count,  \* gateway->ping_count
  check,       \* the check: "idle", "purged", "sent", or the state it read
  task         \* what each worker is about to do to the gateway it found

regVars == <<nh, asked, queue, ahead, expires, granted>>
pingVars == <<pinging, ping_count>>
vars == <<state, status, deleted, listed, nh, asked, queue, ahead, expires,
          granted, pinging, ping_count, check, task>>

RegState == {"UNREGED", "TRYING", "REGISTER", "REGED", "UNREGISTER", "FAILED",
             "FAIL_WAIT", "NOREG", "TIMEOUT"}
Deadline == {"expires", "retry", "reg_timeout", "ping"}
Task == {"idle", "ok", "fail", "ping_ok", "ping_fail", "count_ok", "count_fail",
         "register", "unregister", "killgw"}

GwTypeOK ==
  /\ state \in RegState
  /\ status \in {"UP", "DOWN"}
  /\ deleted \in BOOLEAN
  /\ listed \in BOOLEAN
  /\ nh \in {"null", "bare", "registered"}
  /\ asked \in 0 .. MaxAsked
  /\ queue \in Seq([ok : BOOLEAN, late : BOOLEAN])
  /\ ahead \in SUBSET Deadline
  /\ expires \in Int
  /\ granted \in Grants \cup {0}
  /\ pinging \in BOOLEAN
  /\ ping_count \in 0 .. PingMax
  /\ check \in {"idle", "purged", "sent"} \cup RegState
  /\ task \in [Worker -> Task]

\* parse_gateways has just added the gateway.
Init ==
  /\ state = IF Registers THEN "UNREGED" ELSE "NOREG"
  /\ status = IF Registers THEN "DOWN" ELSE "UP"
  /\ deleted = FALSE
  /\ listed = TRUE
  /\ nh = "null"
  /\ asked = 0
  /\ queue = <<>>
  /\ ahead = IF Pings THEN {"ping"} ELSE {}
  /\ expires = 0
  /\ granted = 0
  /\ pinging = FALSE
  /\ ping_count = 0
  /\ check = "idle"
  /\ task = [w \in Worker |-> "idle"]

-----------------------------------------------------------------------------
(* The SIP stack and the registrar, outside the repository.                  *)

\* The registrar's final answer, or the stack's own 408, is queued.
StackAnswers ==
  /\ asked > 0
  /\ Len(queue) < MaxQueue
  /\ asked' = asked - 1
  /\ \E ok \in BOOLEAN :
       /\ nh' = IF ok THEN "registered" ELSE "bare"
       /\ queue' = Append(queue, [ok |-> ok, late |-> FALSE])
  /\ UNCHANGED <<state, status, deleted, listed, ahead, expires, granted,
                 pingVars, check, task>>

\* The stack refreshes a registration by itself.
StackRefreshes ==
  /\ nh = "registered"
  /\ asked = 0
  /\ MaxAsked > 0
  /\ asked' = 1
  /\ UNCHANGED <<state, status, deleted, listed, nh, queue, ahead, expires,
                 granted, pingVars, check, task>>

TimePasses(d) ==
  /\ d \in ahead
  /\ ahead' = ahead \ {d}
  /\ UNCHANGED <<state, status, deleted, listed, nh, asked, queue, expires,
                 granted, pingVars, check, task>>

-----------------------------------------------------------------------------
(* Workers and operators: find the gateway, then write to it.                *)

FindsDeleted == listed   \* slip: the name is looked up, the mark is not

\* sofia_reg_find_gateway: a deleted gateway is not found.
Findable == listed /\ ~deleted

\* A message thread takes the oldest answer.
Dispatch(w) ==
  /\ task[w] = "idle"
  /\ queue # <<>>
  /\ queue' = Tail(queue)
  /\ task' = [task EXCEPT ![w] =
       IF ~Findable THEN "idle" ELSE IF Head(queue).ok THEN "ok" ELSE "fail"]
  /\ UNCHANGED <<state, status, deleted, listed, nh, asked, ahead, expires,
                 granted, pingVars, check>>

\* How long the answer makes a registration last.
GrantedDelta(expi) == IF expi > 60 THEN expi - 15 ELSE expi - 2

Registered(w) ==
  /\ task[w] = "ok"
  /\ \E expi \in Grants \cup {0} :
       /\ granted' = expi
       /\ IF expi > 0 /\ expi # Freq
          THEN expires' = GrantedDelta(expi) /\ ahead' = ahead \cup {"expires"}
          ELSE UNCHANGED <<expires, ahead>>
  /\ state' = "REGISTER"
  /\ task' = [task EXCEPT ![w] = "idle"]
  /\ UNCHANGED <<status, deleted, listed, nh, asked, queue, pingVars, check>>

Write(w, label, new) ==
  /\ task[w] = label
  /\ state' = new
  /\ task' = [task EXCEPT ![w] = "idle"]

Refused(w) ==
  /\ Write(w, "fail", "FAILED")
  /\ UNCHANGED <<status, deleted, listed, regVars, pingVars, check>>

\* One ping at a time is in progress, or its answer is being handled.
PingDispatch(w) ==
  /\ task[w] = "idle"
  /\ pinging
  /\ Findable
  /\ \A v \in Worker : task[v] \notin {"ping_ok", "ping_fail", "count_ok", "count_fail"}
  /\ \E label \in {"ping_ok", "ping_fail"} : task' = [task EXCEPT ![w] = label]
  /\ UNCHANGED <<state, status, deleted, listed, regVars, pingVars, check>>

RoomAtMost == ping_count <= PingMax   \* slip: off by one
RoomToCount == ping_count < PingMax

\* The answer to a ping: first the registration is reconsidered ...
PingState(w) ==
  /\ \/ /\ task[w] = "ping_ok"
        /\ state' = IF state = "FAILED" THEN "UNREGED" ELSE state
        /\ task' = [task EXCEPT ![w] = "count_ok"]
     \/ /\ task[w] = "ping_fail"
        /\ state' = IF state = "REGED" THEN "FAILED" ELSE state
        /\ task' = [task EXCEPT ![w] = "count_fail"]
  /\ UNCHANGED <<status, deleted, listed, regVars, pingVars, check>>

\* ... then the answers are counted and the next ping is due later.
PingCount(w) ==
  /\ \/ /\ task[w] = "count_ok"
        /\ IF RoomToCount
           THEN /\ ping_count' = ping_count + 1
                /\ status' = IF ping_count + 1 >= PingMin THEN "UP" ELSE status
           ELSE UNCHANGED <<ping_count, status>>
     \/ /\ task[w] = "count_fail"
        /\ ping_count' = IF ping_count > 0 THEN ping_count - 1 ELSE ping_count
        /\ status' = IF ping_count' < PingMin THEN "DOWN" ELSE status
  /\ ahead' = ahead \cup {"ping"}
  /\ pinging' = FALSE
  /\ task' = [task EXCEPT ![w] = "idle"]
  /\ UNCHANGED <<state, deleted, listed, nh, asked, queue, expires, granted, check>>

\* "sofia profile <p> register | unregister | killgw <gateway>".
OperatorFinds(w) ==
  /\ task[w] = "idle"
  /\ Findable
  /\ \E cmd \in {"register", "unregister", "killgw"} : task' = [task EXCEPT ![w] = cmd]
  /\ UNCHANGED <<state, status, deleted, listed, regVars, pingVars, check>>

Forget(d) == ahead' = ahead \ {d} /\ UNCHANGED <<nh, asked, queue, expires, granted>>

OperatorRegisters(w) ==
  /\ Write(w, "register", "UNREGED")
  /\ Forget("retry")
  /\ UNCHANGED <<status, deleted, listed, pingVars, check>>

OperatorUnregisters(w) ==
  /\ Write(w, "unregister", "UNREGISTER")
  /\ Forget("retry")
  /\ UNCHANGED <<status, deleted, listed, pingVars, check>>

\* sofia_glue_del_gateway.
OperatorKills(w) ==
  /\ task[w] = "killgw"
  /\ IF deleted
     THEN UNCHANGED <<state, ahead>>
     ELSE IF state = "NOREG"
     THEN UNCHANGED <<state, ahead>>
     ELSE state' = "UNREGISTER" /\ ahead' = ahead \ {"retry"}
  /\ deleted' = TRUE
  /\ task' = [task EXCEPT ![w] = "idle"]
  /\ UNCHANGED <<status, listed, nh, asked, queue, expires, granted, pingVars, check>>

\* "register all" and "unregister all" go through the list itself, deleted
\* gateways included.  ("killgw _all_" does what "killgw" does.)
OperatorTellsAll ==
  /\ AllCommands
  /\ listed
  /\ state' \in {"UNREGED", "UNREGISTER"}
  /\ Forget("retry")
  /\ UNCHANGED <<status, deleted, listed, pingVars, check, task>>

-----------------------------------------------------------------------------
(* The check (sofia_reg_check_gateway).                                      *)

AnyState == TRUE   \* slip: a deleted gateway is removed as it is
Unregistered == state = "NOREG"

\* The first loop: a deleted gateway goes once it is not registered.
Purge ==
  /\ check = "idle"
  /\ listed
  /\ IF deleted /\ Unregistered
     THEN listed' = FALSE /\ UNCHANGED check
     ELSE check' = "purged" /\ UNCHANGED listed
  /\ UNCHANGED <<state, status, deleted, regVars, pingVars, task>>

\* The second loop reads the state once, and pings by what it read.
Read ==
  /\ check = "purged"
  /\ check' = state
  /\ pinging' = (pinging \/ (Pings /\ "ping" \notin ahead /\ ~deleted
                               /\ state \in {"NOREG", "REGED"}))
  /\ UNCHANGED <<state, status, deleted, listed, regVars, ping_count, task>>

Saw(s) == check = s /\ check' = "idle"

SawNoreg ==
  /\ Saw("NOREG")
  /\ status' = IF ~Pings /\ ~pinging THEN "UP" ELSE status
  /\ UNCHANGED <<state, deleted, listed, regVars, pingVars, task>>

\* How far ahead the next REGISTER is put.
RefreshDelta == IF Freq > 30 THEN Freq - 15 ELSE IF Freq > 1 THEN Freq \div 2 ELSE 1

SawRegister ==
  /\ Saw("REGISTER")
  /\ expires' = RefreshDelta
  /\ ahead' = ahead \cup {"expires"}
  /\ state' = "REGED"
  /\ status' = "UP"
  /\ UNCHANGED <<deleted, listed, nh, asked, queue, granted, pingVars, task>>

\* The answers of a handle that timed out are older than all others.
LateOnes == SubSeq(queue, 1, Cardinality({i \in 1 .. Len(queue) : queue[i].late}))

\* sofia_reg_kill_reg: the answers of the handle find no gateway any more.
\* Those of a handle that timed out still point to the sofia_private that is
\* freed here: they may find the gateway or not.
SawUnregister ==
  /\ Saw("UNREGISTER")
  /\ nh' = "null"
  /\ asked' = 0
  /\ IF nh = "null"
     THEN UNCHANGED queue
     ELSE queue' \in {<<>>, LateOnes}
  /\ state' = "NOREG"
  /\ status' = "DOWN"
  /\ UNCHANGED <<deleted, listed, ahead, expires, granted, pingVars, task>>

NoNewHandle == UNCHANGED nh   \* slip: the handle is made only once
HandleReady == nh' = IF nh = "null" THEN "bare" ELSE nh

\* REGISTER is sent; the answer may be handled before the state says so.
Send ==
  /\ check = "UNREGED"
  /\ check' = "sent"
  /\ HandleReady
  /\ asked' = IF asked < MaxAsked THEN asked + 1 ELSE asked
  /\ ahead' = ahead \cup {"retry"}
  /\ UNCHANGED <<state, status, deleted, listed, queue, expires, granted, pingVars, task>>

Sent ==
  /\ Saw("sent")
  /\ ahead' = ahead \cup {"reg_timeout"}
  /\ state' = "TRYING"
  /\ UNCHANGED <<status, deleted, listed, nh, asked, queue, expires, granted, pingVars, task>>

\* The handle is destroyed but not unbound: queued answers stay good.
SawTimeout ==
  /\ Saw("TIMEOUT")
  /\ nh' = "null"
  /\ asked' = 0
  /\ queue' = [i \in 1 .. Len(queue) |-> [queue[i] EXCEPT !.late = TRUE]]
  /\ state' = "FAILED"
  /\ UNCHANGED <<status, deleted, listed, ahead, expires, granted, pingVars, task>>

SawFailed ==
  /\ Saw("FAILED")
  /\ ahead' = ahead \cup {"retry"}
  /\ status' = "DOWN"
  /\ state' = "FAIL_WAIT"
  /\ UNCHANGED <<deleted, listed, nh, asked, queue, expires, granted, pingVars, task>>

\* States that end at a deadline.
Ends(s, d, new) ==
  /\ Saw(s)
  /\ state' = IF d \in ahead THEN state ELSE new
  /\ UNCHANGED <<status, deleted, listed, regVars, pingVars, task>>

SawFailWait == Ends("FAIL_WAIT", "retry", "UNREGED")
NoTimeout == Ends("TRYING", "reg_timeout", "TRYING")   \* slip: it is not looked at
SawTrying == Ends("TRYING", "reg_timeout", "TIMEOUT")
SawReged == Ends("REGED", "expires", "UNREGED")

-----------------------------------------------------------------------------
Check ==
  \/ Purge \/ Read \/ SawNoreg \/ SawRegister \/ SawUnregister \/ Send \/ Sent
  \/ SawTimeout \/ SawFailed \/ SawFailWait \/ SawTrying \/ SawReged

Finish(w) ==
  \/ Registered(w) \/ Refused(w) \/ PingState(w) \/ PingCount(w)
  \/ OperatorRegisters(w) \/ OperatorUnregisters(w) \/ OperatorKills(w)

Next ==
  \/ Check
  \/ \E w \in Worker : Dispatch(w) \/ Finish(w) \/ PingDispatch(w) \/ OperatorFinds(w)
  \/ OperatorTellsAll
  \/ StackAnswers \/ StackRefreshes
  \/ \E d \in Deadline : TimePasses(d)

Spec == Init /\ [][Next]_vars

(* The profile thread checks every second, time passes, and a thread that has *)
(* found the gateway goes on.  Nobody has to answer or to give a command.     *)
Fairness ==
  /\ WF_vars(Check)
  /\ \A d \in Deadline : WF_vars(TimePasses(d))
  /\ \A w \in Worker : WF_vars(Finish(w))

FairSpec == Spec /\ Fairness

-----------------------------------------------------------------------------
(* Properties.                                                               *)

\* The check never sends on, times out or destroys a handle that is not there:
\* while a registration is being tried the handle exists, whatever late
\* answers, pings and operators write to the state meanwhile.
HandleWhileTrying ==
  (state \in {"TRYING", "TIMEOUT"} \/ check \in {"TRYING", "TIMEOUT", "sent"}) => nh # "null"

\* A gateway taken off the list leaves no handle behind that the stack would go
\* on refreshing, and nothing of the check still works on it.
RemovedLeavesNothing == ~listed => nh = "null" /\ check = "idle"

\* Whatever is lost, a gateway whose registration failed or is under way asks
\* again, or it is answered, unregistered or removed.
Unsettled == {"UNREGED", "TRYING", "TIMEOUT", "FAILED", "FAIL_WAIT"}
AsksAgain ==
  (listed /\ state \in Unsettled)
    ~> (check = "sent" \/ state \in {"REGISTER", "NOREG"} \/ ~listed)

\* No step on the gateway is half done.
Quiet == check \in {"idle", "purged"} /\ \A w \in Worker : task[w] \in {"idle", "killgw"}

\* A gateway that is deleted while no step on it is half done is unregistered
\* and removed.
QuietlyDeletedGoes ==
  (deleted /\ state \in {"UNREGISTER", "NOREG"} /\ Quiet) ~> ~listed

\* "gateway marked for deletion": a deleted gateway is removed.
DeletedGoes == deleted ~> ~listed

\* "Changing expire time to %d by request of proxy": a registration that the
\* registrar granted for a time of its own choice is renewed within it.
GrantRespected == (state = "REGED" /\ granted > 0) => expires <= granted
=============================================================================
