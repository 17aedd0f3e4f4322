---------------------------- MODULE EndpointProofs ----------------------------
(***************************************************************************)
(* Proofs about the endpoints.                                             *)
(*                                                                         *)
(* mod_verto: neither the table of sessions, nor a call that holds a       *)
(* connection, nor the list of calls leads to memory that is gone; and     *)
(* `detached' counts no fewer calls than are detached, while passes do not *)
(* overlap: for any connections, session ids and calls.                    *)
(*                                                                         *)
(* mod_loopback: the other leg is there as long as it is pointed to, and   *)
(* the legs are unlinked together, with and without controlled hangup.     *)
(*                                                                         *)
(* The SIP profile has a module of its own, SofiaProfileProofs; the types  *)
(* of the three, as MCEndpoints runs them, are at the end.                 *)
(***************************************************************************)
EXTENDS MCEndpoints, SofiaProfileProofs

(***************************************************************************)
(* mod_verto                                                               *)
(***************************************************************************)

SockPhases == {"none", "open", "attaching", "deleting", "left", "detaching", "flushing", "ended"}
CallPhases == {"none", "init", "connecting", "tracking", "up", "down", "bye", "sending", "gone"}
SockRecords == [phase : SockPhases, id : Ids \cup {NoId}, checked : BOOLEAN,
                drop : BOOLEAN, nodelete : BOOLEAN]
CallRecords == [phase : CallPhases, id : Ids \cup {NoId}, outbound : BOOLEAN, answered : BOOLEAN,
                tracked : BOOLEAN, age : Int, remote : BOOLEAN]

Types ==
  /\ sock \in [Socks -> SockRecords]
  /\ call \in [VtCalls -> CallRecords]
  /\ jsock_hash \in [Ids -> Socks \cup {NoSock}]
  /\ holder \in [VtCalls -> Socks \cup {NoSock}]

\* A connection is in the table under its own id only, until it takes itself
\* out or a successor takes its place.
TableInv ==
  /\ \A i \in Ids, s \in Socks : jsock_hash[i] = s =>
       /\ sock[s].phase \in {"open", "attaching", "deleting"}
       /\ sock[s].id = i /\ ~sock[s].nodelete
  /\ \A s \in Socks : sock[s].checked \/ sock[s].nodelete \/ sock[s].phase = "attaching"
                        => sock[s].id # NoId

\* A connection that is held is there.
HolderInv == \A c \in VtCalls, s \in Socks : holder[c] = s => sock[s].phase # "ended"

\* A call that has begun has a session; one in the list is up, or going down.
CallInv ==
  \A c \in VtCalls : /\ call[c].phase \notin {"none", "gone"} => call[c].id # NoId
                     /\ call[c].tracked => call[c].phase \in {"up", "down"}

VtInv == Types /\ TableInv /\ HolderInv /\ CallInv

-----------------------------------------------------------------------------
\* At first there is nothing.
LEMMA VtInvInit == VtInit => VtInv
BY VertoAssumption DEF VtInit, VtInv, Types, TableInv, HolderInv, CallInv, NewSock, NewCall,
   SockRecords, CallRecords, SockPhases, CallPhases

\* A call is changed: what connections rest on stays.
LEMMA CallsChange ==
  ASSUME VtInv, UNCHANGED <<sock, jsock_hash, holder>>,
         call' \in [VtCalls -> CallRecords],
         \A c \in VtCalls : /\ call'[c].phase \notin {"none", "gone"} => call'[c].id # NoId
                            /\ call'[c].tracked => call'[c].phase \in {"up", "down"}
  PROVE  VtInv'
BY DEF VtInv, Types, TableInv, HolderInv, CallInv

\* One call is changed.
LEMMA CallChanges ==
  ASSUME VtInv, UNCHANGED <<sock, jsock_hash, holder>>, NEW c \in VtCalls,
         NEW x \in CallRecords, call' = [call EXCEPT ![c] = x],
         x.phase \notin {"none", "gone"} => x.id # NoId,
         x.tracked => x.phase \in {"up", "down"}
  PROVE  VtInv'
<1>1. call' \in [VtCalls -> CallRecords]
  BY DEF VtInv, Types
<1>2. \A d \in VtCalls : call'[d] = IF d = c THEN x ELSE call[d]
  BY DEF VtInv, Types
<1> QED BY <1>1, <1>2, CallsChange DEF VtInv, CallInv

\* One connection is changed, and stays in the table if it was in it.
LEMMA SockChanges ==
  ASSUME VtInv, UNCHANGED <<jsock_hash, call, holder>>, NEW s \in Socks,
         NEW x \in SockRecords, sock' = [sock EXCEPT ![s] = x],
         x.id = sock[s].id \/ \A i \in Ids : jsock_hash[i] # s,
         \/ x.phase \in {"open", "attaching", "deleting"} /\ ~x.nodelete
         \/ \A i \in Ids : jsock_hash[i] # s,
         x.checked \/ x.nodelete \/ x.phase = "attaching" => x.id # NoId,
         x.phase # "ended" \/ \A c \in VtCalls : holder[c] # s
  PROVE  VtInv'
<1>1. sock' \in [Socks -> SockRecords]
  BY DEF VtInv, Types
<1>2. \A t \in Socks : sock'[t] = IF t = s THEN x ELSE sock[t]
  BY DEF VtInv, Types
<1>3. TableInv'
  BY <1>2 DEF VtInv, TableInv
<1>4. HolderInv'
  BY <1>2 DEF VtInv, HolderInv
<1> QED BY <1>1, <1>3, <1>4 DEF VtInv, Types, CallInv
-----------------------------------------------------------------------------
\* A connection is made, logs in, fails and goes: a punted one is in the table no
\* more, another takes itself out, and the memory waits for those that hold it.
LEMMA ConnectionKeeps ==
  ASSUME VtInv, NEW s \in Socks,
         \/ start_jsock(s) \/ Login(s) \/ Drop(s) \/ Leave(s) \/ StartsDetaching(s)
         \/ AttachEnds(s) \/ DetachEnds(s) \/ ThreadEnds(s)
  PROVE  VtInv'
<1>1. sock[s] \in SockRecords
  BY DEF VtInv, Types
<1>2. sock[s].phase \notin {"open", "attaching", "deleting"} \/ sock[s].nodelete
        => \A i \in Ids : jsock_hash[i] # s
  BY DEF VtInv, TableInv
<1>3. sock[s].checked \/ sock[s].nodelete \/ sock[s].phase = "attaching" => sock[s].id # NoId
  BY DEF VtInv, TableInv
<1> USE <1>1 DEF SockRecords, SockPhases
<1>4. CASE start_jsock(s)
  <2>1. sock' = [sock EXCEPT ![s] = [sock[s] EXCEPT !.phase = "open"]]
    BY <1>4 DEF start_jsock, InSock
  <2> QED BY <1>2, <1>3, <1>4, <2>1, SockChanges DEF start_jsock
<1>5. CASE Login(s)
  <2>1. sock' = [sock EXCEPT ![s] = [sock[s] EXCEPT !.phase = "attaching"]]
    BY <1>5 DEF Login, InSock
  <2> QED BY <1>2, <1>3, <1>5, <2>1, SockChanges DEF Login, Listening
<1>6. CASE Drop(s)
  <2> DEFINE x == [sock[s] EXCEPT !.drop = TRUE]
  <2>1. sock' = [sock EXCEPT ![s] = x]
    BY <1>6 DEF Drop, InSock
  <2>2. x \in SockRecords /\ x.phase = "open" /\ x.id = sock[s].id
        /\ x.checked = sock[s].checked /\ x.nodelete = sock[s].nodelete
    BY <1>6 DEF Drop, Listening
  <2> HIDE DEF x
  <2> QED BY <1>2, <1>3, <1>6, <2>1, <2>2, SockChanges DEF Drop
<1>7. CASE Leave(s)
  <2> DEFINE x == [sock[s] EXCEPT !.phase = IF sock[s].nodelete THEN "left" ELSE "deleting"]
  <2>1. sock' = [sock EXCEPT ![s] = x]
    BY <1>7 DEF Leave, InSock
  <2>2. x \in SockRecords /\ x.id = sock[s].id
        /\ x.checked = sock[s].checked /\ x.nodelete = sock[s].nodelete
        /\ x.phase = IF sock[s].nodelete THEN "left" ELSE "deleting"
    OBVIOUS
  <2> HIDE DEF x
  <2> QED BY <1>2, <1>3, <1>7, <2>1, <2>2, SockChanges DEF Leave
<1>8. CASE StartsDetaching(s)
  <2>1. sock' = [sock EXCEPT ![s] = [sock[s] EXCEPT !.phase = "detaching"]]
    BY <1>8 DEF StartsDetaching, InSock
  <2> QED BY <1>2, <1>3, <1>8, <2>1, SockChanges DEF StartsDetaching
<1>9. CASE AttachEnds(s)
  <2>1. sock' = [sock EXCEPT ![s] = [sock[s] EXCEPT !.phase = "open", !.checked = TRUE]]
    BY <1>9 DEF AttachEnds
  <2> QED BY <1>2, <1>3, <1>9, <2>1, SockChanges DEF AttachEnds
<1>10. CASE DetachEnds(s)
  <2>1. sock' = [sock EXCEPT ![s] = [sock[s] EXCEPT !.phase = "flushing"]]
    BY <1>10 DEF DetachEnds, InSock
  <2> QED BY <1>2, <1>3, <1>10, <2>1, SockChanges DEF DetachEnds
<1>11. CASE ThreadEnds(s)
  <2>1. [NewSock EXCEPT !.phase = "ended"] \in SockRecords
    BY DEF NewSock
  <2> QED BY <1>2, <1>11, <2>1, SockChanges DEF ThreadEnds, NewSock
<1> QED BY <1>4, <1>5, <1>6, <1>7, <1>8, <1>9, <1>10, <1>11

\* attach_jsock puts a connection in the place of another, which is marked.
LEMMA TakesOver ==
  ASSUME VtInv, NEW s \in Socks, NEW i \in Ids, set_session_id(s, i)
  PROVE  VtInv'
<1> DEFINE old == jsock_hash[i]
<1>1. sock[s].id = NoId /\ sock[s].phase = "open" /\ i # NoId
  BY VertoAssumption DEF set_session_id, Listening
<1>2. \A j \in Ids : jsock_hash[j] # s
  BY <1>1, VertoAssumption DEF VtInv, TableInv
<1>3. \A t \in Socks : sock[t] \in SockRecords
  BY DEF VtInv, Types
<1>4. \A t \in Socks : sock'[t] = IF t = s THEN [sock[t] EXCEPT !.id = i]
                               ELSE IF t = old THEN [sock[t] EXCEPT !.nodelete = TRUE, !.drop = TRUE]
                               ELSE sock[t]
  BY DEF set_session_id
<1>5. \A t \in Socks : sock'[t] \in SockRecords
  <2> SUFFICES ASSUME NEW t \in Socks
               PROVE  sock'[t] \in SockRecords
    OBVIOUS
  <2> USE DEF SockRecords
  <2>1. [sock[t] EXCEPT !.id = i] \in SockRecords
    BY <1>3
  <2>2. [sock[t] EXCEPT !.nodelete = TRUE, !.drop = TRUE] \in SockRecords
    BY <1>3
  <2> QED BY <1>3, <1>4, <2>1, <2>2
<1>6. Types'
  BY <1>5 DEF VtInv, Types, set_session_id
<1>7. \A t \in Socks : /\ sock'[t].phase = sock[t].phase /\ sock'[t].checked = sock[t].checked
                       /\ sock'[t].id = IF t = s THEN i ELSE sock[t].id
                       /\ t # old => sock'[t].nodelete = sock[t].nodelete
  <2> TAKE t \in Socks
  <2>1. sock[t] \in SockRecords /\ (t = s => t # old)
    BY <1>2, <1>3 DEF Listening
  <2>2. CASE t = s
    BY <1>4, <2>1, <2>2 DEF SockRecords
  <2>3. CASE t # s /\ t = old
    BY <1>4, <2>1, <2>3 DEF SockRecords
  <2>4. CASE t # s /\ t # old
    BY <1>4, <2>4
  <2> QED BY <2>2, <2>3, <2>4
<1>8. \A j \in Ids : jsock_hash'[j] = IF j = i THEN s ELSE jsock_hash[j]
  BY DEF set_session_id, VtInv, Types
<1>9. TableInv'
  <2>1. ASSUME NEW j \in Ids, NEW t \in Socks, jsock_hash'[j] = t
        PROVE  /\ sock'[t].phase \in {"open", "attaching", "deleting"}
               /\ sock'[t].id = j /\ ~sock'[t].nodelete
    <3>1. CASE t = s
      <4>1. j = i
        BY <1>2, <1>8, <2>1, <3>1
      <4>2. sock[s].nodelete = FALSE
        BY <1>3, <1>1 DEF SockRecords, VtInv, TableInv
      <4> QED BY <1>1, <1>2, <1>7, <3>1, <4>1, <4>2
    <3>2. CASE t # s
      <4>1. j # i /\ jsock_hash[j] = t
        BY <1>8, <2>1, <3>2
      <4>2. t # old
        BY <4>1 DEF VtInv, TableInv
      <4> QED BY <1>7, <3>2, <4>1, <4>2 DEF VtInv, TableInv
    <3> QED BY <3>1, <3>2
  <2>2. ASSUME NEW t \in Socks, sock'[t].checked \/ sock'[t].nodelete \/ sock'[t].phase = "attaching"
        PROVE  sock'[t].id # NoId
    <3>1. CASE t = old
      BY <1>1, <1>2, <1>7, <3>1 DEF VtInv, TableInv
    <3>2. CASE t # old
      BY <1>1, <1>7, <2>2, <3>2 DEF VtInv, TableInv
    <3> QED BY <3>1, <3>2
  <2> QED BY <2>1, <2>2 DEF TableInv
<1>10. UNCHANGED <<call, holder>>
  BY DEF set_session_id
<1>11. CallInv' /\ HolderInv'
  BY <1>7, <1>10 DEF VtInv, HolderInv, CallInv
<1> QED BY <1>6, <1>9, <1>11 DEF VtInv
\* detach_jsock takes an entry out, be it the connection's own or a successor's.
LEMMA EntryGoes ==
  ASSUME VtInv, NEW s \in Socks, DeletesEntry(s)
  PROVE  VtInv'
<1> DEFINE x == [sock[s] EXCEPT !.phase = "left"]
<1>1. sock[s] \in SockRecords /\ sock' = [sock EXCEPT ![s] = x]
  BY DEF VtInv, Types, DeletesEntry, InSock
<1>2. x \in SockRecords /\ x.id = sock[s].id /\ x.checked = sock[s].checked
      /\ x.nodelete = sock[s].nodelete /\ x.phase = "left"
  BY <1>1 DEF SockRecords, SockPhases
<1> HIDE DEF x
<1>3. \A t \in Socks : sock'[t] = IF t = s THEN x ELSE sock[t]
  BY <1>1 DEF VtInv, Types
<1>4. \A i \in Ids : jsock_hash'[i] = IF i = sock[s].id THEN NoSock ELSE jsock_hash[i]
  BY DEF DeletesEntry
<1>5. UNCHANGED <<call, holder>>
  BY DEF DeletesEntry
<1>6. Types'
  BY <1>1, <1>2, <1>5 DEF VtInv, Types, DeletesEntry
<1>7. TableInv'
  <2>1. ASSUME NEW i \in Ids, NEW t \in Socks, jsock_hash'[i] = t
        PROVE  /\ sock'[t].phase \in {"open", "attaching", "deleting"}
               /\ sock'[t].id = i /\ ~sock'[t].nodelete
    <3>1. i # sock[s].id /\ jsock_hash[i] = t
      BY <1>4, <2>1, VertoAssumption
    <3>2. t # s
      BY <3>1 DEF VtInv, TableInv
    <3> QED BY <1>3, <3>1, <3>2 DEF VtInv, TableInv
  <2>2. \A t \in Socks : sock'[t].checked \/ sock'[t].nodelete \/ sock'[t].phase = "attaching"
                           => sock'[t].id # NoId
    BY <1>2, <1>3 DEF VtInv, TableInv
  <2> QED BY <2>1, <2>2 DEF TableInv
<1>8. HolderInv' /\ CallInv'
  BY <1>2, <1>3, <1>5 DEF VtInv, HolderInv, CallInv
<1> QED BY <1>6, <1>7, <1>8 DEF VtInv

-----------------------------------------------------------------------------
\* Hung up, a call that was up is going down, and in the list as before.
LEMMA HangingUp ==
  ASSUME VtInv, NEW cs \in SUBSET VtCalls, \A c \in cs : call[c].phase = "up",
         call' = HungUp(cs), UNCHANGED <<sock, jsock_hash, holder>>
  PROVE  VtInv'
<1>1. \A c \in VtCalls : call[c] \in CallRecords
  BY DEF VtInv, Types
<1>2. \A c \in VtCalls : [call[c] EXCEPT !.phase = "down"] \in CallRecords
  BY <1>1 DEF CallRecords, CallPhases
<1>3. call' \in [VtCalls -> CallRecords]
  <2> HIDE DEF CallRecords
  <2> QED BY <1>1, <1>2 DEF HungUp
<1>4. ASSUME NEW c \in VtCalls
      PROVE  /\ call'[c].phase \notin {"none", "gone"} => call'[c].id # NoId
             /\ call'[c].tracked => call'[c].phase \in {"up", "down"}
  <2>1. CASE c \in cs
    <3>1. call'[c].phase = "down" /\ call'[c].id = call[c].id
      BY <1>1, <2>1 DEF HungUp, CallRecords
    <3> QED BY <2>1, <3>1 DEF VtInv, CallInv
  <2>2. CASE c \notin cs
    BY <2>2 DEF HungUp, VtInv, CallInv
  <2> QED BY <2>1, <2>2
<1> QED BY <1>3, <1>4, CallsChange

\* The clock and the runtime thread.
LEMMA RuntimeKeeps == VtInv /\ (Tick \/ RuntimeSteps) => VtInv'
<1> SUFFICES ASSUME VtInv, Tick \/ RuntimeSteps
             PROVE  VtInv'
  OBVIOUS
<1>1. CASE Tick
  <2>1. \A c \in VtCalls : call[c] \in CallRecords
    BY DEF VtInv, Types
  <2>2. \A c \in VtCalls : [call[c] EXCEPT !.age = @ + 1] \in CallRecords
    BY <2>1 DEF CallRecords
  <2>3. call' \in [VtCalls -> CallRecords]
    BY <1>1, <2>1, <2>2 DEF Tick
  <2>4. \A c \in VtCalls : /\ call'[c].phase = call[c].phase /\ call'[c].id = call[c].id
                           /\ call'[c].tracked = call[c].tracked
    BY <1>1, <2>1 DEF Tick, CallRecords
  <2>5. UNCHANGED <<sock, jsock_hash, holder>>
    BY <1>1 DEF Tick
  <2> QED BY <2>3, <2>4, <2>5, CallsChange DEF VtInv, CallInv
<1>2. CASE RuntimeLooks
  <2>1. CASE detached # 0
    BY <1>2, <2>1, HangingUp DEF RuntimeLooks, Overdue, Up
  <2>2. CASE detached = 0
    BY <1>2, <2>2 DEF RuntimeLooks, VtInv, Types, TableInv, HolderInv, CallInv
  <2> QED BY <2>1, <2>2
<1>3. CASE RuntimeWaits
  BY <1>3 DEF RuntimeWaits, VtInv, Types, TableInv, HolderInv, CallInv
<1> QED BY <1>1, <1>2, <1>3 DEF RuntimeSteps

\* attach_calls and detach_calls change the calls of the session only.
LEMMA PassKeeps ==
  ASSUME VtInv, NEW s \in Socks, NEW c \in VtCalls, AttachOne(s, c) \/ DetachOne(s, c)
  PROVE  VtInv'
<1>1. call[c] \in CallRecords
  BY DEF VtInv, Types
<1>2. UNCHANGED <<sock, jsock_hash, holder>>
  BY DEF AttachOne, DetachOne
<1>3. CASE UNCHANGED call
  BY <1>2, <1>3 DEF VtInv, Types, TableInv, HolderInv, CallInv
<1>4. CASE \E a \in {0, 1} : call' = InCall(c, "age", a)
  <2>1. PICK a \in {0, 1} : call' = [call EXCEPT ![c] = [call[c] EXCEPT !.age = a]]
    BY <1>4 DEF InCall
  <2> DEFINE x == [call[c] EXCEPT !.age = a]
  <2>2. x \in CallRecords /\ x.phase = call[c].phase /\ x.id = call[c].id /\ x.tracked = call[c].tracked
    BY <1>1 DEF CallRecords
  <2> HIDE DEF x
  <2>3. call' = [call EXCEPT ![c] = x]
    BY <2>1 DEF x
  <2> QED BY <1>2, <2>2, <2>3, CallChanges DEF VtInv, CallInv
<1>5. CASE Up(c) /\ call' = HungUp({c})
  BY <1>2, <1>5, HangingUp DEF Up
<1> QED BY <1>3, <1>4, <1>5 DEF AttachOne, DetachOne, Mine
-----------------------------------------------------------------------------
\* A call takes and gives back its connection: what it takes is in the table, or
\* is none, and the call itself changes as CallInv says.
LEMMA CallHolds ==
  ASSUME VtInv, UNCHANGED <<sock, jsock_hash>>, NEW c \in VtCalls,
         NEW x \in CallRecords, call' = [call EXCEPT ![c] = x],
         NEW h, h = NoSock \/ \E i \in Ids : h = jsock_hash[i],
         holder' = [holder EXCEPT ![c] = h],
         x.phase \notin {"none", "gone"} => x.id # NoId,
         x.tracked => x.phase \in {"up", "down"}
  PROVE  VtInv'
<1>1. h \in Socks \cup {NoSock}
  BY DEF VtInv, Types
<1>2. Types'
  BY <1>1 DEF VtInv, Types
<1>3. \A d \in VtCalls : call'[d] = IF d = c THEN x ELSE call[d]
  BY DEF VtInv, Types
<1>4. \A d \in VtCalls : holder'[d] = IF d = c THEN h ELSE holder[d]
  BY DEF VtInv, Types
<1>5. HolderInv'
  <2>1. h \in Socks => sock[h].phase # "ended"
    BY VertoAssumption DEF VtInv, TableInv
  <2> QED BY <1>4, <2>1 DEF VtInv, HolderInv
<1>6. CallInv'
  BY <1>3 DEF VtInv, CallInv
<1>7. TableInv'
  BY DEF VtInv, TableInv
<1> QED BY <1>2, <1>5, <1>6, <1>7 DEF VtInv

\* A call begins: its session is one there is, or was.
LEMMA CallBegins ==
  ASSUME VtInv, NEW c \in VtCalls,
         \/ \E s \in Socks : invite_func(s, c)
         \/ \E i \in Ids : outgoing_channel(c, i)
  PROVE  VtInv'
<1>1. call[c] \in CallRecords /\ ~call[c].tracked
  <2>1. call[c] \in CallRecords
    BY DEF VtInv, Types
  <2>2. call[c].phase = "none"
    BY DEF invite_func, outgoing_channel
  <2>3. call[c].tracked = FALSE
    BY <2>1, <2>2 DEF VtInv, CallInv, CallRecords
  <2> QED BY <2>1, <2>3
<1> DEFINE x(i, o) == [call[c] EXCEPT !.phase = "init", !.id = i, !.outbound = o]
<1>2. ASSUME NEW i \in Ids, NEW o \in BOOLEAN
      PROVE  /\ x(i, o) \in CallRecords /\ ~x(i, o).tracked
             /\ x(i, o).phase = "init" /\ x(i, o).id # NoId
  BY <1>1, VertoAssumption DEF CallRecords, CallPhases
<1>3. UNCHANGED <<sock, jsock_hash, holder>>
  BY DEF invite_func, outgoing_channel
<1>4. CASE \E s \in Socks : invite_func(s, c)
  <2>1. PICK s \in Socks : invite_func(s, c)
    BY <1>4
  <2>2. sock[s].id \in Ids
    BY <2>1 DEF invite_func, VtInv, TableInv, Types, SockRecords
  <2>3. call[c].outbound \in BOOLEAN
    BY <1>1 DEF CallRecords
  <2>4. call' = [call EXCEPT ![c] = x(sock[s].id, call[c].outbound)]
    BY <2>1, <1>1 DEF invite_func, CallRecords
  <2> HIDE DEF x
  <2> QED BY <1>2, <1>3, <2>2, <2>3, <2>4, CallChanges
<1>5. CASE \E i \in Ids : outgoing_channel(c, i)
  <2>1. PICK i \in Ids : call' = [call EXCEPT ![c] = x(i, TRUE)]
    BY <1>5 DEF outgoing_channel
  <2> HIDE DEF x
  <2> QED BY <1>2, <1>3, <2>1, CallChanges
<1> QED BY <1>4, <1>5

GoneCall == [NewCall EXCEPT !.phase = "gone"]

\* What is left of a call whose session is gone.
LEMMA GoneRecord == GoneCall \in CallRecords /\ GoneCall.phase = "gone" /\ ~GoneCall.tracked
<1>1. NewCall \in CallRecords /\ ~NewCall.tracked
  BY DEF NewCall, CallRecords, CallPhases
<1> QED BY <1>1 DEF GoneCall, CallRecords, CallPhases

\* A call that goes on: it is set up, answered, tracked, ended, and taken out of
\* the list before its session goes.
LEMMA CallGoesOn ==
  ASSUME VtInv, NEW c \in VtCalls, CallSteps(c) \/ Answer(c) \/ EndCall(c)
  PROVE  VtInv'
<1>1. call[c] \in CallRecords
  BY DEF VtInv, Types
<1>2. /\ call[c].phase \notin {"none", "gone"} => call[c].id # NoId
      /\ call[c].tracked => call[c].phase \in {"up", "down"}
  BY DEF VtInv, CallInv
<1> DEFINE p(f) == [call[c] EXCEPT !.phase = f]
<1>3. ASSUME NEW f \in CallPhases
      PROVE  /\ p(f) \in CallRecords /\ p(f).phase = f /\ p(f).id = call[c].id
             /\ p(f).tracked = call[c].tracked
  BY <1>1 DEF CallRecords
<1>4. CASE OnInit(c)
  <2>1. call[c].phase = "init" /\ UNCHANGED <<sock, jsock_hash>>
    BY <1>4 DEF OnInit
  <2>2. call[c].id \in Ids
    BY <1>1, <1>2, <2>1 DEF CallRecords
  <2>3. CASE UNCHANGED holder
    <3>1. PICK f \in {"tracking", "down", "connecting"} : call' = [call EXCEPT ![c] = p(f)]
      BY <1>4 DEF OnInit, InCall
    <3>2. f \in CallPhases
      BY DEF CallPhases
    <3> HIDE DEF p
    <3> QED BY <1>2, <1>3, <2>1, <2>3, <3>1, <3>2, CallChanges
  <2>4. CASE ~UNCHANGED holder
    <3>1. call' = [call EXCEPT ![c] = p("connecting")]
          /\ holder' = [holder EXCEPT ![c] = jsock_hash[call[c].id]]
      BY <1>4, <2>4 DEF OnInit, InCall
    <3>2. "connecting" \in CallPhases
      BY DEF CallPhases
    <3> DEFINE x == p("connecting") h == jsock_hash[call[c].id]
    <3>3. x \in CallRecords /\ x.phase = "connecting" /\ x.id # NoId /\ ~x.tracked
      BY <1>2, <1>3, <2>1, <3>2
    <3>4. \E i \in Ids : h = jsock_hash[i]
      BY <2>2
    <3> HIDE DEF p, x, h
    <3>5. call' = [call EXCEPT ![c] = x] /\ holder' = [holder EXCEPT ![c] = h]
      BY <3>1 DEF x, h
    <3> QED BY <2>1, <3>3, <3>4, <3>5, CallHolds
  <2> QED BY <2>3, <2>4
<1>5. CASE ConnectEnds(c)
  <2>1. PICK f \in {"tracking", "down"} : call' = [call EXCEPT ![c] = p(f)]
    BY <1>5 DEF ConnectEnds, InCall
  <2>2. f \in CallPhases /\ call[c].phase = "connecting"
    BY <1>5 DEF CallPhases, ConnectEnds
  <2>3. holder' = [holder EXCEPT ![c] = NoSock] /\ UNCHANGED <<sock, jsock_hash>>
    BY <1>5 DEF ConnectEnds
  <2> DEFINE x == p(f)
  <2>4. x \in CallRecords /\ x.id # NoId /\ ~x.tracked
    BY <1>2, <1>3, <2>2
  <2> HIDE DEF p, x
  <2>5. call' = [call EXCEPT ![c] = x]
    BY <2>1 DEF x
  <2> QED BY <2>3, <2>4, <2>5, CallHolds
<1>6. CASE track_pvt(c)
  <2> DEFINE x == [call[c] EXCEPT !.phase = "up", !.tracked = TRUE]
  <2>1. x \in CallRecords /\ x.phase = "up" /\ x.id = call[c].id
    BY <1>1 DEF CallRecords, CallPhases
  <2>2. call' = [call EXCEPT ![c] = x] /\ UNCHANGED <<sock, jsock_hash, holder>>
        /\ call[c].phase = "tracking"
    BY <1>6 DEF track_pvt
  <2> HIDE DEF x
  <2> QED BY <1>2, <2>1, <2>2, CallChanges
<1>7. CASE Answer(c)
  <2> DEFINE x == [call[c] EXCEPT !.answered = TRUE]
  <2>1. x \in CallRecords /\ x.phase = call[c].phase /\ x.id = call[c].id /\ x.tracked = call[c].tracked
    BY <1>1 DEF CallRecords
  <2>2. call' = [call EXCEPT ![c] = x] /\ UNCHANGED <<sock, jsock_hash, holder>>
    BY <1>7 DEF Answer, InCall
  <2> HIDE DEF x
  <2> QED BY <1>2, <2>1, <2>2, CallChanges
<1>8. CASE EndCall(c)
  <2>1. PICK r \in BOOLEAN : call' = [call EXCEPT ![c] = [call[c] EXCEPT !.phase = "down", !.remote = r]]
    BY <1>8 DEF EndCall
  <2> DEFINE x == [call[c] EXCEPT !.phase = "down", !.remote = r]
  <2>2. x \in CallRecords /\ x.phase = "down" /\ x.id = call[c].id
    BY <1>1 DEF CallRecords, CallPhases
  <2>3. call' = [call EXCEPT ![c] = x] /\ UNCHANGED <<sock, jsock_hash, holder>>
        /\ call[c].phase = "up"
    BY <1>8, <2>1 DEF EndCall, Up
  <2> HIDE DEF x
  <2> QED BY <1>2, <2>2, <2>3, CallChanges
<1>9. CASE untrack_pvt(c)
  <2> DEFINE x == IF call[c].remote THEN GoneCall
                  ELSE [call[c] EXCEPT !.phase = "bye", !.tracked = FALSE, !.age = 0]
  <2>1. x \in CallRecords /\ ~x.tracked /\ (x.phase # "gone" => x.id = call[c].id)
    <3>1. CASE call[c].remote
      BY <3>1, GoneRecord DEF GoneCall
    <3>2. CASE ~call[c].remote
      <4> DEFINE q == p("bye") a == [q EXCEPT !.tracked = FALSE]
      <4>1. q \in CallRecords /\ q.phase = "bye" /\ q.id = call[c].id
        BY <1>1 DEF CallRecords, CallPhases
      <4>2. a \in CallRecords /\ a.phase = "bye" /\ a.id = call[c].id /\ ~a.tracked
        <5> HIDE DEF q
        <5> QED BY <4>1 DEF CallRecords
      <4>3. x = [a EXCEPT !.age = 0]
        BY <1>1, <3>2 DEF CallRecords
      <4> HIDE DEF x, a
      <4> QED BY <4>2, <4>3 DEF CallRecords
    <3> QED BY <3>1, <3>2
  <2>2. call' = [call EXCEPT ![c] = x] /\ UNCHANGED <<sock, jsock_hash, holder>>
        /\ call[c].phase = "down"
    BY <1>9 DEF untrack_pvt, GoneCall
  <2> HIDE DEF x
  <2> QED BY <1>2, <2>1, <2>2, CallChanges
<1>10. CASE SendsBye(c)
  <2>1. call' = [call EXCEPT ![c] = p("sending")] /\ call[c].phase = "bye"
        /\ holder' = [holder EXCEPT ![c] = jsock_hash[call[c].id]] /\ UNCHANGED <<sock, jsock_hash>>
    BY <1>10 DEF SendsBye, InCall
  <2>2. call[c].id \in Ids /\ "sending" \in CallPhases
    BY <1>1, <1>2, <2>1 DEF CallRecords, CallPhases
  <2> DEFINE x == p("sending") h == jsock_hash[call[c].id]
  <2>3. x \in CallRecords /\ x.phase = "sending" /\ x.id # NoId /\ ~x.tracked
    BY <1>2, <1>3, <2>1, <2>2
  <2>4. \E i \in Ids : h = jsock_hash[i]
    BY <2>2
  <2> HIDE DEF p, x, h
  <2>5. call' = [call EXCEPT ![c] = x] /\ holder' = [holder EXCEPT ![c] = h]
    BY <2>1 DEF x, h
  <2> QED BY <2>1, <2>3, <2>4, <2>5, CallHolds
<1>11. CASE Gone(c)
  <2>1. call' = [call EXCEPT ![c] = GoneCall] /\ holder' = [holder EXCEPT ![c] = NoSock]
        /\ UNCHANGED <<sock, jsock_hash>>
    BY <1>11 DEF Gone, GoneCall
  <2> QED BY <2>1, GoneRecord, CallHolds
<1> QED BY <1>4, <1>5, <1>6, <1>7, <1>8, <1>9, <1>10, <1>11 DEF CallSteps

\* What connections and calls keep to, at every step.
LEMMA VtInvKept == VtInv /\ [VtNext]_vtvars => VtInv'
<1> SUFFICES ASSUME VtInv, [VtNext]_vtvars
             PROVE  VtInv'
  OBVIOUS
<1>1. CASE RuntimeSteps \/ Tick
  BY <1>1, RuntimeKeeps
<1>2. ASSUME NEW s \in Socks,
             \/ start_jsock(s) \/ Login(s) \/ Drop(s) \/ Leave(s)
             \/ PassSteps(s) \/ EndSteps(s)
      PROVE  VtInv'
  BY <1>2, ConnectionKeeps, EntryGoes, PassKeeps DEF PassSteps, EndSteps
<1>3. ASSUME NEW s \in Socks, NEW i \in Ids, set_session_id(s, i)
      PROVE  VtInv'
  BY <1>3, TakesOver
<1>4. ASSUME NEW c \in VtCalls,
             \/ \E s \in Socks : invite_func(s, c)
             \/ \E i \in Ids : outgoing_channel(c, i)
      PROVE  VtInv'
  BY <1>4, CallBegins
<1>5. ASSUME NEW c \in VtCalls, CallSteps(c) \/ Answer(c) \/ EndCall(c)
      PROVE  VtInv'
  BY <1>5, CallGoesOn
<1>6. CASE UNCHANGED vtvars
  BY <1>6 DEF vtvars, VtInv, Types, TableInv, HolderInv, CallInv
<1> QED BY <1>1, <1>2, <1>3, <1>4, <1>5, <1>6 DEF VtNext

\* It holds in every reachable state.
LEMMA VtInvariant == VtSpec => []VtInv
BY VtInvKept, VtInvInit, PTL DEF VtSpec

-----------------------------------------------------------------------------
\* jsock_hash, a held connection and the list of calls lead to what is there.
THEOREM NothingLeftDangling == VtSpec => []NothingDangles
<1>1. VtInv => NothingDangles
  BY VertoAssumption DEF VtInv, Types, TableInv, HolderInv, CallInv, NothingDangles
<1> QED BY <1>1, VtInvariant, PTL

-----------------------------------------------------------------------------
(***************************************************************************)
(* The calls that are detached                                             *)
(***************************************************************************)

DetachedCalls == {c \in VtCalls : call[c].age # 0}

\* The calls that a connection has looked at when it ended.
HasSeen(s, c) == \/ sock[s].phase \in {"flushing", "ended"}
                 \/ sock[s].phase = "detaching" /\ c \notin pass[s].todo
Seen == {w \in Socks \X VtCalls : HasSeen(w[1], w[2])}

PassTypes ==
  /\ pass \in [Socks -> [todo : SUBSET VtCalls, wake : BOOLEAN]]
  /\ \A c \in VtCalls : call[c].age \in 0..detach_timeout + 1
  /\ detached \in 0..Uint32 - 1

\* As long as no passes overlap: a call is counted when it is detached, perhaps
\* again by the next connection, and so never more than once by each of them.
DetachedInv ==
  /\ PassTypes
  /\ ~lapped => Cardinality(DetachedCalls) <= detached /\ detached <= Cardinality(Seen)

\* So the count does not come to its limit.
LEMMA SeenBelowLimit ==
  ASSUME NEW S, S \subseteq Socks \X VtCalls
  PROVE  IsFiniteSet(S) /\ Cardinality(S) \in Nat /\ Cardinality(S) < Uint32
<1>1. IsFiniteSet(Socks \X VtCalls)
      /\ Cardinality(Socks \X VtCalls) = Cardinality(Socks) * Cardinality(VtCalls)
  BY DetachedAssumption, FS_Product
<1>2. IsFiniteSet(S) /\ Cardinality(S) <= Cardinality(Socks \X VtCalls)
  BY <1>1, FS_Subset
<1>3. Cardinality(S) \in Nat /\ Cardinality(Socks \X VtCalls) \in Nat
  BY <1>1, <1>2, FS_CardinalityType
<1>4. Cardinality(Socks \X VtCalls) < Uint32 /\ Uint32 \in Nat
  BY <1>1, DetachedAssumption, VertoAssumption
<1> QED BY <1>2, <1>3, <1>4

\* Calls are finitely many.
LEMMA DetachedFinite ==
  ASSUME NEW D, D \subseteq VtCalls
  PROVE  IsFiniteSet(D) /\ Cardinality(D) \in Nat
<1>1. IsFiniteSet(D)
  BY DetachedAssumption, FS_Subset
<1> QED BY <1>1, FS_CardinalityType

\* Steps that neither attach nor detach.
LEMMA CountAside ==
  ASSUME VtInv, DetachedInv, PassTypes', UNCHANGED <<detached, lapped>>,
         \A c \in VtCalls : call[c].age = 0 => call'[c].age = 0,
         Seen \subseteq Seen'
  PROVE  DetachedInv'
<1>1. DetachedCalls' \subseteq DetachedCalls
  BY DEF DetachedCalls
<1>2. DetachedCalls \subseteq VtCalls /\ Seen' \subseteq Socks \X VtCalls
  BY DEF DetachedCalls, Seen
<1>3. Cardinality(DetachedCalls') <= Cardinality(DetachedCalls)
  BY <1>1, <1>2, DetachedFinite, FS_Subset
<1>4. Cardinality(Seen) <= Cardinality(Seen')
  BY <1>2, SeenBelowLimit, FS_Subset
<1>5. /\ Cardinality(DetachedCalls') \in Nat /\ Cardinality(DetachedCalls) \in Nat
      /\ Cardinality(Seen') \in Nat /\ Cardinality(Seen) \in Nat
  BY <1>1, <1>2, SeenBelowLimit, DetachedFinite
<1>6. detached \in Nat
  BY VertoAssumption DEF DetachedInv, PassTypes
<1> QED BY <1>3, <1>4, <1>5, <1>6 DEF DetachedInv

\* A call is attached again, or goes: it was counted, and the count is not 0.
LEMMA CountDown ==
  ASSUME VtInv, DetachedInv, PassTypes', NEW c \in VtCalls, call[c].age # 0, call'[c].age = 0,
         \A d \in VtCalls \ {c} : call'[d].age = call[d].age,
         Seen \subseteq Seen',
         lapped' \/ (detached' = (detached - 1) % Uint32 /\ ~lapped)
  PROVE  DetachedInv'
<1> SUFFICES ASSUME ~lapped'
             PROVE  Cardinality(DetachedCalls') <= detached' /\ detached' <= Cardinality(Seen')
  BY DEF DetachedInv
<1>1. DetachedCalls' = DetachedCalls \ {c} /\ c \in DetachedCalls
  BY DEF DetachedCalls
<1>2. DetachedCalls \subseteq VtCalls /\ Seen' \subseteq Socks \X VtCalls
  BY DEF DetachedCalls, Seen
<1>3. IsFiniteSet(DetachedCalls) /\ Cardinality(DetachedCalls) \in Nat
      /\ Cardinality(DetachedCalls') \in Nat
  BY <1>1, <1>2, DetachedFinite
<1>4. Cardinality(DetachedCalls') = Cardinality(DetachedCalls) - 1
  BY <1>1, <1>3, FS_RemoveElement
<1>5. Cardinality(Seen) <= Cardinality(Seen') /\ Cardinality(Seen) \in Nat /\ Cardinality(Seen') \in Nat
  BY <1>2, SeenBelowLimit, FS_Subset
<1>6. /\ Cardinality(DetachedCalls) <= detached /\ detached <= Cardinality(Seen)
      /\ detached' = (detached - 1) % Uint32
  BY DEF DetachedInv
<1>7. detached \in Nat /\ detached < Uint32 /\ Uint32 \in Nat \ {0}
  BY VertoAssumption DEF DetachedInv, PassTypes
<1>8. detached - 1 \in 0..Uint32 - 1
  BY <1>3, <1>4, <1>6, <1>7
<1>9. detached' = detached - 1
  BY <1>6, <1>7, <1>8
<1> QED BY <1>3, <1>4, <1>5, <1>6, <1>7, <1>9

\* A call is detached, and counted, by a connection that had not looked at it.
LEMMA CountUp ==
  ASSUME VtInv, DetachedInv, PassTypes', NEW s \in Socks, NEW c \in VtCalls,
         \A d \in VtCalls \ {c} : call'[d].age = call[d].age,
         Seen' = Seen \cup {<<s, c>>}, <<s, c>> \notin Seen,
         lapped' \/ (detached' = (detached + 1) % Uint32 /\ ~lapped)
  PROVE  DetachedInv'
<1> SUFFICES ASSUME ~lapped'
             PROVE  Cardinality(DetachedCalls') <= detached' /\ detached' <= Cardinality(Seen')
  BY DEF DetachedInv
<1>1. DetachedCalls' \subseteq DetachedCalls \cup {c}
  BY DEF DetachedCalls
<1>2. /\ DetachedCalls \subseteq VtCalls /\ DetachedCalls \cup {c} \subseteq VtCalls
      /\ DetachedCalls' \subseteq VtCalls /\ Seen' \subseteq Socks \X VtCalls
  BY <1>1 DEF DetachedCalls, Seen
<1>3. /\ IsFiniteSet(DetachedCalls) /\ IsFiniteSet(DetachedCalls \cup {c})
      /\ Cardinality(DetachedCalls) \in Nat /\ Cardinality(DetachedCalls') \in Nat
      /\ Cardinality(DetachedCalls \cup {c}) \in Nat
  BY <1>2, DetachedFinite
<1>4. Cardinality(DetachedCalls \cup {c}) <= Cardinality(DetachedCalls) + 1
  BY <1>3, FS_AddElement
<1>5. Cardinality(DetachedCalls') <= Cardinality(DetachedCalls \cup {c})
  BY <1>1, <1>3, FS_Subset
<1>6. Seen \subseteq Socks \X VtCalls
  BY <1>2
<1>7. IsFiniteSet(Seen) /\ Cardinality(Seen) \in Nat
  BY <1>6, SeenBelowLimit
<1>8. Cardinality(Seen') = Cardinality(Seen) + 1
  BY <1>7, FS_AddElement
<1>9. Cardinality(Seen') < Uint32 /\ Cardinality(Seen') \in Nat
  BY <1>2, SeenBelowLimit
<1>10. /\ Cardinality(DetachedCalls) <= detached /\ detached <= Cardinality(Seen)
       /\ detached' = (detached + 1) % Uint32
  BY DEF DetachedInv
<1>11. detached \in Nat /\ Uint32 \in Nat \ {0}
  BY VertoAssumption DEF DetachedInv, PassTypes
<1>12. detached + 1 \in 0..Uint32 - 1
  BY <1>7, <1>8, <1>9, <1>10, <1>11
<1>13. detached' = detached + 1
  BY <1>10, <1>11, <1>12
<1> QED BY <1>3, <1>4, <1>5, <1>7, <1>8, <1>10, <1>11, <1>13

\* Connections come and go, and start to look through the calls.
LEMMA ConnectionsKeepCount ==
  ASSUME VtInv, DetachedInv, NEW s \in Socks,
         \/ start_jsock(s) \/ Login(s) \/ Drop(s) \/ Leave(s) \/ EndSteps(s)
         \/ AttachEnds(s) \/ DetachEnds(s) \/ \E i \in Ids : set_session_id(s, i)
  PROVE  DetachedInv'
<1>1. UNCHANGED <<call, detached, lapped>>
  BY DEF start_jsock, Login, Drop, Leave, EndSteps, DeletesEntry, StartsDetaching, ThreadEnds,
     AttachEnds, DetachEnds, set_session_id
<1>2. pass' \in [Socks -> [todo : SUBSET VtCalls, wake : BOOLEAN]]
  <2>1. pass \in [Socks -> [todo : SUBSET VtCalls, wake : BOOLEAN]]
    BY DEF DetachedInv, PassTypes
  <2>2. CASE pass' = [pass EXCEPT ![s].todo = {c \in VtCalls : call[c].tracked}]
    BY <2>1, <2>2
  <2>3. CASE pass' = [pass EXCEPT ![s].wake = FALSE]
    BY <2>1, <2>3
  <2> QED BY <2>1, <2>2, <2>3 DEF start_jsock, Login, Drop, Leave, EndSteps, DeletesEntry,
         StartsDetaching, ThreadEnds, AttachEnds, DetachEnds, set_session_id
<1>3. PassTypes'
  BY <1>1, <1>2 DEF DetachedInv, PassTypes
<1>4. \A t \in Socks : sock[t] \in SockRecords
  BY DEF VtInv, Types
<1>5. ASSUME NEW t \in Socks, NEW c \in VtCalls, HasSeen(t, c)
      PROVE  HasSeen(t, c)'
  <2>1. CASE \E i \in Ids : set_session_id(s, i)
    <3>1. sock'[t].phase = sock[t].phase /\ UNCHANGED pass
      <4>1. PICK i \in Ids : set_session_id(s, i)
        BY <2>1
      <4>2. sock[t] \in SockRecords
        BY <1>4
      <4>3. CASE sock'[t] = [sock[t] EXCEPT !.id = i]
        BY <4>1, <4>2, <4>3 DEF set_session_id, SockRecords
      <4>4. CASE sock'[t] = [sock[t] EXCEPT !.nodelete = TRUE, !.drop = TRUE]
        BY <4>1, <4>2, <4>4 DEF set_session_id, SockRecords
      <4>5. CASE sock'[t] = sock[t]
        BY <4>1, <4>5 DEF set_session_id
      <4>6. \/ sock'[t] = [sock[t] EXCEPT !.id = i]
            \/ sock'[t] = [sock[t] EXCEPT !.nodelete = TRUE, !.drop = TRUE]
            \/ sock'[t] = sock[t]
        BY <4>1 DEF set_session_id
      <4> QED BY <4>3, <4>4, <4>5, <4>6
    <3> QED BY <1>5, <3>1 DEF HasSeen
  <2>2. CASE start_jsock(s) \/ Login(s) \/ Drop(s) \/ Leave(s) \/ EndSteps(s) \/ AttachEnds(s)
    <3>1. t # s => sock'[t] = sock[t] /\ pass'[t] = pass[t]
      BY <2>2 DEF start_jsock, Login, Drop, Leave, EndSteps, DeletesEntry, StartsDetaching,
         ThreadEnds, AttachEnds, InSock, VtInv, Types, DetachedInv, PassTypes
    <3>2. \/ sock[s].phase \in {"none", "open", "attaching", "deleting", "left"}
          \/ sock[s].phase = "flushing" /\ sock'[s].phase = "ended"
      BY <1>4, <2>2 DEF start_jsock, Login, Drop, Leave, EndSteps, DeletesEntry, StartsDetaching,
         ThreadEnds, AttachEnds, Listening, NewSock, VtInv, Types
    <3> QED BY <1>5, <3>1, <3>2 DEF HasSeen
  <2>3. CASE DetachEnds(s)
    <3>1. /\ t # s => sock'[t] = sock[t] /\ pass'[t] = pass[t]
          /\ sock'[s].phase = "flushing"
      BY <1>4, <2>3 DEF DetachEnds, InSock, VtInv, Types, DetachedInv, PassTypes, SockRecords
    <3> QED BY <1>5, <3>1 DEF HasSeen
  <2> QED BY <2>1, <2>2, <2>3
<1>6. Seen \subseteq Seen'
  BY <1>5 DEF Seen
<1> QED BY <1>1, <1>3, <1>6, CountAside

\* Calls go on, and the clock: none is detached by that, or attached unseen.
LEMMA CallsKeepCount ==
  ASSUME VtInv, DetachedInv,
         \/ Tick \/ RuntimeSteps
         \/ \E c \in VtCalls : \/ ConnectEnds(c) \/ OnInit(c) \/ track_pvt(c) \/ SendsBye(c) \/ Gone(c)
                               \/ Answer(c) \/ EndCall(c)
                               \/ \E i \in Ids : outgoing_channel(c, i)
                               \/ \E s \in Socks : invite_func(s, c)
  PROVE  DetachedInv'
<1>1. UNCHANGED <<sock, pass, detached, lapped>>
  BY DEF Tick, RuntimeSteps, RuntimeLooks, RuntimeWaits, ConnectEnds, OnInit, track_pvt, SendsBye,
     Gone, Answer, EndCall, outgoing_channel, invite_func
<1>2. \A c \in VtCalls : call[c] \in CallRecords
  BY DEF VtInv, Types
<1>3. ASSUME NEW c \in VtCalls
      PROVE  \/ call'[c].age = call[c].age
             \/ call'[c].age = 0
             \/ call[c].age \in 1..detach_timeout /\ call'[c].age = call[c].age + 1
  <2>1. CASE Tick
    BY <1>2, <2>1 DEF Tick, CallRecords
  <2>2. CASE RuntimeSteps
    BY <1>2, <2>2 DEF RuntimeSteps, RuntimeLooks, RuntimeWaits, HungUp, CallRecords
  <2>3. ASSUME NEW d \in VtCalls,
               \/ ConnectEnds(d) \/ OnInit(d) \/ track_pvt(d) \/ SendsBye(d) \/ Gone(d) \/ Answer(d) \/ EndCall(d)
               \/ \E i \in Ids : outgoing_channel(d, i)
               \/ \E s \in Socks : invite_func(s, d)
        PROVE  call'[c].age \in {call[c].age, 0}
    <3>1. call[c] \in CallRecords /\ call \in [VtCalls -> CallRecords]
      BY <1>2 DEF VtInv, Types
    <3>2. CASE ConnectEnds(d) \/ OnInit(d) \/ SendsBye(d) \/ Answer(d)
      <4>1. PICK f \in {"phase", "answered"} : \E x : call' = InCall(d, f, x)
        BY <3>2 DEF ConnectEnds, OnInit, SendsBye, Answer
      <4>2. CASE f = "phase"
        BY <3>1, <4>1, <4>2 DEF InCall, CallRecords
      <4>3. CASE f = "answered"
        BY <3>1, <4>1, <4>3 DEF InCall, CallRecords
      <4> QED BY <4>2, <4>3
    <3>3. CASE track_pvt(d)
      BY <3>1, <3>3 DEF track_pvt, CallRecords
    <3>4. CASE Gone(d)
      BY <3>1, <3>4 DEF Gone, NewCall, CallRecords
    <3>5. CASE EndCall(d)
      BY <3>1, <3>5 DEF EndCall, CallRecords
    <3>6. CASE \E i \in Ids : outgoing_channel(d, i)
      <4>1. c # d => call'[c] = call[c]
        BY <3>1, <3>6 DEF outgoing_channel
      <4>2. PICK i \in Ids : call' = [call EXCEPT ![d].phase = "init", ![d].id = i, ![d].outbound = TRUE]
        BY <3>6 DEF outgoing_channel
      <4>3. [call[d] EXCEPT !.phase = "init", !.id = i, !.outbound = TRUE].age = call[d].age
        BY <3>1 DEF CallRecords
      <4>4. call'[d] = [call[d] EXCEPT !.phase = "init", !.id = i, !.outbound = TRUE]
        BY <3>1, <4>2
      <4> QED BY <4>1, <4>3, <4>4
    <3>7. CASE \E s \in Socks : invite_func(s, d)
      BY <3>1, <3>7 DEF invite_func, CallRecords
    <3> QED BY <2>3, <3>2, <3>3, <3>4, <3>5, <3>6, <3>7
  <2> QED BY <2>1, <2>2, <2>3
<1>4. \A c \in VtCalls : call[c].age \in 0..detach_timeout + 1
  BY DEF DetachedInv, PassTypes
<1>5. \A c \in VtCalls : call'[c].age \in 0..detach_timeout + 1 /\ (call[c].age = 0 => call'[c].age = 0)
  BY <1>3, <1>4, VertoAssumption
<1>6. PassTypes'
  BY <1>1, <1>5 DEF DetachedInv, PassTypes
<1>7. Seen \subseteq Seen'
  BY <1>1 DEF Seen, HasSeen
<1> QED BY <1>1, <1>5, <1>6, <1>7, CountAside

\* attach_calls and detach_calls, call by call.
LEMMA PassesKeepCount ==
  ASSUME VtInv, DetachedInv, NEW s \in Socks, NEW c \in VtCalls, AttachOne(s, c) \/ DetachOne(s, c)
  PROVE  DetachedInv'
<1> DEFINE R == [todo : SUBSET VtCalls, wake : BOOLEAN]
<1>1. /\ \A t \in Socks : sock[t] \in SockRecords
      /\ call \in [VtCalls -> CallRecords]
      /\ pass \in [Socks -> R]
      /\ \A d \in VtCalls : call[d].age \in 0..detach_timeout + 1
      /\ detached \in 0..Uint32 - 1 /\ Uint32 \in Nat \ {0} /\ detach_timeout \in Nat
  BY VertoAssumption DEF VtInv, Types, DetachedInv, PassTypes
<1>2. UNCHANGED sock /\ c \in pass[s].todo
  BY DEF AttachOne, DetachOne
<1>3. /\ pass' \in [Socks -> R]
      /\ \A t \in Socks \ {s} : pass'[t] = pass[t]
      /\ pass'[s].todo = pass[s].todo \ {c}
  <2>1. CASE pass' = [pass EXCEPT ![s].todo = @ \ {c}]
    BY <1>1, <2>1
  <2>2. CASE pass' = [pass EXCEPT ![s].todo = @ \ {c}, ![s].wake = TRUE]
    <3>1. pass[s] \in R
      BY <1>1
    <3>2. [pass[s] EXCEPT !.todo = @ \ {c}, !.wake = TRUE] \in R
      BY <3>1
    <3>3. [pass[s] EXCEPT !.todo = @ \ {c}, !.wake = TRUE].todo = pass[s].todo \ {c}
      BY <3>1
    <3>4. pass' = [pass EXCEPT ![s] = [pass[s] EXCEPT !.todo = @ \ {c}, !.wake = TRUE]]
      BY <1>1, <2>2
    <3> QED BY <1>1, <3>2, <3>3, <3>4
  <2> QED BY <2>1, <2>2 DEF AttachOne, DetachOne
<1>4. \A t \in Socks, d \in VtCalls :
        HasSeen(t, d)' <=> HasSeen(t, d) \/ (t = s /\ d = c /\ sock[s].phase = "detaching")
  BY <1>2, <1>3 DEF HasSeen
<1>5. Seen \subseteq Seen'
  BY <1>4 DEF Seen
<1>6. \A t \in Socks : pass'[t] \in R
  BY <1>3
<1>7. Updated(s, 1) \/ Updated(s, -1) => detached' \in 0..Uint32 - 1
  BY <1>1 DEF Updated
<1>8. CASE UNCHANGED <<detached, lapped>> /\ \A d \in VtCalls : call'[d].age = call[d].age
  <2>1. PassTypes'
    BY <1>1, <1>3, <1>8 DEF PassTypes
  <2> QED BY <1>5, <1>8, <2>1, CountAside
<1>9. CASE AttachOne(s, c) /\ Mine(s, c) /\ call[c].age # 0
  <2>1. call' = InCall(c, "age", 0) /\ Updated(s, -1)
    BY <1>9 DEF AttachOne
  <2>2. call'[c].age = 0 /\ \A d \in VtCalls \ {c} : call'[d].age = call[d].age
    BY <1>1, <2>1 DEF InCall, CallRecords
  <2>3. PassTypes'
    <3>1. \A d \in VtCalls : call'[d].age \in 0..detach_timeout + 1
      BY <1>1, <2>2
    <3> QED BY <1>3, <1>7, <2>1, <3>1 DEF PassTypes
  <2>4. lapped' \/ (detached' = (detached + -1) % Uint32 /\ ~lapped)
    BY <2>1 DEF Updated
  <2>5. (detached + -1) % Uint32 = (detached - 1) % Uint32
    BY <1>1
  <2> QED BY <1>5, <1>9, <2>2, <2>3, <2>4, <2>5, CountDown
<1>10. CASE DetachOne(s, c) /\ call' = InCall(c, "age", 1) /\ Updated(s, 1)
  <2>1. call'[c].age = 1 /\ \A d \in VtCalls \ {c} : call'[d].age = call[d].age
    BY <1>1, <1>10 DEF InCall, CallRecords
  <2>2. PassTypes'
    <3>1. \A d \in VtCalls : call'[d].age \in 0..detach_timeout + 1
      BY <1>1, <2>1
    <3> QED BY <1>3, <1>7, <1>10, <3>1 DEF PassTypes
  <2>3. sock[s].phase = "detaching"
    BY <1>10 DEF DetachOne
  <2>4. ~HasSeen(s, c)
    BY <1>2, <2>3 DEF HasSeen
  <2>5. Seen' = Seen \cup {<<s, c>>} /\ <<s, c>> \notin Seen
    BY <1>4, <2>3, <2>4 DEF Seen
  <2>6. lapped' \/ (detached' = (detached + 1) % Uint32 /\ ~lapped)
    BY <1>10 DEF Updated
  <2> QED BY <2>1, <2>2, <2>5, <2>6, CountUp
<1>11. \/ UNCHANGED <<detached, lapped>> /\ \A d \in VtCalls : call'[d].age = call[d].age
       \/ AttachOne(s, c) /\ Mine(s, c) /\ call[c].age # 0
       \/ DetachOne(s, c) /\ call' = InCall(c, "age", 1) /\ Updated(s, 1)
  <2>1. \/ UNCHANGED <<detached, lapped>> /\ (UNCHANGED call \/ call' = HungUp({c}))
        \/ AttachOne(s, c) /\ Mine(s, c) /\ call[c].age # 0
        \/ DetachOne(s, c) /\ call' = InCall(c, "age", 1) /\ Updated(s, 1)
    BY DEF AttachOne, DetachOne
  <2>2. ASSUME call' = HungUp({c}), NEW d \in VtCalls
        PROVE  call'[d].age = call[d].age
    BY <1>1, <2>2 DEF HungUp, CallRecords
  <2> QED BY <2>1, <2>2
<1> QED BY <1>8, <1>9, <1>10, <1>11

\* A call that ends: if it was detached, it is counted off.
LEMMA EndKeepsCount ==
  ASSUME VtInv, DetachedInv, NEW c \in VtCalls, untrack_pvt(c)
  PROVE  DetachedInv'
<1>1. /\ call \in [VtCalls -> CallRecords]
      /\ \A d \in VtCalls : call[d].age \in 0..detach_timeout + 1
      /\ detached \in 0..Uint32 - 1 /\ Uint32 \in Nat \ {0} /\ detach_timeout \in Nat
  BY VertoAssumption DEF VtInv, Types, DetachedInv, PassTypes
<1>2. UNCHANGED <<sock, pass, lapped>>
  BY DEF untrack_pvt
<1>3. Seen \subseteq Seen'
  BY <1>2 DEF Seen, HasSeen
<1>4. call'[c].age = 0 /\ \A d \in VtCalls \ {c} : call'[d].age = call[d].age
  BY <1>1 DEF untrack_pvt, NewCall, CallRecords
<1>5. \A d \in VtCalls : call'[d].age \in 0..detach_timeout + 1
  BY <1>1, <1>4
<1>6. CASE call[c].age # 0
  <2>1. detached' = (detached - 1) % Uint32
    BY <1>6 DEF untrack_pvt
  <2>2. detached' \in 0..Uint32 - 1
    BY <1>1, <2>1
  <2>3. PassTypes'
    BY <1>2, <1>5, <2>2 DEF PassTypes, DetachedInv
  <2> QED BY <1>2, <1>3, <1>4, <1>6, <2>1, <2>3, CountDown
<1>7. CASE call[c].age = 0
  <2>1. UNCHANGED detached
    BY <1>7 DEF untrack_pvt
  <2>2. PassTypes'
    BY <1>2, <1>5, <2>1 DEF PassTypes, DetachedInv
  <2>3. \A d \in VtCalls : call[d].age = 0 => call'[d].age = 0
    BY <1>4
  <2> QED BY <1>2, <1>3, <2>1, <2>2, <2>3, CountAside
<1> QED BY <1>6, <1>7

\* Nothing is detached at first.
LEMMA DetachedInvInit == VtInit => DetachedInv
<1> SUFFICES ASSUME VtInit PROVE DetachedInv
  OBVIOUS
<1>1. PassTypes
  BY VertoAssumption DEF VtInit, PassTypes, NewCall
<1>2. DetachedCalls = {} /\ Seen \subseteq Socks \X VtCalls /\ detached = 0
  BY DEF VtInit, DetachedCalls, Seen, NewCall
<1>3. Cardinality(DetachedCalls) = 0 /\ Cardinality(Seen) \in Nat
  BY <1>2, FS_EmptySet, SeenBelowLimit
<1> QED BY <1>1, <1>2, <1>3 DEF DetachedInv

\* The count lies between the calls detached and those looked at.
LEMMA DetachedInvKept == VtInv /\ DetachedInv /\ [VtNext]_vtvars => DetachedInv'
<1> SUFFICES ASSUME VtInv, DetachedInv, [VtNext]_vtvars PROVE DetachedInv'
  OBVIOUS
<1>1. CASE UNCHANGED vtvars
  <2>1. PassTypes'
    BY <1>1 DEF vtvars, DetachedInv, PassTypes
  <2>2. Seen \subseteq Seen'
    BY <1>1 DEF vtvars, Seen, HasSeen
  <2> QED BY <1>1, <2>1, <2>2, CountAside DEF vtvars
<1>2. CASE VtNext
  BY <1>2, ConnectionsKeepCount, CallsKeepCount, PassesKeepCount, EndKeepsCount
     DEF VtNext, PassSteps, CallSteps
<1> QED BY <1>1, <1>2

\* It holds in every reachable state.
LEMMA DetachedInvariant == VtSpec => []DetachedInv
BY DetachedInvInit, DetachedInvKept, VtInvariant, PTL DEF VtSpec

\* mod_verto never counts fewer detached calls than there are, as long as no two
\* of attach_calls and detach_calls went on at once: mod_verto_runtime, which
\* waits when `detached' is 0, then does not wait while a call is detached.
THEOREM DetachedAreCounted == VtSpec => []CountCovers
<1>1. VtInv /\ DetachedInv => CountCovers
  <2>1. DetachedCalls \subseteq VtCalls
    BY DEF DetachedCalls
  <2>2. Cardinality(DetachedCalls) \in Nat
    BY <2>1, DetachedFinite
  <2> QED BY <2>2, VertoAssumption DEF DetachedInv, PassTypes, CountCovers, DetachedCalls
<1> QED BY <1>1, VtInvariant, DetachedInvariant, PTL

\* Types are part of both invariants.
LEMMA VtTypes == VtInv /\ DetachedInv => VtTypeOK
BY DEF VtInv, Types, SockRecords, CallRecords, DetachedInv, PassTypes, VtTypeOK

\* The values that the state of mod_verto takes: ages that stop at the timeout,
\* a count that stays within its width.
THEOREM VtTypesHold == VtSpec => []VtTypeOK
BY VtTypes, VtInvariant, DetachedInvariant, PTL

-----------------------------------------------------------------------------
(***************************************************************************)
(* mod_loopback                                                            *)
(*                                                                         *)
(* A leg points to the other from its init to its hangup, and holds it by  *)
(* a read lock all the while, so that it is not destroyed.  The legs are   *)
(* linked by the init of leg A, which also sets its pointer: a hangup of   *)
(* leg A that finds no pointer finds nothing linked.  Leg B has met leg A  *)
(* when its own init set its pointer.                                      *)
(***************************************************************************)

PointerInv ==
  /\ leg["A"] \notin {"none", "stranded"}
  /\ leg["A"] = "init" => ~other["A"]
  /\ leg["B"] = "none" => ~other["A"] /\ ~other["B"]
  /\ \A l \in Leg : other[l] => l \in lockers[Peer(l)]

LinkInv ==
  /\ linked["A"] \/ linked["B"] => other["A"] \/ leg["A"] \in {"released", "destroyed"}
  /\ met => other["B"] \/ leg["B"] \in {"released", "destroyed"}

LegInv == LbTypeOK /\ PointerInv /\ LinkInv /\ OtherLegLocked /\ UnlinkedTogether

\* channel_outgoing_channel has made leg A, and nothing else.
LEMMA LegInit == LbInit => LegInv
BY DEF LbInit, LegInv, LbTypeOK, PointerInv, LinkInv, OtherLegLocked, UnlinkedTogether, Leg, Peer

\* channel_on_init of both legs.
LEMMA InitsKeep ==
  ASSUME LegInv, InitA \/ InitAFails \/ InitB
  PROVE  LegInv'
<1> USE DEF LegInv, LbTypeOK, PointerInv, LinkInv, OtherLegLocked, UnlinkedTogether, Leg, Peer,
            Set, Hung
<1>1. CASE InitA
  BY <1>1 DEF InitA
<1>2. CASE InitAFails
  BY <1>2 DEF InitAFails
<1>3. CASE InitB
  <2>1. CASE Hung("A")
    <3>1. /\ leg' = [leg EXCEPT !["B"] = "down"] /\ linked' = [linked EXCEPT !["B"] = FALSE]
          /\ UNCHANGED <<lockers, other, bridged, bowout, writer, met>>
      BY <1>3, <2>1 DEF InitB
    <3>2. leg["B"] = "init"
      BY <1>3 DEF InitB
    <3> QED BY <2>1, <3>1, <3>2
  <2>2. CASE ~Hung("A")
    <3>1. /\ leg' = [leg EXCEPT !["B"] = "up"] /\ other' = [other EXCEPT !["B"] = TRUE]
          /\ lockers' = [lockers EXCEPT !["A"] = @ \cup {"B"}] /\ met'
          /\ UNCHANGED <<linked, bridged, bowout, writer>>
      BY <1>3, <2>2 DEF InitB
    <3>2. leg["B"] = "init" /\ leg["A"] \in {"init", "up"}
      BY <1>3, <2>2 DEF InitB
    <3>3. LbTypeOK'
      BY <1>3, <2>2, <3>1 DEF InitB
    <3> QED BY <3>1, <3>2, <3>3
  <2> QED BY <2>1, <2>2
<1> QED BY <1>1, <1>2, <1>3

\* The thread that writes into leg A, and the bridges.
LEMMA BridgesKeep ==
  ASSUME LegInv,
         WriterLooks \/ WriterSteps \/ \E l \in Leg : BowOutOnExecute(l) \/ Bridge(l) \/ Unbridge(l)
  PROVE  LegInv'
<1> USE DEF LegInv, LbTypeOK, PointerInv, LinkInv, OtherLegLocked, UnlinkedTogether, Leg, Peer,
            Set, HangUp
<1>1. CASE WriterLooks
  BY <1>1 DEF WriterLooks
<1>2. CASE WriterFinds
  BY <1>2 DEF WriterFinds
<1>3. CASE WriterBowsOut
  <2>1. UNCHANGED <<lockers, other, linked, met>>
    BY <1>3 DEF WriterBowsOut
  <2>2. bowout' \in [Leg -> BOOLEAN] /\ bridged' \in [Leg -> BOOLEAN] /\ writer' \in {"idle", "undefined"}
    BY <1>3 DEF WriterBowsOut
  <2>3. \A l \in Leg : leg'[l] = leg[l] \/ (leg[l] \in {"init", "up"} /\ leg'[l] = "down")
    BY <1>3 DEF WriterBowsOut
  <2>4. leg' \in [Leg -> {"none", "init", "up", "down", "released", "destroyed", "stranded"}]
    BY <1>3, <2>3 DEF WriterBowsOut
  <2> QED BY <2>1, <2>2, <2>3, <2>4
<1>4. ASSUME NEW l \in Leg, BowOutOnExecute(l)
      PROVE  LegInv'
  <2>1. UNCHANGED <<lockers, other, linked, bridged, writer, met>>
    BY <1>4 DEF BowOutOnExecute
  <2>2. bowout' \in [Leg -> BOOLEAN]
    BY <1>4 DEF BowOutOnExecute
  <2>3. leg[l] = "up" /\ leg' \in {leg, [leg EXCEPT ![l] = "down"]}
    <3>1. leg[l] = "up" /\ leg' \in {leg, HangUp({l})}
      BY <1>4 DEF BowOutOnExecute
    <3>2. HangUp({l}) = [leg EXCEPT ![l] = "down"]
      BY <3>1
    <3> QED BY <3>1, <3>2
  <2>4. CASE l = "A"
    BY <2>1, <2>2, <2>3, <2>4
  <2>5. CASE l = "B"
    BY <2>1, <2>2, <2>3, <2>5
  <2> QED BY <2>4, <2>5
<1>5. ASSUME NEW l \in Leg, Bridge(l)
      PROVE  LegInv'
  BY <1>5 DEF Bridge
<1>6. ASSUME NEW l \in Leg, Unbridge(l)
      PROVE  LegInv'
  BY <1>6 DEF Unbridge
<1> QED BY <1>1, <1>2, <1>3, <1>4, <1>5, <1>6 DEF WriterSteps

\* channel_on_hangup, channel_kill_channel, and the core that destroys a leg.
LEMMA HangupsKeep ==
  ASSUME LegInv, NEW l \in Leg, LegSteps(l) \/ channel_kill_channel(l)
  PROVE  LegInv'
<1> USE DEF LegInv, LbTypeOK, PointerInv, LinkInv, OtherLegLocked, UnlinkedTogether, Leg, Peer,
            Set, HangUp
<1>1. CASE OnHangup(l)
  <2>1. CASE l = "A"
    BY <1>1, <2>1 DEF OnHangup
  <2>2. CASE l = "B"
    BY <1>1, <2>2 DEF OnHangup
  <2> QED BY <2>1, <2>2
<1>2. CASE Destroy(l)
  BY <1>2 DEF Destroy
<1>3. CASE channel_kill_channel(l)
  BY <1>3 DEF channel_kill_channel
<1> QED BY <1>1, <1>2, <1>3 DEF LegSteps

\* What the two legs keep to, at every step.
LEMMA LegInvKept == LegInv /\ [LbNext]_lbvars => LegInv'
<1> SUFFICES ASSUME LegInv, [LbNext]_lbvars
             PROVE  LegInv'
  OBVIOUS
<1>1. CASE LbNext
  BY <1>1, InitsKeep, BridgesKeep, HangupsKeep DEF LbNext
<1>2. CASE UNCHANGED lbvars
  BY <1>2 DEF lbvars, LegInv, LbTypeOK, PointerInv, LinkInv, OtherLegLocked, UnlinkedTogether
<1> QED BY <1>1, <1>2

\* It holds in every reachable state.
LEMMA LegInvariant == LbSpec => []LegInv
BY LegInvKept, LegInit, PTL DEF LbSpec

\* What a leg points to is there: it follows the pointer to the other leg in its
\* hangup and for every frame.
THEOREM OtherLegThere == LbSpec => []OtherLegLocked
<1>1. LegInv => OtherLegLocked
  BY DEF LegInv
<1> QED BY <1>1, LegInvariant, PTL

\* When the hangup of a leg has run, neither leg is linked, unless leg B was hung
\* up before it met leg A.
THEOREM LegsUnlinked == LbSpec => []UnlinkedTogether
<1>1. LegInv => UnlinkedTogether
  BY DEF LegInv
<1> QED BY <1>1, LegInvariant, PTL

\* The states of the legs, of the writer and of their marks.
THEOREM LbTypesHold == LbSpec => []LbTypeOK
<1>1. LegInv => LbTypeOK
  BY DEF LegInv
<1> QED BY <1>1, LegInvariant, PTL

-----------------------------------------------------------------------------
(***************************************************************************)
(* The three together, as they are run                                     *)
(***************************************************************************)

\* One endpoint takes a step of its own and the others stand still.
LEMMA EachItsOwn == [Next]_endpointvars => [LbNext]_lbvars /\ [VtNext]_vtvars /\ [SpNext]_spvars
<1>1. UNCHANGED endpointvars => UNCHANGED lbvars /\ UNCHANGED vtvars /\ UNCHANGED spvars
  BY DEF endpointvars
<1>2. OfLoopback(LbNext) => LbNext /\ UNCHANGED vtvars /\ UNCHANGED spvars
  BY DEF OfLoopback
<1>3. OfVerto(VtNext) => VtNext /\ UNCHANGED lbvars /\ UNCHANGED spvars
  BY DEF OfVerto
<1>4. OfSofia(SpNext) => SpNext /\ UNCHANGED lbvars /\ UNCHANGED vtvars
  BY DEF OfSofia
<1> QED BY <1>1, <1>2, <1>3, <1>4 DEF Next

\* The types of the three endpoints hold whichever of them runs.
THEOREM EndpointTypesHold == EndpointsSpec => []EndpointsTypeOK
<1> DEFINE Inv == VtInv /\ DetachedInv /\ LegInv /\ SpInv
<1>1. Init => Inv
  BY VtInvInit, DetachedInvInit, LegInit, SpInvInit DEF Init
<1>2. Inv /\ [Next]_endpointvars => Inv'
  BY EachItsOwn, VtInvKept, DetachedInvKept, LegInvKept, SpInvKept
<1>3. Inv => EndpointsTypeOK
  <2>1. VtInv /\ DetachedInv => VtTypeOK
    BY VtTypes
  <2>2. LegInv => LbTypeOK
    BY DEF LegInv
  <2>3. SpInv => SpTypeOK
    BY DEF SpInv, SpTypes
  <2> QED BY <2>1, <2>2, <2>3 DEF EndpointsTypeOK
<1> HIDE DEF Inv
<1> QED BY <1>1, <1>2, <1>3, PTL DEF EndpointsSpec
=============================================================================
