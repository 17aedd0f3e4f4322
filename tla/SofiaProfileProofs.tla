------------------------- MODULE SofiaProfileProofs -------------------------
(***************************************************************************)
(* The memory of a SIP profile is not freed under anybody, and no event is *)
(* left behind when the module is unloaded: for any events, calls, users   *)
(* and limits.                                                             *)
(*                                                                         *)
(* Two counts carry the first: inuse and queued_events are never less than *)
(* what they count, so that 0 means that nothing is there.  The second     *)
(* rests on the order of the queue: an event is never behind a NULL.       *)
(***************************************************************************)
EXTENDS SofiaProfile, FiniteSetTheorems, TLAPS

Places == {"none", "pushing", "queue", "busy", "launched", "own", "lost", "handled"} \cup Calls
ThreadStates == {"none", "created", "idle", "ended"} \cup AllEvents

SpTypes ==
  /\ SpTypeOK
  /\ where \in [AllEvents -> Places]
  /\ thread \in [Slots -> ThreadStates]

\* What is outstanding, and who is counted.
Outs == {e \in AllEvents : Outstanding(e)}
UpCalls == {s \in Calls : sess[s] = "up"}

Counts ==
  /\ IsFiniteSet(Outs) /\ Cardinality(Outs) <= queued_events
  /\ IsFiniteSet(UpCalls) /\ Cardinality(UpCalls) <= inuse

\* The thread of the profile goes through its phases, and what it has waited for
\* does not come back.
ProfileInv ==
  /\ pc \in {"start", "launch"} => \A e \in AllEvents : where[e] = "none"
  /\ pc \in {"lock", "destroy", "flag"} => worker = "ended"
  /\ "DESTROY" \in pflags \/ pool = "freed" => pc = "over" /\ worker = "ended"
  /\ table => pc \in {"launch", "root", "shutdown", "join", "lock"}
  /\ \A u \in Users : user[u] = "in" => table
  /\ pool = "freed" => UpCalls = {}
  /\ \A e \in AllEvents : where[e] = "pushing" => pc \in {"root", "shutdown"}
  /\ pc \in {"join", "lock", "destroy", "flag", "over"} => "events" \in gaveUp \/ Outs = {}

\* An event is in the queue or with a thread, once, if its place says so.
QueueInv ==
  /\ \A i \in Slots : thread[i] \in AllEvents => where[thread[i]] = "busy"
  /\ \A i, j \in Slots : thread[i] \in AllEvents /\ thread[i] = thread[j] => i = j
  /\ \A e \in AllEvents : where[e] = "busy" => \E i \in Slots : thread[i] = e
  /\ \A n \in DOMAIN msg_queue : msg_queue[n] # NULL => where[msg_queue[n]] = "queue"
  /\ \A m, n \in DOMAIN msg_queue : msg_queue[m] # NULL /\ msg_queue[m] = msg_queue[n] => m = n
  /\ \A e \in AllEvents : where[e] = "queue" => \E n \in DOMAIN msg_queue : msg_queue[n] = e

Pilled == unload \in {"pills", "joining", "done"}

\* The NULLs come last, if the profile was waited for, and a thread that has
\* ended has left nothing but NULLs.
UnloadInv ==
  /\ \A n \in DOMAIN msg_queue : msg_queue[n] = NULL => Pilled
  /\ \A i \in Slots : thread[i] = "ended" => Pilled
  /\ unload # "no" => loaded
  /\ loaded => thread[0] # "none"
  /\ \A i \in Slots : thread[i] # "none" => thread[0] # "none"
  /\ "threads" \notin gaveUp =>
       /\ Pilled => pc = "over"
       /\ \A m, n \in DOMAIN msg_queue : m < n /\ msg_queue[m] = NULL => msg_queue[n] = NULL
       /\ \A i \in Slots : thread[i] = "ended" => \A n \in DOMAIN msg_queue : msg_queue[n] = NULL
       /\ unload = "done" => \A i \in Slots : thread[i] \in {"none", "ended"}

SpInv == SpTypes /\ Counts /\ ProfileInv /\ QueueInv /\ UnloadInv

-----------------------------------------------------------------------------
\* A count that is not less than the elements of a set follows them.
LEMMA CoverStays ==
  ASSUME NEW S, IsFiniteSet(S), NEW n \in Nat, Cardinality(S) <= n,
         NEW T, T \subseteq S
  PROVE  IsFiniteSet(T) /\ Cardinality(T) <= n
<1>1. IsFiniteSet(T) /\ Cardinality(T) <= Cardinality(S)
  BY FS_Subset
<1> QED BY <1>1, FS_CardinalityType

\* A count that is raised by one covers one more.
LEMMA CoverGrows ==
  ASSUME NEW S, IsFiniteSet(S), NEW n \in Nat, Cardinality(S) <= n,
         NEW x, NEW T, T \subseteq S \cup {x}
  PROVE  IsFiniteSet(T) /\ Cardinality(T) <= n + 1
<1>1. Cardinality(S) \in Nat
  BY FS_CardinalityType
<1>2. IsFiniteSet(S \cup {x})
      /\ Cardinality(S \cup {x}) \in {Cardinality(S), Cardinality(S) + 1}
  BY FS_AddElement
<1>3. Cardinality(S \cup {x}) <= n + 1
  BY <1>1, <1>2
<1> QED BY <1>2, <1>3, CoverStays

\* A count may go down by one when one has gone.
LEMMA CoverShrinks ==
  ASSUME NEW S, IsFiniteSet(S), NEW n \in Nat, Cardinality(S) <= n,
         NEW x \in S, NEW T, T \subseteq S \ {x}
  PROVE  n - 1 \in Nat /\ IsFiniteSet(T) /\ Cardinality(T) <= n - 1
<1>1. IsFiniteSet(S \ {x}) /\ Cardinality(S \ {x}) = Cardinality(S) - 1
  BY FS_RemoveElement
<1>2. Cardinality(S) \in Nat /\ Cardinality(S \ {x}) \in Nat
  BY <1>1, FS_CardinalityType
<1>3. n - 1 \in Nat /\ Cardinality(S \ {x}) <= n - 1
  BY <1>1, <1>2
<1> QED BY <1>1, <1>3, CoverStays

\* 0 covers the empty set only.
LEMMA CoversNothing ==
  ASSUME NEW S, IsFiniteSet(S), Cardinality(S) <= 0
  PROVE  S = {}
BY FS_EmptySet, FS_CardinalityType

\* The names do not clash.
LEMMA Names ==
  /\ AllEvents \cap {"none", "created", "idle", "ended", NULL} = {}
  /\ Calls \cap {"none", "pushing", "queue", "busy", "launched", "own", "lost", "handled"} = {}
BY SofiaProfileAssumption DEF AllEvents, NULL, r_shutdown

-----------------------------------------------------------------------------
\* Processing an event takes it off the count it was in.
LEMMA ProcessCounts ==
  ASSUME SpTypes, Counts, NEW e \in AllEvents, Outstanding(e), Process(e)
  PROVE  queued_events' \in Nat /\ IsFiniteSet(Outs') /\ Cardinality(Outs') <= queued_events'
<1>1. e \in Outs
  BY DEF Outs
<1>2. Outs' \subseteq Outs \ {e}
  BY Names DEF Process, Put, Outs, Outstanding, SpTypes
<1>3. queued_events \in Nat /\ queued_events' = queued_events - 1
  BY DEF SpTypes, SpTypeOK, Process
<1> QED BY <1>1, <1>2, <1>3, CoverShrinks DEF Counts

\* So does the end of a call.
LEMMA CallEndCounts ==
  ASSUME SpTypes, Counts, NEW s \in Calls, sess[s] = "up",
         inuse' = inuse - 1, sess' = Put(sess, s, "left")
  PROVE  inuse' \in Nat /\ IsFiniteSet(UpCalls') /\ Cardinality(UpCalls') <= inuse'
<1>1. s \in UpCalls /\ UpCalls' \subseteq UpCalls \ {s}
  BY DEF UpCalls, Put, SpTypes, SpTypeOK
<1> QED BY <1>1, CoverShrinks DEF Counts, SpTypes, SpTypeOK

\* What a thread has is outstanding.
LEMMA ThreadHasIt ==
  ASSUME QueueInv, NEW i \in Slots, thread[i] \in AllEvents
  PROVE  Outstanding(thread[i])
BY DEF QueueInv, Outstanding

-----------------------------------------------------------------------------
\* Whatever happens, the two counts cover what they count.
LEMMA CountsKept ==
  ASSUME SpTypes, Counts, QueueInv, SpNext
  PROVE  Counts' /\ queued_events' \in Nat /\ inuse' \in Nat
<1>q. queued_events \in Nat /\ inuse \in Nat
  BY DEF SpTypes, SpTypeOK
<1>1. ASSUME UNCHANGED <<where, sess, queued_events, inuse>>
      PROVE  Counts' /\ queued_events' \in Nat /\ inuse' \in Nat
  BY <1>q, <1>1 DEF Counts, Outs, Outstanding, UpCalls
<1>2. ASSUME UNCHANGED <<sess, inuse>>, queued_events' \in Nat,
             IsFiniteSet(Outs'), Cardinality(Outs') <= queued_events'
      PROVE  Counts' /\ queued_events' \in Nat /\ inuse' \in Nat
  BY <1>q, <1>2 DEF Counts, UpCalls
<1>3. ASSUME UNCHANGED <<where, queued_events>>, inuse' \in Nat,
             IsFiniteSet(UpCalls'), Cardinality(UpCalls') <= inuse'
      PROVE  Counts' /\ queued_events' \in Nat /\ inuse' \in Nat
  BY <1>q, <1>3 DEF Counts, Outs, Outstanding
<1>4. CASE LoadEnds \/ UnloadBegins \/ UnloadSteps \/ WorkerStarts \/ WorkerEnds \/ StopProfile
  BY <1>1, <1>4 DEF LoadEnds, UnloadBegins, UnloadSteps, ThreadsWaited, PushPill, JoinThreads,
     WorkerStarts, WorkerEnds, StopProfile, profilevars, callvars, eventvars, modulevars
<1>5. CASE Start \/ StartFails \/ LeaveRoot \/ EventsWaited \/ JoinWorker \/ DelProfile \/ DestroyProfile
  BY <1>1, <1>5 DEF Start, StartFails, LeaveRoot, EventsWaited, JoinWorker, DelProfile,
     DestroyProfile, profilevars, callvars, eventvars, modulevars
<1>6. CASE Push
  <2>1. PICK e \in AllEvents : where[e] = "pushing" /\ where' = Put(where, e, "queue")
    BY <1>6 DEF Push
  <2>2. Outs' \subseteq Outs /\ UNCHANGED <<sess, inuse, queued_events>>
    BY <1>6, <2>1 DEF Push, Put, Outs, Outstanding, SpTypes, callvars
  <2> QED BY <1>q, <1>2, <2>2, CoverStays DEF Counts
<1>7. ASSUME NEW i \in Slots, ThreadSteps(i)
      PROVE  Counts' /\ queued_events' \in Nat /\ inuse' \in Nat
  <2>1. CASE ThreadStarts(i)
    BY <1>1, <2>1 DEF ThreadStarts, callvars
  <2>2. CASE ThreadPops(i)
    <3>1. UNCHANGED <<sess, inuse, queued_events>>
      BY <2>2 DEF ThreadPops, callvars
    <3>2. CASE UNCHANGED where
      BY <1>1, <3>1, <3>2
    <3>3. CASE ~UNCHANGED where
      <4>1. Head(msg_queue) # NULL /\ where' = Put(where, Head(msg_queue), "busy") /\ msg_queue # <<>>
        BY <2>2, <3>3 DEF ThreadPops
      <4>2. 1 \in DOMAIN msg_queue /\ msg_queue[1] = Head(msg_queue)
        BY <4>1 DEF SpTypes, SpTypeOK
      <4>3. where[Head(msg_queue)] = "queue"
        BY <4>1, <4>2 DEF QueueInv
      <4>4. Outs' \subseteq Outs
        BY <4>1, <4>3 DEF Put, Outs, Outstanding, SpTypes
      <4> QED BY <1>q, <1>2, <3>1, <4>4, CoverStays DEF Counts
    <3> QED BY <3>2, <3>3
  <2>3. CASE ThreadProcesses(i)
    <3>1. thread[i] \in AllEvents /\ Process(thread[i]) /\ UNCHANGED <<sess, inuse>>
      BY <2>3 DEF ThreadProcesses, Process, callvars
    <3> QED BY <1>2, <3>1, ProcessCounts, ThreadHasIt
  <2> QED BY <1>7, <2>1, <2>2, <2>3 DEF ThreadSteps
<1>8. ASSUME NEW e \in AllEvents, OwnThread(e) \/ Report(e) \/ ReportDirectly(e)
      PROVE  Counts' /\ queued_events' \in Nat /\ inuse' \in Nat
  <2>1. CASE where[e] = "own" /\ Process(e)
    <3>1. Outstanding(e) /\ UNCHANGED <<sess, inuse>>
      BY <2>1 DEF Outstanding, Process, callvars
    <3> QED BY <1>2, <2>1, <3>1, ProcessCounts
  <2>2. CASE where[e] = "launched" /\ where' = Put(where, e, "own")
             /\ UNCHANGED <<sess, inuse, queued_events>>
    <3>1. Outs' \subseteq Outs
      BY <2>2 DEF Put, Outs, Outstanding, SpTypes
    <3> QED BY <1>q, <1>2, <2>2, <3>1, CoverStays DEF Counts
  <2>3. CASE Report(e)
    <3>1. queued_events' = queued_events + 1 /\ UNCHANGED <<sess, inuse>>
          /\ where' \in {Put(where, e, "launched"), Put(where, e, "pushing")}
      BY <2>3 DEF Report, callvars
    <3>2. Outs' \subseteq Outs \cup {e}
      BY <3>1 DEF Put, Outs, Outstanding, SpTypes
    <3> QED BY <1>q, <1>2, <3>1, <3>2, CoverGrows DEF Counts
  <2>4. CASE ReportDirectly(e)
    <3>1. UNCHANGED <<sess, inuse, queued_events>> /\ where' = Put(where, e, "handled")
      BY <2>4 DEF ReportDirectly, callvars
    <3>2. Outs' \subseteq Outs
      BY <3>1, Names DEF Put, Outs, Outstanding, SpTypes
    <3> QED BY <1>q, <1>2, <3>1, <3>2, CoverStays DEF Counts
  <2> QED BY <1>8, <2>1, <2>2, <2>3, <2>4 DEF OwnThread, callvars
<1>9. ASSUME NEW e \in AllEvents, NEW s \in Calls, ReportToCall(e, s) \/ ReportInvite(e, s)
      PROVE  Counts' /\ queued_events' \in Nat /\ inuse' \in Nat
  <2>1. queued_events' = queued_events + 1 /\ where' \in {Put(where, e, s), Put(where, e, "lost")}
    BY <1>9 DEF ReportToCall, ReportInvite
  <2>2. Outs' \subseteq Outs \cup {e}
    BY <2>1, Names DEF Put, Outs, Outstanding, SpTypes
  <2>3. queued_events' \in Nat /\ IsFiniteSet(Outs') /\ Cardinality(Outs') <= queued_events'
    BY <1>q, <2>1, <2>2, CoverGrows DEF Counts
  <2>4. CASE sess' = Put(sess, s, "up") /\ inuse' = inuse + 1
    <3>1. UpCalls' \subseteq UpCalls \cup {s}
      BY <2>4 DEF Put, UpCalls, SpTypes, SpTypeOK
    <3>2. IsFiniteSet(UpCalls') /\ Cardinality(UpCalls') <= inuse + 1
      BY <1>q, <3>1, CoverGrows DEF Counts
    <3> QED BY <1>q, <2>3, <2>4, <3>2 DEF Counts
  <2>5. CASE sess' \in {sess, Put(sess, s, "gone")} /\ UNCHANGED inuse
    <3>1. UpCalls' \subseteq UpCalls
      BY <2>5 DEF Put, UpCalls, SpTypes, SpTypeOK
    <3> QED BY <1>q, <2>3, <2>5, <3>1, CoverStays DEF Counts
  <2> QED BY <1>9, <2>4, <2>5 DEF ReportToCall, ReportInvite, callvars
<1>10. ASSUME NEW s \in Calls, SessSteps(s)
       PROVE  Counts' /\ queued_events' \in Nat /\ inuse' \in Nat
  <2>1. CASE CallProcesses(s)
    <3>1. PICK e \in Events : where[e] = s /\ Process(e)
      BY <2>1 DEF CallProcesses
    <3>2. e \in AllEvents /\ Outstanding(e) /\ UNCHANGED <<sess, inuse>>
      BY <3>1 DEF AllEvents, Outstanding, Process, callvars
    <3> QED BY <1>2, <3>1, <3>2, ProcessCounts
  <2>2. CASE OnDestroy(s)
    <3>1. Outs' \subseteq Outs /\ UNCHANGED queued_events
      BY <2>2, Names DEF OnDestroy, Outs, Outstanding, SpTypes
    <3>2. queued_events' \in Nat /\ IsFiniteSet(Outs') /\ Cardinality(Outs') <= queued_events'
      BY <1>q, <3>1, CoverStays DEF Counts
    <3>3. CASE sess' = Put(sess, s, "left") /\ inuse' = inuse - 1
      BY <2>2, <3>2, <3>3, CallEndCounts DEF Counts, OnDestroy
    <3>4. CASE sess' = Put(sess, s, "undefined") /\ UNCHANGED inuse
      <4>1. UpCalls' \subseteq UpCalls
        BY <3>4 DEF Put, UpCalls, SpTypes, SpTypeOK
      <4> QED BY <1>q, <3>2, <3>4, <4>1, CoverStays DEF Counts
    <3> QED BY <2>2, <3>3, <3>4 DEF OnDestroy
  <2>3. CASE LastOneFrees(s)
    <3>1. UNCHANGED <<where, queued_events, inuse>> /\ UpCalls' \subseteq UpCalls
      BY <2>3 DEF LastOneFrees, eventvars, Put, UpCalls, SpTypes, SpTypeOK
    <3> QED BY <1>q, <1>3, <3>1, CoverStays DEF Counts
  <2> QED BY <1>10, <2>1, <2>2, <2>3 DEF SessSteps
<1>11. ASSUME NEW s \in Calls, NEW u \in Users, AttachOutbound(u, s)
       PROVE  Counts' /\ queued_events' \in Nat /\ inuse' \in Nat
  <2>1. UNCHANGED <<where, queued_events>> /\ inuse' = inuse + 1 /\ sess' = Put(sess, s, "up")
    BY <1>11 DEF AttachOutbound, eventvars
  <2>2. UpCalls' \subseteq UpCalls \cup {s}
    BY <2>1 DEF Put, UpCalls, SpTypes, SpTypeOK
  <2>3. IsFiniteSet(UpCalls') /\ Cardinality(UpCalls') <= inuse + 1
    BY <1>q, <2>2, CoverGrows DEF Counts
  <2> QED BY <1>q, <1>3, <2>1, <2>3
<1>12. ASSUME NEW u \in Users, FindProfile(u) \/ ReleaseProfile(u)
       PROVE  Counts' /\ queued_events' \in Nat /\ inuse' \in Nat
  BY <1>1, <1>12 DEF FindProfile, ReleaseProfile, eventvars
<1> QED
  BY <1>4, <1>5, <1>6, <1>7, <1>8, <1>9, <1>10, <1>11, <1>12 DEF SpNext, ProfileSteps

-----------------------------------------------------------------------------
\* New message threads are created in the slots that were free.
LEMMA ThreadsCreated ==
  ASSUME SpTypes, NEW idx \in Nat
  PROVE  /\ WithThread(idx) \in [Slots -> ThreadStates]
         /\ \A i \in Slots : WithThread(idx)[i] = thread[i]
                               \/ (thread[i] = "none" /\ WithThread(idx)[i] = "created")
BY DEF SpTypes, SpTypeOK, WithThread, ThreadStates

\* The length of the queue of threads is a number, and 0 if there are none.
LEMMA ThreadsCounted ==
  ASSUME SpTypes
  PROVE  msg_queue_len \in Nat /\ (msg_queue_len = 0 => \A i \in Slots : thread[i] = "none")
<1> DEFINE S == {i \in Slots : thread[i] # "none"}
<1>1. IsFiniteSet(Slots)
  BY FS_Interval, SofiaProfileAssumption DEF Slots
<1>2. IsFiniteSet(S)
  BY <1>1, FS_Subset
<1>3. Cardinality(S) \in Nat /\ (Cardinality(S) = 0 => S = {})
  BY <1>2, FS_CardinalityType, FS_EmptySet
<1> QED BY <1>3 DEF msg_queue_len

\* The values stay what they are.
LEMMA TypesKept ==
  ASSUME SpTypes, Counts, QueueInv, SpNext
  PROVE  SpTypes'
<1>q. queued_events' \in Nat /\ inuse' \in Nat
  BY CountsKept
<1> USE DEF SpTypes, SpTypeOK, Put, Places, ThreadStates
<1>1. CASE LoadEnds
  BY <1>1, ThreadsCreated DEF LoadEnds, profilevars, callvars
<1>2. CASE UnloadBegins \/ ThreadsWaited \/ JoinThreads
  <2>1. CASE UnloadBegins
    BY <2>1 DEF UnloadBegins, profilevars, callvars, eventvars
  <2>2. CASE ThreadsWaited
    BY <2>2 DEF ThreadsWaited, profilevars, callvars, eventvars
  <2>3. CASE JoinThreads
    BY <2>3 DEF JoinThreads, profilevars, callvars, eventvars
  <2> QED BY <1>2, <2>1, <2>2, <2>3
<1>3. CASE PushPill
  <2>1. CASE UNCHANGED msg_queue
    BY <1>3, <2>1 DEF PushPill, profilevars, callvars
  <2>2. CASE Len(msg_queue) < Capacity /\ msg_queue' = Append(msg_queue, NULL)
    <3>1. Capacity \in Nat
      BY SofiaProfileAssumption DEF Capacity
    <3>2. msg_queue' \in Seq(AllEvents \cup {NULL}) /\ Len(msg_queue') <= Capacity
      BY <2>2, <3>1
    <3> QED BY <1>3, <3>2 DEF PushPill, profilevars, callvars
  <2> QED BY <1>3, <2>1, <2>2 DEF PushPill
<1>4. CASE WorkerStarts \/ WorkerEnds \/ StopProfile
  <2>1. CASE WorkerStarts
    BY <2>1 DEF WorkerStarts, callvars, eventvars, modulevars
  <2>2. CASE WorkerEnds
    BY <2>2 DEF WorkerEnds, callvars, eventvars, modulevars
  <2>3. CASE StopProfile
    BY <2>3 DEF StopProfile, callvars, eventvars, modulevars
  <2> QED BY <1>4, <2>1, <2>2, <2>3
<1>5. CASE Start \/ StartFails \/ LeaveRoot \/ EventsWaited
  <2>1. CASE Start
    BY <2>1 DEF Start, callvars, eventvars, modulevars
  <2>2. CASE StartFails
    BY <2>2 DEF StartFails, callvars, eventvars, modulevars
  <2>3. CASE LeaveRoot
    BY <2>3 DEF LeaveRoot, callvars, eventvars, modulevars
  <2>4. CASE EventsWaited
    BY <2>4 DEF EventsWaited, callvars, eventvars, modulevars
  <2> QED BY <1>5, <2>1, <2>2, <2>3, <2>4
<1>6. CASE JoinWorker \/ DelProfile \/ DestroyProfile
  <2>1. CASE JoinWorker
    BY <2>1 DEF JoinWorker, callvars, eventvars, modulevars
  <2>2. CASE DelProfile
    BY <2>2 DEF DelProfile, callvars, eventvars, modulevars
  <2>3. CASE DestroyProfile
    <3>1. UNCHANGED <<worker, table, eventvars, callvars, modulevars, gaveUp>>
      BY <2>3 DEF DestroyProfile
    <3>2. pc' \in {"flag", "over"} /\ pool' \in {"freed", pool} /\ pflags' \in {pflags, pflags \cup {"DESTROY"}}
      BY <2>3 DEF DestroyProfile
    <3> QED BY <3>1, <3>2 DEF callvars, eventvars, modulevars
  <2> QED BY <1>6, <2>1, <2>2, <2>3
<1>7. CASE Push
  <2>1. PICK e \in AllEvents : where' = Put(where, e, "queue") /\ msg_queue' = Append(msg_queue, e)
    BY <1>7 DEF Push
  <2>2. Capacity \in Nat /\ Len(msg_queue) < Capacity
    BY <1>7, SofiaProfileAssumption DEF Push, Capacity
  <2>3. msg_queue' \in Seq(AllEvents \cup {NULL}) /\ Len(msg_queue') <= Capacity
    BY <2>1, <2>2
  <2>4. where' \in [AllEvents -> Places]
    BY <2>1
  <2> QED BY <1>7, <2>3, <2>4 DEF Push, profilevars, callvars, modulevars
<1>8. ASSUME NEW i \in Slots, ThreadSteps(i)
      PROVE  SpTypes'
  <2>1. CASE ThreadStarts(i)
    BY <2>1 DEF ThreadStarts, profilevars, callvars, modulevars
  <2>2. CASE ThreadPops(i)
    <3>1. msg_queue' \in Seq(AllEvents \cup {NULL}) /\ Len(msg_queue') <= Len(msg_queue)
          /\ Head(msg_queue) \in AllEvents \cup {NULL}
      BY <2>2 DEF ThreadPops
    <3>2. Len(msg_queue') <= Capacity
      BY <3>1, SofiaProfileAssumption DEF Capacity
    <3> QED BY <2>2, <3>1, <3>2 DEF ThreadPops, profilevars, callvars, modulevars
  <2>3. CASE ThreadProcesses(i)
    BY <1>q, <2>3 DEF ThreadProcesses, Process, callvars, modulevars
  <2> QED BY <1>8, <2>1, <2>2, <2>3 DEF ThreadSteps
<1>9. ASSUME NEW e \in AllEvents, OwnThread(e) \/ Report(e) \/ ReportDirectly(e)
      PROVE  SpTypes'
  <2>1. CASE OwnThread(e)
    <3>1. CASE Process(e) /\ UNCHANGED <<msg_queue, thread>>
      BY <1>q, <3>1 DEF Process, callvars, modulevars
    <3>2. CASE where[e] = "launched" /\ where' = Put(where, e, "own")
               /\ UNCHANGED <<profilevars, queued_events, msg_queue, thread, callvars, modulevars, gaveUp>>
      <4>1. where' \in [AllEvents -> Places]
        BY <3>2
      <4> QED BY <3>2, <4>1 DEF profilevars, callvars, modulevars
    <3> QED BY <2>1, <3>1, <3>2 DEF OwnThread
  <2>2. CASE Report(e)
    <3>1. thread' \in [Slots -> ThreadStates]
      BY <2>2, ThreadsCreated, ThreadsCounted DEF Report
    <3> QED BY <1>q, <2>2, <3>1 DEF Report, profilevars, callvars, modulevars
  <2>3. CASE ReportDirectly(e)
    BY <2>3 DEF ReportDirectly, callvars, modulevars
  <2> QED BY <1>9, <2>1, <2>2, <2>3
<1>10. ASSUME NEW e \in AllEvents, NEW s \in Calls, ReportToCall(e, s) \/ ReportInvite(e, s)
       PROVE  SpTypes'
  <2>1. CASE ReportToCall(e, s)
    BY <1>q, <2>1 DEF ReportToCall, profilevars, callvars, modulevars
  <2>2. CASE ReportInvite(e, s)
    <3>1. where' \in [AllEvents -> Places] /\ sess' \in [Calls -> {"none", "up", "left", "gone", "undefined"}]
      BY <2>2 DEF ReportInvite
    <3> QED BY <1>q, <2>2, <3>1 DEF ReportInvite, profilevars, modulevars
  <2> QED BY <1>10, <2>1, <2>2
<1>11. ASSUME NEW s \in Calls, SessSteps(s)
       PROVE  SpTypes'
  <2>1. CASE CallProcesses(s)
    BY <1>q, <2>1 DEF CallProcesses, Process, callvars, modulevars, AllEvents
  <2>2. CASE OnDestroy(s)
    BY <1>q, <2>2 DEF OnDestroy, profilevars, modulevars
  <2>3. CASE LastOneFrees(s)
    BY <2>3 DEF LastOneFrees, eventvars, modulevars
  <2> QED BY <1>11, <2>1, <2>2, <2>3 DEF SessSteps
<1>12. ASSUME NEW u \in Users, \/ FindProfile(u) \/ ReleaseProfile(u)
                               \/ \E s \in Calls : AttachOutbound(u, s)
       PROVE  SpTypes'
  <2>1. CASE FindProfile(u) \/ ReleaseProfile(u)
    <3>1. user' \in [Users -> {"out", "in"}]
      BY <2>1 DEF FindProfile, ReleaseProfile
    <3>2. UNCHANGED <<eventvars, profilevars, modulevars, sess, inuse, gaveUp>>
      BY <2>1 DEF FindProfile, ReleaseProfile
    <3> QED BY <3>1, <3>2 DEF eventvars, profilevars, modulevars
  <2>2. ASSUME NEW s \in Calls, AttachOutbound(u, s)
        PROVE  SpTypes'
    <3>1. sess' \in [Calls -> {"none", "up", "left", "gone", "undefined"}]
      BY <2>2 DEF AttachOutbound
    <3> QED BY <1>q, <2>2, <3>1 DEF AttachOutbound, eventvars, profilevars, modulevars
  <2> QED BY <1>12, <2>1, <2>2
<1> QED
  BY <1>1, <1>2, <1>3, <1>4, <1>5, <1>6, <1>7, <1>8, <1>9, <1>10, <1>11, <1>12
  DEF SpNext, UnloadSteps, ProfileSteps

-----------------------------------------------------------------------------
\* An event leaves its place when it is outstanding, and is reported only while
\* the stack is stepped.
LEMMA WhereMoves ==
  ASSUME SpTypes, QueueInv, SpNext, NEW e \in AllEvents
  PROVE  \/ where'[e] = where[e]
         \/ where[e] = "none" /\ pc \in {"root", "shutdown"}
         \/ Outstanding(e) /\ where'[e] \notin {"none", "pushing"}
<1> DEFINE Moved == \/ where'[e] = where[e]
                    \/ where[e] = "none" /\ pc \in {"root", "shutdown"}
                    \/ Outstanding(e) /\ where'[e] \notin {"none", "pushing"}
<1>t. where \in [AllEvents -> Places]
  BY DEF SpTypes
<1>1. CASE LoadEnds \/ UnloadBegins \/ UnloadSteps \/ WorkerStarts \/ WorkerEnds \/ StopProfile
  BY <1>1 DEF LoadEnds, UnloadBegins, UnloadSteps, ThreadsWaited, PushPill, JoinThreads,
     WorkerStarts, WorkerEnds, StopProfile, eventvars
<1>2. CASE Start \/ StartFails \/ LeaveRoot \/ EventsWaited \/ JoinWorker \/ DelProfile \/ DestroyProfile
  BY <1>2 DEF Start, StartFails, LeaveRoot, EventsWaited, JoinWorker, DelProfile,
     DestroyProfile, eventvars
<1>3. CASE Push
  BY <1>t, <1>3 DEF Push, Put, Outstanding
<1>4. ASSUME NEW i \in Slots, ThreadSteps(i)
      PROVE  Moved
  <2>1. CASE ThreadStarts(i)
    BY <2>1 DEF ThreadStarts
  <2>2. CASE ThreadPops(i)
    <3>1. CASE UNCHANGED where
      BY <3>1
    <3>2. CASE ~UNCHANGED where
      <4>1. Head(msg_queue) # NULL /\ where' = Put(where, Head(msg_queue), "busy") /\ msg_queue # <<>>
        BY <2>2, <3>2 DEF ThreadPops
      <4>2. 1 \in DOMAIN msg_queue /\ msg_queue[1] = Head(msg_queue)
        BY <4>1 DEF SpTypes, SpTypeOK
      <4>3. where[Head(msg_queue)] = "queue"
        BY <4>1, <4>2 DEF QueueInv
      <4> QED BY <1>t, <4>1, <4>3 DEF Put, Outstanding
    <3> QED BY <3>1, <3>2
  <2>3. CASE ThreadProcesses(i)
    <3>1. Outstanding(thread[i])
      BY <2>3, ThreadHasIt DEF ThreadProcesses
    <3> QED BY <1>t, <2>3, <3>1 DEF ThreadProcesses, Process, Put
  <2> QED BY <1>4, <2>1, <2>2, <2>3 DEF ThreadSteps
<1>5. ASSUME NEW d \in AllEvents, OwnThread(d) \/ Report(d) \/ ReportDirectly(d)
      PROVE  Moved
  <2>1. CASE OwnThread(d)
    BY <1>t, <2>1 DEF OwnThread, Process, Put, Outstanding
  <2>2. CASE Report(d) \/ ReportDirectly(d)
    BY <1>t, <2>2 DEF Report, ReportDirectly, MayReport, Stepping, Put
  <2> QED BY <1>5, <2>1, <2>2
<1>6. ASSUME NEW d \in AllEvents, NEW s \in Calls, ReportToCall(d, s) \/ ReportInvite(d, s)
      PROVE  Moved
  BY <1>t, <1>6 DEF ReportToCall, ReportInvite, MayReport, Stepping, Put
<1>7. ASSUME NEW s \in Calls, SessSteps(s)
      PROVE  Moved
  <2>1. CASE CallProcesses(s)
    BY <1>t, <2>1 DEF CallProcesses, Process, Put, Outstanding
  <2>2. CASE OnDestroy(s)
    BY <1>t, <2>2 DEF OnDestroy, Outstanding
  <2>3. CASE LastOneFrees(s)
    BY <2>3 DEF LastOneFrees, eventvars
  <2> QED BY <1>7, <2>1, <2>2, <2>3 DEF SessSteps
<1>8. ASSUME NEW u \in Users, \/ FindProfile(u) \/ ReleaseProfile(u)
                              \/ \E s \in Calls : AttachOutbound(u, s)
      PROVE  Moved
  BY <1>8 DEF FindProfile, ReleaseProfile, AttachOutbound, eventvars
<1> QED BY <1>1, <1>2, <1>3, <1>4, <1>5, <1>6, <1>7, <1>8 DEF SpNext, ProfileSteps

\* So, once the stack is not stepped, less and less is outstanding.
LEMMA OutsShrink ==
  ASSUME SpTypes, QueueInv, SpNext, pc \notin {"root", "shutdown"}
  PROVE  /\ Outs' \subseteq Outs
         /\ \A e \in AllEvents : where[e] = "none" => where'[e] = "none"
         /\ \A e \in AllEvents : where'[e] = "pushing" => where[e] = "pushing"
BY WhereMoves, Names DEF Outs, Outstanding

\* Steps of others than the profile's threads do not bring back what it waited for.
LEMMA ProfileUntouched ==
  ASSUME SpTypes, Counts, ProfileInv, QueueInv, SpNext,
         UNCHANGED <<pc, worker, table, pool>>, gaveUp \subseteq gaveUp',
         "DESTROY" \in pflags' => "DESTROY" \in pflags,
         \A u \in Users : user'[u] = "in" => user[u] = "in" \/ table,
         UpCalls' \subseteq UpCalls \/ pc \in {"root", "shutdown"} \/ table
  PROVE  ProfileInv'
BY OutsShrink DEF ProfileInv

\* Every step keeps what the thread of the profile relies on.
LEMMA ProfileKept ==
  ASSUME SpTypes, Counts, ProfileInv, QueueInv, SpNext
  PROVE  ProfileInv'
<1>1. CASE LoadEnds \/ UnloadBegins \/ UnloadSteps
  <2>1. UNCHANGED <<pc, worker, table, pool, pflags, user, sess>> /\ gaveUp \subseteq gaveUp'
    BY <1>1 DEF LoadEnds, UnloadBegins, UnloadSteps, ThreadsWaited, PushPill, JoinThreads,
       profilevars, callvars
  <2> QED BY <2>1, ProfileUntouched DEF UpCalls
<1>2. CASE Push \/ StopProfile \/ \E i \in Slots : ThreadSteps(i)
  <2>1. UNCHANGED <<pc, worker, table, pool, user, sess, gaveUp>>
        /\ ("DESTROY" \in pflags' => "DESTROY" \in pflags)
    BY <1>2 DEF Push, StopProfile, ThreadSteps, ThreadStarts, ThreadPops, ThreadProcesses, Process,
       profilevars, callvars
  <2> QED BY <2>1, ProfileUntouched DEF UpCalls
<1>3. ASSUME NEW e \in AllEvents, OwnThread(e) \/ Report(e) \/ ReportDirectly(e)
      PROVE  ProfileInv'
  <2>1. UNCHANGED <<pc, worker, table, pool, user, sess, gaveUp>>
        /\ ("DESTROY" \in pflags' => "DESTROY" \in pflags)
    BY <1>3 DEF OwnThread, Report, ReportDirectly, Process, profilevars, callvars
  <2> QED BY <2>1, ProfileUntouched DEF UpCalls
<1>4. ASSUME NEW e \in AllEvents, NEW s \in Calls, ReportToCall(e, s) \/ ReportInvite(e, s)
      PROVE  ProfileInv'
  <2>1. UNCHANGED <<pc, worker, table, pool, pflags, user, gaveUp>> /\ pc \in {"root", "shutdown"}
    BY <1>4 DEF ReportToCall, ReportInvite, MayReport, Stepping, profilevars, callvars
  <2> QED BY <2>1, ProfileUntouched
<1>5. ASSUME NEW s \in Calls, CallProcesses(s) \/ OnDestroy(s)
      PROVE  ProfileInv'
  <2>1. UNCHANGED <<pc, worker, table, pool, user, gaveUp>>
        /\ ("DESTROY" \in pflags' => "DESTROY" \in pflags)
    BY <1>5 DEF CallProcesses, OnDestroy, Process, profilevars, callvars
  <2>2. UpCalls' \subseteq UpCalls
    BY <1>5 DEF CallProcesses, OnDestroy, Process, callvars, Put, UpCalls, SpTypes, SpTypeOK
  <2> QED BY <2>1, <2>2, ProfileUntouched
<1>6. ASSUME NEW s \in Calls, LastOneFrees(s)
      PROVE  ProfileInv'
  <2>1. UNCHANGED <<pc, worker, table, pflags, user, gaveUp, where>>
    BY <1>6 DEF LastOneFrees, eventvars
  <2>2. UpCalls' \subseteq UpCalls
    BY <1>6 DEF LastOneFrees, Put, UpCalls, SpTypes, SpTypeOK
  <2>3. CASE UNCHANGED pool \/ pool' = "held"
    BY <2>1, <2>2, <2>3 DEF ProfileInv, Outs, Outstanding
  <2>4. CASE pool' # pool /\ pool' # "held"
    <3>1. "DESTROY" \in pflags /\ inuse = 0
      BY <1>6, <2>4 DEF LastOneFrees
    <3>2. UpCalls = {}
      BY <3>1, CoversNothing DEF Counts
    <3> QED BY <2>1, <2>2, <3>1, <3>2 DEF ProfileInv, Outs, Outstanding
  <2> QED BY <2>3, <2>4
<1>7. ASSUME NEW u \in Users, \/ FindProfile(u) \/ ReleaseProfile(u)
                              \/ \E s \in Calls : AttachOutbound(u, s)
      PROVE  ProfileInv'
  <2>1. UNCHANGED <<pc, worker, table, pool, pflags, gaveUp>>
    BY <1>7 DEF FindProfile, ReleaseProfile, AttachOutbound, profilevars
  <2>2. \A v \in Users : user'[v] = "in" => user[v] = "in" \/ table
    BY <1>7 DEF FindProfile, ReleaseProfile, AttachOutbound, Put, SpTypes, SpTypeOK
  <2>3. UpCalls' = UpCalls \/ table
    BY <1>7 DEF FindProfile, ReleaseProfile, AttachOutbound, UpCalls, ProfileInv
  <2> QED BY <2>1, <2>2, <2>3, ProfileUntouched
<1>8. CASE WorkerStarts \/ WorkerEnds
  <2>1. UNCHANGED <<table, pool, where, sess, user, gaveUp>>
        /\ ("DESTROY" \in pflags' => "DESTROY" \in pflags)
    BY <1>8 DEF WorkerStarts, WorkerEnds, eventvars, callvars
  <2>2. \/ pc = "launch" /\ pc' = "root"
        \/ pc' = pc /\ worker' = "ended"
    BY <1>8 DEF WorkerStarts, WorkerEnds
  <2> QED BY <2>1, <2>2 DEF ProfileInv, Outs, Outstanding, UpCalls
<1>9. CASE Start \/ StartFails
  BY <1>9, Names DEF Start, StartFails, eventvars, callvars, ProfileInv, Outs, Outstanding, UpCalls
<1>10. CASE LeaveRoot
  BY <1>10 DEF LeaveRoot, eventvars, callvars, ProfileInv, Outs, Outstanding, UpCalls
<1>11. CASE EventsWaited
  <2>1. "events" \in gaveUp' \/ Outs = {}
    BY <1>11, CoversNothing DEF EventsWaited, Counts, SpTypes, SpTypeOK
  <2>2. Outs' = Outs
    BY <1>11 DEF EventsWaited, eventvars, Outs, Outstanding
  <2>3. \A e \in AllEvents : where'[e] # "pushing"
    BY <1>11 DEF EventsWaited, Pushing, eventvars
  <2>4. pc = "shutdown" /\ pc' = "join" /\ UNCHANGED <<worker, table, pool, sess, user>>
        /\ ("DESTROY" \in pflags' => "DESTROY" \in pflags)
    BY <1>11 DEF EventsWaited, callvars
  <2> QED BY <2>1, <2>2, <2>3, <2>4 DEF ProfileInv, UpCalls
<1>12. CASE JoinWorker \/ DelProfile
  <2>1. UNCHANGED <<pflags, worker, pool, where, sess, user, gaveUp>>
    BY <1>12 DEF JoinWorker, DelProfile, eventvars, callvars
  <2>2. \/ pc = "join" /\ pc' = "lock" /\ worker = "ended" /\ UNCHANGED table
        \/ pc = "lock" /\ pc' = "destroy" /\ ~table' /\ \A u \in Users : user[u] = "out"
    BY <1>12 DEF JoinWorker, DelProfile
  <2> QED BY <2>1, <2>2 DEF ProfileInv, Outs, Outstanding, UpCalls
<1>13. CASE DestroyProfile
  <2>1. UNCHANGED <<worker, table, where, sess, user, gaveUp>>
    BY <1>13 DEF DestroyProfile, eventvars, callvars
  <2>2. pc = "destroy" /\ inuse = 0 => UpCalls = {}
    BY CoversNothing DEF Counts
  <2>3. \/ pc = "destroy" /\ inuse = 0 /\ pool' = "freed" /\ pc' = "over" /\ UNCHANGED pflags
        \/ pc = "destroy" /\ UNCHANGED <<pool, pflags>> /\ pc' = "flag"
        \/ pc = "flag" /\ pc' = "over" /\ UNCHANGED pool
    BY <1>13 DEF DestroyProfile
  <2> QED BY <2>1, <2>2, <2>3 DEF ProfileInv, Outs, Outstanding, UpCalls
<1> QED
  BY <1>1, <1>2, <1>3, <1>4, <1>5, <1>6, <1>7, <1>8, <1>9, <1>10, <1>11, <1>12, <1>13
  DEF SpNext, ProfileSteps, SessSteps

-----------------------------------------------------------------------------
\* A step that concerns neither the queue nor what the threads have.
LEMMA QueueAside ==
  ASSUME SpTypes, QueueInv, UNCHANGED msg_queue,
         \A e \in AllEvents : \/ where'[e] = where[e]
                              \/ where[e] \notin {"queue", "busy"} /\ where'[e] \notin {"queue", "busy"},
         \A i \in Slots : \/ thread'[i] = thread[i]
                          \/ thread[i] \notin AllEvents /\ thread'[i] \notin AllEvents
  PROVE  QueueInv'
<1>1. \A n \in DOMAIN msg_queue : msg_queue[n] # NULL => msg_queue[n] \in AllEvents
  BY DEF SpTypes, SpTypeOK
<1>2. /\ \A i \in Slots : thread'[i] \in AllEvents => where'[thread'[i]] = "busy"
      /\ \A i, j \in Slots : thread'[i] \in AllEvents /\ thread'[i] = thread'[j] => i = j
      /\ \A e \in AllEvents : where'[e] = "busy" => \E i \in Slots : thread'[i] = e
  BY DEF QueueInv
<1>3. /\ \A n \in DOMAIN msg_queue' : msg_queue'[n] # NULL => where'[msg_queue'[n]] = "queue"
      /\ \A e \in AllEvents : where'[e] = "queue" => \E n \in DOMAIN msg_queue' : msg_queue'[n] = e
  BY <1>1 DEF QueueInv
<1>4. \A m, n \in DOMAIN msg_queue' : msg_queue'[m] # NULL /\ msg_queue'[m] = msg_queue'[n] => m = n
  BY DEF QueueInv
<1> QED BY <1>2, <1>3, <1>4 DEF QueueInv

\* What an append does to a queue of events and NULLs, and what a pop does.
LEMMA Appended ==
  ASSUME SpTypes, NEW x, x \in AllEvents \cup {NULL}, msg_queue' = Append(msg_queue, x)
  PROVE  LET last == Len(msg_queue) + 1 IN
         /\ last \in DOMAIN msg_queue' /\ last \notin DOMAIN msg_queue
         /\ DOMAIN msg_queue' = DOMAIN msg_queue \cup {last}
         /\ msg_queue'[last] = x
         /\ \A n \in DOMAIN msg_queue : n < last /\ msg_queue'[n] = msg_queue[n]
         /\ last \in Nat /\ \A n \in DOMAIN msg_queue : n \in Nat
BY DEF SpTypes, SpTypeOK

\* What is left in the queue when its first entry is taken moves up by one.
LEMMA Popped ==
  ASSUME SpTypes, msg_queue # <<>>, msg_queue' = Tail(msg_queue)
  PROVE  /\ 1 \in DOMAIN msg_queue /\ Head(msg_queue) = msg_queue[1]
         /\ \A n \in DOMAIN msg_queue' :
              n \in Nat /\ n + 1 \in DOMAIN msg_queue /\ n + 1 # 1 /\ msg_queue'[n] = msg_queue[n + 1]
         /\ \A n \in DOMAIN msg_queue : n \in Nat /\ (n # 1 => n > 1 /\ n - 1 \in DOMAIN msg_queue'
                                                        /\ msg_queue'[n - 1] = msg_queue[n])
BY DEF SpTypes, SpTypeOK

\* An event that is pushed was not there; a NULL is not an event.
LEMMA PushKeepsQueue ==
  ASSUME SpTypes, QueueInv, Push
  PROVE  QueueInv'
<1>1. PICK e \in AllEvents : /\ where[e] = "pushing" /\ where' = Put(where, e, "queue")
                             /\ msg_queue' = Append(msg_queue, e)
  BY DEF Push
<1>2. UNCHANGED thread /\ where \in [AllEvents -> Places]
  BY DEF Push, SpTypes
<1>3. /\ \A i \in Slots : thread'[i] \in AllEvents => where'[thread'[i]] = "busy"
      /\ \A i, j \in Slots : thread'[i] \in AllEvents /\ thread'[i] = thread'[j] => i = j
      /\ \A d \in AllEvents : where'[d] = "busy" => \E i \in Slots : thread'[i] = d
  BY <1>1, <1>2 DEF QueueInv, Put
<1> DEFINE last == Len(msg_queue) + 1
<1>4. /\ last \in DOMAIN msg_queue'
      /\ DOMAIN msg_queue' = DOMAIN msg_queue \cup {last}
      /\ msg_queue'[last] = e
      /\ \A n \in DOMAIN msg_queue : msg_queue'[n] = msg_queue[n]
  BY <1>1, Appended
<1>5. \A n \in DOMAIN msg_queue : msg_queue[n] # e /\ (msg_queue[n] # NULL => msg_queue[n] \in AllEvents)
  BY <1>1, Names DEF QueueInv, SpTypes, SpTypeOK
<1> HIDE DEF last
<1>6. \A n \in DOMAIN msg_queue' : msg_queue'[n] # NULL => where'[msg_queue'[n]] = "queue"
  BY <1>1, <1>2, <1>4, <1>5 DEF QueueInv, Put
<1>7. \A d \in AllEvents : where'[d] = "queue" => \E n \in DOMAIN msg_queue' : msg_queue'[n] = d
  BY <1>1, <1>2, <1>4 DEF QueueInv, Put
<1>8. \A m, n \in DOMAIN msg_queue' : msg_queue'[m] # NULL /\ msg_queue'[m] = msg_queue'[n] => m = n
  BY <1>4, <1>5 DEF QueueInv
<1> QED BY <1>3, <1>6, <1>7, <1>8 DEF QueueInv

\* A NULL at the end of the queue has nothing behind it.
LEMMA PillKeepsQueue ==
  ASSUME SpTypes, QueueInv, UNCHANGED <<where, thread>>, msg_queue' = Append(msg_queue, NULL)
  PROVE  QueueInv'
<1>1. /\ \A i \in Slots : thread'[i] \in AllEvents => where'[thread'[i]] = "busy"
      /\ \A i, j \in Slots : thread'[i] \in AllEvents /\ thread'[i] = thread'[j] => i = j
      /\ \A d \in AllEvents : where'[d] = "busy" => \E i \in Slots : thread'[i] = d
  BY DEF QueueInv
<1> DEFINE last == Len(msg_queue) + 1
<1>2. /\ DOMAIN msg_queue' = DOMAIN msg_queue \cup {last}
      /\ msg_queue'[last] = NULL
      /\ \A n \in DOMAIN msg_queue : msg_queue'[n] = msg_queue[n]
  BY Appended
<1> HIDE DEF last
<1>3. /\ \A n \in DOMAIN msg_queue' : msg_queue'[n] # NULL => where'[msg_queue'[n]] = "queue"
      /\ \A d \in AllEvents : where'[d] = "queue" => \E n \in DOMAIN msg_queue' : msg_queue'[n] = d
      /\ \A m, n \in DOMAIN msg_queue' : msg_queue'[m] # NULL /\ msg_queue'[m] = msg_queue'[n] => m = n
  BY <1>2 DEF QueueInv
<1> QED BY <1>1, <1>3 DEF QueueInv

\* A thread that takes an event is the only one to have it.
LEMMA PopKeepsQueue ==
  ASSUME SpTypes, QueueInv, NEW i \in Slots, ThreadPops(i)
  PROVE  QueueInv'
<1>1. /\ 1 \in DOMAIN msg_queue /\ Head(msg_queue) = msg_queue[1]
      /\ \A n \in DOMAIN msg_queue' :
           n \in Nat /\ n + 1 \in DOMAIN msg_queue /\ n + 1 # 1 /\ msg_queue'[n] = msg_queue[n + 1]
      /\ \A n \in DOMAIN msg_queue : n # 1 => \E k \in DOMAIN msg_queue' : msg_queue'[k] = msg_queue[n]
  BY Popped DEF ThreadPops
<1>2. \A m, n \in DOMAIN msg_queue' : msg_queue'[m] # NULL /\ msg_queue'[m] = msg_queue'[n] => m = n
  BY <1>1 DEF QueueInv
<1>3. thread[i] = "idle" /\ thread[i] \notin AllEvents
  BY Names DEF ThreadPops
<1>4. where \in [AllEvents -> Places] /\ thread \in [Slots -> ThreadStates]
  BY DEF SpTypes
<1>5. \A n \in DOMAIN msg_queue : msg_queue[n] # NULL => msg_queue[n] \in AllEvents
  BY DEF SpTypes, SpTypeOK
<1>6. CASE Head(msg_queue) = NULL
  <2>1. thread' = Put(thread, i, "ended") /\ UNCHANGED where
    BY <1>6 DEF ThreadPops
  <2>2. /\ \A k \in Slots : thread'[k] \in AllEvents => where'[thread'[k]] = "busy"
        /\ \A k, j \in Slots : thread'[k] \in AllEvents /\ thread'[k] = thread'[j] => k = j
        /\ \A d \in AllEvents : where'[d] = "busy" => \E k \in Slots : thread'[k] = d
    BY <1>3, <1>4, <2>1, Names DEF QueueInv, Put
  <2>3. /\ \A n \in DOMAIN msg_queue' : msg_queue'[n] # NULL => where'[msg_queue'[n]] = "queue"
    BY <1>1, <2>1 DEF QueueInv
  <2>4. \A d \in AllEvents : where'[d] = "queue" => \E n \in DOMAIN msg_queue' : msg_queue'[n] = d
    BY <1>1, <1>6, <2>1, Names DEF QueueInv
  <2> QED BY <1>2, <2>2, <2>3, <2>4 DEF QueueInv
<1>7. CASE Head(msg_queue) # NULL
  <2> DEFINE e == Head(msg_queue)
  <2>1. thread' = Put(thread, i, e) /\ where' = Put(where, e, "busy")
    BY <1>7 DEF ThreadPops
  <2>2. e \in AllEvents /\ where[e] = "queue" /\ msg_queue[1] = e /\ e # NULL
    BY <1>1, <1>5, <1>7 DEF QueueInv
  <2> HIDE DEF e
  <2>3. /\ \A k \in Slots : thread'[k] \in AllEvents => where'[thread'[k]] = "busy"
        /\ \A d \in AllEvents : where'[d] = "busy" => \E k \in Slots : thread'[k] = d
    BY <1>3, <1>4, <2>1, <2>2 DEF QueueInv, Put
  <2>4. \A k \in Slots : thread[k] # e
    BY <2>2 DEF QueueInv
  <2>5. \A k, j \in Slots : thread'[k] \in AllEvents /\ thread'[k] = thread'[j] => k = j
    BY <1>4, <2>1, <2>4 DEF QueueInv, Put
  <2>6. \A n \in DOMAIN msg_queue' : msg_queue'[n] # e
    BY <1>1, <2>2 DEF QueueInv
  <2>7. \A n \in DOMAIN msg_queue' : msg_queue'[n] # NULL => where'[msg_queue'[n]] = "queue"
    BY <1>1, <1>4, <1>5, <2>1, <2>6 DEF QueueInv, Put
  <2>8. \A d \in AllEvents : where'[d] = "queue" => d # e /\ where[d] = "queue"
    BY <1>4, <2>1, <2>2 DEF Put
  <2>9. \A d \in AllEvents : where'[d] = "queue" => \E n \in DOMAIN msg_queue' : msg_queue'[n] = d
    BY <1>1, <2>2, <2>8 DEF QueueInv
  <2> QED BY <1>2, <2>3, <2>5, <2>7, <2>9 DEF QueueInv
<1> QED BY <1>6, <1>7

\* So does one that has processed its event and has none then.
LEMMA ProcessKeepsQueue ==
  ASSUME SpTypes, QueueInv, NEW i \in Slots, ThreadProcesses(i)
  PROVE  QueueInv'
<1> DEFINE e == thread[i]
<1>1. /\ e \in AllEvents /\ where' = Put(where, e, "handled") /\ thread' = Put(thread, i, "idle")
      /\ UNCHANGED msg_queue
  BY DEF ThreadProcesses, Process
<1>2. where \in [AllEvents -> Places] /\ thread \in [Slots -> ThreadStates]
  BY DEF SpTypes
<1>3. where[e] = "busy" /\ \A k \in Slots : thread[k] = e => k = i
  BY <1>1 DEF QueueInv
<1>4. /\ \A k \in Slots : thread'[k] \in AllEvents => k # i /\ thread'[k] = thread[k]
      /\ \A k \in Slots : k # i => thread'[k] = thread[k]
  BY <1>1, <1>2, Names DEF Put
<1>5. \A d \in AllEvents : /\ d # e => where'[d] = where[d]
                           /\ where'[d] \in {"busy", "queue"} => d # e
  BY <1>1, <1>2 DEF Put
<1>6. \A n \in DOMAIN msg_queue : msg_queue[n] # NULL => msg_queue[n] \in AllEvents /\ msg_queue[n] # e
  BY <1>3 DEF QueueInv, SpTypes, SpTypeOK
<1> HIDE DEF e
<1>7. \A k \in Slots : thread'[k] \in AllEvents => where'[thread'[k]] = "busy"
  <2> SUFFICES ASSUME NEW k \in Slots, thread'[k] \in AllEvents
               PROVE  where'[thread'[k]] = "busy"
    OBVIOUS
  <2>1. k # i /\ thread'[k] = thread[k] /\ thread[k] # e
    BY <1>3, <1>4
  <2> QED BY <1>5, <2>1 DEF QueueInv
<1>8. \A k, j \in Slots : thread'[k] \in AllEvents /\ thread'[k] = thread'[j] => k = j
  BY <1>4 DEF QueueInv
<1>9. \A d \in AllEvents : where'[d] = "busy" => \E k \in Slots : thread'[k] = d
  <2> SUFFICES ASSUME NEW d \in AllEvents, where'[d] = "busy"
               PROVE  \E k \in Slots : thread'[k] = d
    OBVIOUS
  <2>1. d # e /\ where[d] = "busy"
    BY <1>5
  <2>2. PICK k \in Slots : thread[k] = d
    BY <2>1 DEF QueueInv
  <2>3. k # i
    BY <2>1, <2>2 DEF e
  <2> QED BY <1>4, <2>2, <2>3
<1>10. \A n \in DOMAIN msg_queue' : msg_queue'[n] # NULL => where'[msg_queue'[n]] = "queue"
  BY <1>1, <1>5, <1>6 DEF QueueInv
<1>11. \A d \in AllEvents : where'[d] = "queue" => \E n \in DOMAIN msg_queue' : msg_queue'[n] = d
  BY <1>1, <1>5 DEF QueueInv
<1>12. \A m, n \in DOMAIN msg_queue' : msg_queue'[m] # NULL /\ msg_queue'[m] = msg_queue'[n] => m = n
  BY <1>1 DEF QueueInv
<1> QED BY <1>7, <1>8, <1>9, <1>10, <1>11, <1>12 DEF QueueInv

\* Every event stays where its place says it is.
LEMMA QueueKept ==
  ASSUME SpTypes, ProfileInv, QueueInv, SpNext
  PROVE  QueueInv'
<1>t. where \in [AllEvents -> Places] /\ thread \in [Slots -> ThreadStates]
  BY DEF SpTypes
<1>1. ASSUME UNCHANGED <<where, thread, msg_queue>>
      PROVE  QueueInv'
  BY <1>1, QueueAside
<1>2. CASE LoadEnds
  <2>1. UNCHANGED <<msg_queue, where>> /\ thread' = WithThread(0)
    BY <1>2 DEF LoadEnds
  <2> QED BY <2>1, ThreadsCreated, Names, QueueAside
<1>3. CASE UnloadBegins \/ ThreadsWaited \/ JoinThreads \/ WorkerStarts \/ WorkerEnds \/ StopProfile
  BY <1>1, <1>3 DEF UnloadBegins, ThreadsWaited, JoinThreads, WorkerStarts, WorkerEnds, StopProfile,
     eventvars
<1>4. CASE PushPill
  BY <1>1, <1>4, PillKeepsQueue DEF PushPill
<1>5. CASE Start \/ StartFails \/ LeaveRoot \/ EventsWaited \/ JoinWorker \/ DelProfile \/ DestroyProfile
  BY <1>1, <1>5 DEF Start, StartFails, LeaveRoot, EventsWaited, JoinWorker, DelProfile,
     DestroyProfile, eventvars
<1>6. CASE Push
  BY <1>6, PushKeepsQueue
<1>7. ASSUME NEW i \in Slots, ThreadSteps(i)
      PROVE  QueueInv'
  <2>1. CASE ThreadStarts(i)
    <3>1. UNCHANGED <<msg_queue, where>> /\ thread[i] = "created" /\ thread' = Put(thread, i, "idle")
      BY <2>1 DEF ThreadStarts
    <3> QED BY <1>t, <3>1, Names, QueueAside DEF Put
  <2> QED BY <1>7, <2>1, PopKeepsQueue, ProcessKeepsQueue DEF ThreadSteps
<1>8. ASSUME NEW e \in AllEvents, OwnThread(e) \/ ReportDirectly(e)
      PROVE  QueueInv'
  <2>1. UNCHANGED <<msg_queue, thread>> /\ where[e] \in {"launched", "own", "none"}
        /\ where' \in {Put(where, e, "own"), Put(where, e, "handled")}
    BY <1>8 DEF OwnThread, ReportDirectly, MayReport, Process
  <2> QED BY <1>t, <2>1, QueueAside DEF Put
<1>9. ASSUME NEW e \in AllEvents, Report(e)
      PROVE  QueueInv'
  <2>1. UNCHANGED msg_queue /\ where[e] = "none"
        /\ where' \in {Put(where, e, "launched"), Put(where, e, "pushing")}
    BY <1>9 DEF Report, MayReport
  <2>2. \A d \in AllEvents : \/ where'[d] = where[d]
                             \/ where[d] \notin {"queue", "busy"} /\ where'[d] \notin {"queue", "busy"}
    BY <1>t, <2>1 DEF Put
  <2>3. thread' = thread \/ thread' = WithThread(msg_queue_len + 1)
    BY <1>9 DEF Report
  <2>4. msg_queue_len + 1 \in Nat
    BY ThreadsCounted
  <2>5. \A i \in Slots : \/ thread'[i] = thread[i]
                         \/ thread[i] \notin AllEvents /\ thread'[i] \notin AllEvents
    BY <2>3, <2>4, ThreadsCreated, Names
  <2> QED BY <2>1, <2>2, <2>5, QueueAside
<1>10. ASSUME NEW e \in AllEvents, NEW s \in Calls, ReportToCall(e, s) \/ ReportInvite(e, s)
       PROVE  QueueInv'
  <2>1. UNCHANGED <<msg_queue, thread>> /\ where[e] = "none"
        /\ where' \in {Put(where, e, s), Put(where, e, "lost")}
    BY <1>10 DEF ReportToCall, ReportInvite, MayReport
  <2> QED BY <1>t, <2>1, Names, QueueAside DEF Put
<1>11. ASSUME NEW s \in Calls, SessSteps(s)
       PROVE  QueueInv'
  <2>1. CASE CallProcesses(s)
    <3>1. PICK e \in AllEvents : where[e] = s /\ where' = Put(where, e, "handled")
      BY <2>1 DEF CallProcesses, Process, AllEvents
    <3>2. UNCHANGED <<msg_queue, thread>>
      BY <2>1 DEF CallProcesses
    <3> QED BY <1>t, <3>1, <3>2, Names, QueueAside DEF Put
  <2>2. CASE OnDestroy(s)
    <3>1. UNCHANGED <<msg_queue, thread>>
          /\ where' = [e \in AllEvents |-> IF where[e] = s THEN "lost" ELSE where[e]]
      BY <2>2 DEF OnDestroy
    <3> QED BY <1>t, <3>1, Names, QueueAside
  <2>3. CASE LastOneFrees(s)
    BY <1>1, <2>3 DEF LastOneFrees, eventvars
  <2> QED BY <1>11, <2>1, <2>2, <2>3 DEF SessSteps
<1>12. ASSUME NEW u \in Users, \/ FindProfile(u) \/ ReleaseProfile(u)
                               \/ \E s \in Calls : AttachOutbound(u, s)
       PROVE  QueueInv'
  BY <1>1, <1>12 DEF FindProfile, ReleaseProfile, AttachOutbound, eventvars
<1> QED
  BY <1>2, <1>3, <1>4, <1>5, <1>6, <1>7, <1>8, <1>9, <1>10, <1>11, <1>12
  DEF SpNext, UnloadSteps, ProfileSteps

-----------------------------------------------------------------------------
\* A step that adds nothing to the queue, ends no thread and does not unload.
LEMMA UnloadUntouched ==
  ASSUME SpTypes, UnloadInv, UNCHANGED <<msg_queue, unload, gaveUp>>,
         pc = "over" => pc' = "over",
         loaded' = loaded,
         \A i \in Slots : \/ thread'[i] = thread[i]
                          \/ thread[i] # "none" /\ thread'[i] \notin {"none", "ended"} /\ thread[i] # "ended"
  PROVE  UnloadInv'
<1>1. 0 \in Slots
  BY SofiaProfileAssumption DEF Slots
<1>2. /\ \A n \in DOMAIN msg_queue' : msg_queue'[n] = NULL => Pilled'
      /\ \A i \in Slots : thread'[i] = "ended" => Pilled'
      /\ unload' # "no" => loaded'
  BY DEF UnloadInv, Pilled
<1>3. \A i \in Slots : (thread'[i] = "none" <=> thread[i] = "none")
                       /\ (thread'[i] = "ended" <=> thread[i] = "ended")
  OBVIOUS
<1>4. /\ loaded' => thread'[0] # "none"
      /\ \A i \in Slots : thread'[i] # "none" => thread'[0] # "none"
  BY <1>1, <1>3 DEF UnloadInv
<1>5. ASSUME "threads" \notin gaveUp'
      PROVE  /\ Pilled' => pc' = "over"
             /\ \A m, n \in DOMAIN msg_queue' : m < n /\ msg_queue'[m] = NULL => msg_queue'[n] = NULL
             /\ \A i \in Slots : thread'[i] = "ended" => \A n \in DOMAIN msg_queue' : msg_queue'[n] = NULL
  BY <1>3, <1>5 DEF UnloadInv, Pilled
<1>6. ASSUME "threads" \notin gaveUp', unload' = "done"
      PROVE  \A i \in Slots : thread'[i] \in {"none", "ended"}
  BY <1>3, <1>6 DEF UnloadInv
<1> QED BY <1>2, <1>4, <1>5, <1>6 DEF UnloadInv

\* New threads are not created once the profile is over, the first one first.
LEMMA CreatedKeepsUnload ==
  ASSUME SpTypes, UnloadInv, UNCHANGED <<msg_queue, unload, gaveUp, pc>>, NEW idx \in Nat,
         thread' = WithThread(idx), pc # "over" \/ unload = "no",
         loaded' = loaded \/ (idx = 0 /\ unload = "no")
  PROVE  UnloadInv'
<1>1. 0 \in Slots /\ max_msg_queues \in Nat /\ max_msg_queues >= 2
  BY SofiaProfileAssumption DEF Slots
<1>2. \A i \in Slots : \/ thread'[i] = thread[i]
                       \/ thread[i] = "none" /\ thread'[i] = "created"
  BY ThreadsCreated
<1>3. thread' = thread \/ thread'[0] # "none"
  BY <1>1 DEF WithThread
<1>4. idx = 0 => thread'[0] # "none"
  <2>1. CASE msg_queue_len > 0
    <3>1. \E i \in Slots : thread[i] # "none"
      <4>1. SUFFICES ASSUME \A i \in Slots : thread[i] = "none" PROVE FALSE
        OBVIOUS
      <4>2. {i \in Slots : thread[i] # "none"} = {}
        BY <4>1
      <4> QED BY <2>1, <4>2, FS_EmptySet DEF msg_queue_len
    <3>2. thread[0] # "none"
      BY <3>1 DEF UnloadInv
    <3> QED BY <1>1, <1>2, <3>2
  <2>2. CASE ~(msg_queue_len > 0)
    <3>1. idx = 0 => ~(idx >= max_msg_queues \/ idx < msg_queue_len)
      BY <1>1, <2>2, ThreadsCounted
    <3> QED BY <1>1, <3>1 DEF WithThread
  <2> QED BY <2>1, <2>2
<1>5. /\ \A n \in DOMAIN msg_queue' : msg_queue'[n] = NULL => Pilled'
      /\ \A i \in Slots : thread'[i] = "ended" => Pilled'
      /\ unload' # "no" => loaded'
  BY <1>2 DEF UnloadInv, Pilled
<1>6. /\ loaded' => thread'[0] # "none"
      /\ \A i \in Slots : thread'[i] # "none" => thread'[0] # "none"
  BY <1>1, <1>2, <1>3, <1>4 DEF UnloadInv
<1>7. ASSUME "threads" \notin gaveUp'
      PROVE  /\ Pilled' => pc' = "over"
             /\ \A m, n \in DOMAIN msg_queue' : m < n /\ msg_queue'[m] = NULL => msg_queue'[n] = NULL
             /\ \A i \in Slots : thread'[i] = "ended" => \A n \in DOMAIN msg_queue' : msg_queue'[n] = NULL
             /\ unload' # "done"
  BY <1>2, <1>7 DEF UnloadInv, Pilled
<1> QED BY <1>5, <1>6, <1>7 DEF UnloadInv

\* A NULL is pushed behind the events, an event is not pushed behind a NULL.
LEMMA PushKeepsUnload ==
  ASSUME SpTypes, ProfileInv, UnloadInv, Push \/ PushPill
  PROVE  UnloadInv'
<1>1. UNCHANGED <<loaded, pc, thread, gaveUp>>
  BY DEF Push, PushPill, profilevars, modulevars
<1>2. CASE UNCHANGED msg_queue
  <2>1. PushPill \/ UNCHANGED unload
    BY <1>2 DEF Push, modulevars
  <2>2. UNCHANGED unload \/ (unload = "pills" /\ unload' = "joining")
    BY <2>1 DEF PushPill
  <2> QED BY <1>1, <1>2, <2>2 DEF UnloadInv, Pilled
<1>3. CASE ~UNCHANGED msg_queue
  <2>1. PICK x \in AllEvents \cup {NULL} :
           /\ msg_queue' = Append(msg_queue, x) /\ UNCHANGED unload
           /\ x = NULL => Pilled
           /\ x # NULL => pc \in {"root", "shutdown"}
    <3>1. CASE Push
      BY <3>1, Names DEF Push, ProfileInv, modulevars
    <3>2. CASE PushPill
      BY <1>3, <3>2 DEF PushPill, Pilled
    <3> QED BY <3>1, <3>2
  <2> DEFINE last == Len(msg_queue) + 1
  <2>2. /\ DOMAIN msg_queue' = DOMAIN msg_queue \cup {last}
        /\ msg_queue'[last] = x
        /\ \A n \in DOMAIN msg_queue : n < last /\ msg_queue'[n] = msg_queue[n]
        /\ last \in Nat /\ \A n \in DOMAIN msg_queue : n \in Nat
    BY <2>1, Appended
  <2> HIDE DEF last
  <2>3. \A n \in DOMAIN msg_queue' : msg_queue'[n] = NULL => Pilled'
    BY <2>1, <2>2 DEF UnloadInv, Pilled
  <2>4. ASSUME "threads" \notin gaveUp
        PROVE  /\ \A m, n \in DOMAIN msg_queue' : m < n /\ msg_queue'[m] = NULL => msg_queue'[n] = NULL
               /\ \A i \in Slots : thread'[i] = "ended" => \A n \in DOMAIN msg_queue' : msg_queue'[n] = NULL
    <3>1. CASE x # NULL
      <4>1. ~Pilled
        BY <2>1, <2>4, <3>1 DEF UnloadInv
      <4>2. \A n \in DOMAIN msg_queue' : msg_queue'[n] # NULL
        BY <2>2, <3>1, <4>1 DEF UnloadInv
      <4> QED BY <1>1, <4>1, <4>2 DEF UnloadInv
    <3>2. CASE x = NULL
      <4>1. ASSUME NEW m \in DOMAIN msg_queue', NEW n \in DOMAIN msg_queue', m < n, msg_queue'[m] = NULL
            PROVE  msg_queue'[n] = NULL
        <5>1. n = last \/ (n \in DOMAIN msg_queue /\ m \in DOMAIN msg_queue)
          BY <2>2, <4>1
        <5> QED BY <2>2, <2>4, <3>2, <4>1, <5>1 DEF UnloadInv
      <4>2. \A i \in Slots : thread'[i] = "ended" => \A n \in DOMAIN msg_queue' : msg_queue'[n] = NULL
        BY <1>1, <2>2, <2>4, <3>2 DEF UnloadInv
      <4> QED BY <4>1, <4>2
    <3> QED BY <3>1, <3>2
  <2> QED BY <1>1, <2>1, <2>3, <2>4 DEF UnloadInv, Pilled
<1> QED BY <1>2, <1>3

\* Nothing but NULLs is behind the NULL that ends a thread.
LEMMA PopKeepsUnload ==
  ASSUME SpTypes, UnloadInv, NEW i \in Slots, ThreadPops(i)
  PROVE  UnloadInv'
<1>1. UNCHANGED <<loaded, pc, unload, gaveUp>> /\ thread[i] = "idle" /\ thread \in [Slots -> ThreadStates]
  BY DEF ThreadPops, profilevars, modulevars, SpTypes
<1>2. /\ 1 \in DOMAIN msg_queue /\ Head(msg_queue) = msg_queue[1]
      /\ \A n \in DOMAIN msg_queue' :
           n \in Nat /\ n + 1 \in DOMAIN msg_queue /\ n + 1 # 1 /\ msg_queue'[n] = msg_queue[n + 1]
  BY Popped DEF ThreadPops
<1>3. /\ \A k \in Slots \ {i} : thread'[k] = thread[k]
      /\ thread'[i] = "ended" \/ thread'[i] \in AllEvents
      /\ thread'[i] = "ended" => msg_queue[1] = NULL
  <2>1. Head(msg_queue) \in AllEvents \cup {NULL}
    BY DEF ThreadPops, SpTypes, SpTypeOK
  <2> QED BY <1>1, <1>2, <2>1, Names DEF ThreadPops, Put
<1>4. \A n \in DOMAIN msg_queue' : msg_queue'[n] = NULL => Pilled'
  BY <1>1, <1>2 DEF UnloadInv, Pilled
<1>5. \A k \in Slots : thread'[k] = "ended" => Pilled'
  BY <1>1, <1>2, <1>3 DEF UnloadInv, Pilled
<1>6. \A k \in Slots : thread'[k] = "none" <=> thread[k] = "none"
  BY <1>1, <1>3, Names
<1>7. 0 \in Slots
  BY SofiaProfileAssumption DEF Slots
<1>8. /\ loaded' => thread'[0] # "none"
      /\ \A k \in Slots : thread'[k] # "none" => thread'[0] # "none"
  BY <1>1, <1>6, <1>7 DEF UnloadInv
<1>9. ASSUME "threads" \notin gaveUp
      PROVE  /\ Pilled' => pc' = "over"
             /\ \A m, n \in DOMAIN msg_queue' : m < n /\ msg_queue'[m] = NULL => msg_queue'[n] = NULL
             /\ \A k \in Slots : thread'[k] = "ended" => \A n \in DOMAIN msg_queue' : msg_queue'[n] = NULL
             /\ unload' = "done" => \A k \in Slots : thread'[k] \in {"none", "ended"}
  <2>1. Pilled' => pc' = "over"
    BY <1>1, <1>9 DEF UnloadInv, Pilled
  <2>2. ASSUME NEW m \in DOMAIN msg_queue', NEW n \in DOMAIN msg_queue', m < n, msg_queue'[m] = NULL
        PROVE  msg_queue'[n] = NULL
    <3>1. m + 1 < n + 1 /\ m + 1 \in DOMAIN msg_queue /\ n + 1 \in DOMAIN msg_queue
          /\ msg_queue[m + 1] = NULL /\ msg_queue'[n] = msg_queue[n + 1]
      BY <1>2, <2>2
    <3> QED BY <1>9, <3>1 DEF UnloadInv
  <2>3. ASSUME NEW k \in Slots, thread'[k] = "ended", NEW n \in DOMAIN msg_queue'
        PROVE  msg_queue'[n] = NULL
    <3>1. CASE k = i
      <4>1. msg_queue[1] = NULL /\ 1 < n + 1 /\ n + 1 \in DOMAIN msg_queue
            /\ msg_queue'[n] = msg_queue[n + 1]
        <5>1. n \in Nat /\ n + 1 # 1
          BY <1>2
        <5> QED BY <1>2, <1>3, <2>3, <3>1, <5>1
      <4> QED BY <1>2, <1>9, <4>1 DEF UnloadInv
    <3>2. CASE k # i
      BY <1>2, <1>3, <1>9, <2>3, <3>2 DEF UnloadInv
    <3> QED BY <3>1, <3>2
  <2>4. unload' # "done"
    BY <1>1, <1>9 DEF UnloadInv
  <2> QED BY <2>1, <2>2, <2>3, <2>4
<1> QED BY <1>1, <1>4, <1>5, <1>8, <1>9 DEF UnloadInv

\* The NULLs stay behind the events.
LEMMA UnloadKept ==
  ASSUME SpTypes, ProfileInv, QueueInv, UnloadInv, SpNext
  PROVE  UnloadInv'
<1>t. thread \in [Slots -> ThreadStates]
  BY DEF SpTypes
<1>1. ASSUME UNCHANGED <<msg_queue, unload, gaveUp, thread, loaded>>, pc = "over" => pc' = "over"
      PROVE  UnloadInv'
  BY <1>1, UnloadUntouched
<1>2. CASE LoadEnds
  <2>1. /\ UNCHANGED <<msg_queue, unload, gaveUp, pc>> /\ thread' = WithThread(0)
        /\ ~loaded
    BY <1>2 DEF LoadEnds, profilevars
  <2>2. unload = "no"
    BY <2>1 DEF UnloadInv
  <2> QED BY <2>1, <2>2, CreatedKeepsUnload
<1>3. CASE UnloadBegins
  <2>1. UNCHANGED <<msg_queue, gaveUp, pc, thread, loaded>> /\ loaded
        /\ unload = "no" /\ unload' = "waiting"
    BY <1>3 DEF UnloadBegins, eventvars, profilevars
  <2> QED BY <2>1 DEF UnloadInv, Pilled
<1>4. CASE ThreadsWaited
  <2>1. /\ UNCHANGED <<msg_queue, pc, thread, loaded>>
        /\ unload = "waiting" /\ unload' = "pills" /\ gaveUp \subseteq gaveUp'
        /\ pc = "over" \/ "threads" \in gaveUp'
    BY <1>4 DEF ThreadsWaited, eventvars, profilevars
  <2> QED BY <2>1 DEF UnloadInv, Pilled
<1>5. CASE JoinThreads
  <2>1. /\ UNCHANGED <<msg_queue, pc, thread, loaded, gaveUp>>
        /\ unload = "joining" /\ unload' = "done"
        /\ \A i \in Slots : thread[i] \in {"none", "ended"}
    BY <1>5 DEF JoinThreads, eventvars, profilevars
  <2> QED BY <2>1 DEF UnloadInv, Pilled
<1>6. CASE PushPill \/ Push
  BY <1>6, PushKeepsUnload
<1>7. CASE WorkerStarts \/ WorkerEnds \/ StopProfile
  BY <1>1, <1>7 DEF WorkerStarts, WorkerEnds, StopProfile, eventvars, modulevars
<1>8. CASE Start \/ StartFails \/ LeaveRoot \/ JoinWorker \/ DelProfile \/ DestroyProfile
  BY <1>1, <1>8 DEF Start, StartFails, LeaveRoot, JoinWorker, DelProfile, DestroyProfile,
     eventvars, modulevars
<1>9. CASE EventsWaited
  <2>1. UNCHANGED <<msg_queue, unload, thread, loaded>> /\ pc = "shutdown" /\ pc' = "join"
        /\ ("threads" \in gaveUp' <=> "threads" \in gaveUp)
    BY <1>9 DEF EventsWaited, eventvars, modulevars
  <2> QED BY <2>1 DEF UnloadInv, Pilled
<1>10. ASSUME NEW i \in Slots, ThreadSteps(i)
       PROVE  UnloadInv'
  <2>1. CASE ThreadPops(i)
    BY <2>1, PopKeepsUnload
  <2>2. CASE ThreadStarts(i) \/ ThreadProcesses(i)
    <3>1. /\ UNCHANGED <<msg_queue, unload, gaveUp, pc, loaded>> /\ thread' = Put(thread, i, "idle")
          /\ thread[i] \in {"created"} \cup AllEvents
      BY <2>2 DEF ThreadStarts, ThreadProcesses, Process, profilevars, modulevars
    <3>2. \A k \in Slots : \/ thread'[k] = thread[k]
                           \/ /\ thread[k] # "none" /\ thread'[k] \notin {"none", "ended"}
                              /\ thread[k] # "ended"
      BY <1>t, <3>1, Names DEF Put
    <3> QED BY <3>1, <3>2, UnloadUntouched
  <2> QED BY <1>10, <2>1, <2>2 DEF ThreadSteps
<1>11. ASSUME NEW e \in AllEvents, OwnThread(e) \/ ReportDirectly(e)
       PROVE  UnloadInv'
  BY <1>1, <1>11 DEF OwnThread, ReportDirectly, Process, profilevars, modulevars
<1>12. ASSUME NEW e \in AllEvents, Report(e)
       PROVE  UnloadInv'
  <2>1. UNCHANGED <<msg_queue, unload, gaveUp, pc, loaded>> /\ pc \in {"root", "shutdown"}
    BY <1>12 DEF Report, MayReport, Stepping, profilevars, modulevars
  <2>2. CASE UNCHANGED thread
    BY <1>1, <2>1, <2>2
  <2>3. CASE thread' = WithThread(msg_queue_len + 1)
    <3>1. msg_queue_len + 1 \in Nat
      BY ThreadsCounted
    <3> QED BY <2>1, <2>3, <3>1, CreatedKeepsUnload
  <2> QED BY <1>12, <2>2, <2>3 DEF Report
<1>13. ASSUME NEW e \in AllEvents, NEW s \in Calls, ReportToCall(e, s) \/ ReportInvite(e, s)
       PROVE  UnloadInv'
  BY <1>1, <1>13 DEF ReportToCall, ReportInvite, profilevars, modulevars
<1>14. ASSUME NEW s \in Calls, SessSteps(s)
       PROVE  UnloadInv'
  BY <1>1, <1>14 DEF SessSteps, CallProcesses, OnDestroy, LastOneFrees, Process, eventvars,
     profilevars, modulevars
<1>15. ASSUME NEW u \in Users, \/ FindProfile(u) \/ ReleaseProfile(u)
                               \/ \E s \in Calls : AttachOutbound(u, s)
       PROVE  UnloadInv'
  BY <1>1, <1>15 DEF FindProfile, ReleaseProfile, AttachOutbound, eventvars, profilevars, modulevars
<1> QED
  BY <1>2, <1>3, <1>4, <1>5, <1>6, <1>7, <1>8, <1>9, <1>10, <1>11, <1>12, <1>13, <1>14, <1>15
  DEF SpNext, UnloadSteps, ProfileSteps

-----------------------------------------------------------------------------
\* Before the profile's thread runs nothing is outstanding and nobody is counted.
LEMMA SpInvInit == SpInit => SpInv
<1> SUFFICES ASSUME SpInit PROVE SpInv
  OBVIOUS
<1>1. Outs = {} /\ UpCalls = {}
  BY Names DEF SpInit, Outs, Outstanding, UpCalls
<1>2. Counts
  BY <1>1, FS_EmptySet DEF Counts, SpInit
<1>3. Capacity \in Nat /\ msg_queue = <<>> /\ Len(msg_queue) = 0 /\ DOMAIN msg_queue = {}
  BY SofiaProfileAssumption DEF Capacity, SpInit
<1>4. SpTypes
  <2>1. where \in [AllEvents -> Places] /\ thread \in [Slots -> ThreadStates]
    BY DEF SpInit, Places, ThreadStates
  <2>2. sess \in [Calls -> {"none", "up", "left", "gone", "undefined"}] /\ user \in [Users -> {"out", "in"}]
    BY DEF SpInit
  <2>3. msg_queue \in Seq(AllEvents \cup {NULL}) /\ Len(msg_queue) <= Capacity
    BY <1>3
  <2> QED BY <2>1, <2>2, <2>3 DEF SpTypes, SpTypeOK, SpInit, Places, ThreadStates
<1>5. ProfileInv
  BY <1>1 DEF ProfileInv, SpInit
<1>6. QueueInv
  BY <1>3, Names DEF QueueInv, SpInit
<1>7. 0 \in Slots
  BY SofiaProfileAssumption DEF Slots
<1>8. UnloadInv
  BY <1>3, <1>7 DEF UnloadInv, Pilled, SpInit
<1> QED BY <1>2, <1>4, <1>5, <1>6, <1>8 DEF SpInv

\* Every step keeps the invariant.
LEMMA SpInvKept == SpInv /\ [SpNext]_spvars => SpInv'
<1> SUFFICES ASSUME SpInv, [SpNext]_spvars PROVE SpInv'
  OBVIOUS
<1>1. CASE SpNext
  <2>1. Counts' /\ queued_events' \in Nat /\ inuse' \in Nat
    BY <1>1, CountsKept DEF SpInv
  <2>2. SpTypes'
    BY <1>1, <2>1, TypesKept DEF SpInv
  <2> QED BY <1>1, <2>1, <2>2, ProfileKept, QueueKept, UnloadKept DEF SpInv
<1>2. CASE UNCHANGED spvars
  BY <1>2 DEF spvars, profilevars, eventvars, callvars, modulevars, SpInv, SpTypes, SpTypeOK, Counts, ProfileInv,
     QueueInv, UnloadInv, Pilled, Outs, Outstanding, UpCalls
<1> QED BY <1>1, <1>2

\* The invariant holds in every reachable state.
THEOREM SpInvariant == SpSpec => []SpInv
BY SpInvInit, SpInvKept, PTL DEF SpSpec

\* The variables have their types; the queue is never longer than its capacity,
\* and neither count ever goes below 0.
THEOREM SpTypesHold == SpSpec => []SpTypeOK
<1>1. SpInv => SpTypeOK
  BY DEF SpInv, SpTypes
<1> QED BY <1>1, SpInvariant, PTL

\* sofia_profile_destroy, LastOneFrees: the profile is freed when nobody uses it.
THEOREM FreedSafely == SpSpec => []FreedWhenUnused
<1>1. SpInv => FreedWhenUnused
  BY DEF SpInv, ProfileInv, SpTypes, SpTypeOK, FreedWhenUnused, Outs, UpCalls
<1> QED BY <1>1, SpInvariant, PTL

\* mod_sofia_shutdown_cleanup: no event is left with the message threads.
THEOREM NothingLeftBehind == SpSpec => []EventsHandled
<1>1. SpInv => EventsHandled
  <2> SUFFICES ASSUME SpInv, unload = "done", "threads" \notin gaveUp, NEW e \in AllEvents
               PROVE  where[e] \notin {"pushing", "queue", "busy"}
    BY DEF EventsHandled
  <2>1. pc = "over" /\ \A i \in Slots : thread[i] \in {"none", "ended"}
    BY DEF SpInv, UnloadInv, Pilled
  <2>2. where[e] # "pushing"
    BY <2>1 DEF SpInv, ProfileInv
  <2>3. where[e] # "busy"
    BY <2>1, Names DEF SpInv, QueueInv
  <2>4. 0 \in Slots
    BY SofiaProfileAssumption DEF Slots
  <2>5. thread[0] = "ended"
    BY <2>1, <2>4 DEF SpInv, UnloadInv
  <2>6. \A n \in DOMAIN msg_queue : msg_queue[n] = NULL
    BY <2>4, <2>5 DEF SpInv, UnloadInv
  <2>7. where[e] # "queue"
    BY <2>6, Names DEF SpInv, QueueInv
  <2> QED BY <2>2, <2>3, <2>7
<1> QED BY <1>1, SpInvariant, PTL
=============================================================================
