--------------------------- MODULE GatewayProofs ---------------------------
(***************************************************************************)
(* The handle of a registration, for any number of threads, any Expires    *)
(* and any limits: it is there while the registration is tried, and it is  *)
(* not there once the gateway is unregistered or removed.                  *)
(*                                                                         *)
(* HandleWhileTrying and RemovedLeavesNothing are two conjuncts of the     *)
(* inductive invariant.  The others say why: only the check writes NOREG,  *)
(* and only when it has destroyed the handle, and only the check makes a   *)
(* handle; so NOREG is never seen while the check is about to use one.     *)
(***************************************************************************)
EXTENDS GatewayRegistration, FiniteSetTheorems, TLAPS

\* NOREG means that there is no handle, and that the check does not act on a
\* state it read before.
NoregIsFinal ==
  state = "NOREG" => nh = "null" /\ check \in {"idle", "purged", "NOREG"}

HandleInv ==
  /\ state \in RegState
  /\ nh = "null" => asked = 0
  /\ NoregIsFinal
  /\ HandleWhileTrying
  /\ RemovedLeavesNothing

\* parse_gateways makes no handle.
LEMMA HandleInit == Init => HandleInv
BY DEF Init, HandleInv, RegState, NoregIsFinal, HandleWhileTrying, RemovedLeavesNothing

\* The stack and the clock leave the states alone.
LEMMA StackKeeps ==
  HandleInv /\ (StackAnswers \/ StackRefreshes \/ \E d \in Deadline : TimePasses(d))
    => HandleInv'
<1> SUFFICES ASSUME HandleInv,
                    StackAnswers \/ StackRefreshes \/ \E d \in Deadline : TimePasses(d)
             PROVE  HandleInv'
  OBVIOUS
<1> USE DEF HandleInv, NoregIsFinal, HandleWhileTrying, RemovedLeavesNothing, pingVars
<1>1. CASE StackAnswers
  BY <1>1 DEF StackAnswers
<1>2. CASE StackRefreshes
  BY <1>2 DEF StackRefreshes
<1>3. CASE \E d \in Deadline : TimePasses(d)
  BY <1>3 DEF TimePasses
<1> QED BY <1>1, <1>2, <1>3

\* What a worker or an operator writes is neither NOREG nor a state of a
\* registration being tried, and touches no handle.
LEMMA WorkerKeeps ==
  ASSUME NEW w \in Worker, HandleInv,
         Dispatch(w) \/ PingDispatch(w) \/ OperatorFinds(w) \/ Finish(w)
  PROVE  HandleInv'
<1> USE DEF HandleInv, NoregIsFinal, HandleWhileTrying, RemovedLeavesNothing,
            RegState, regVars, pingVars
<1>1. CASE Dispatch(w)
  BY <1>1 DEF Dispatch
<1>2. CASE PingDispatch(w)
  BY <1>2 DEF PingDispatch
<1>3. CASE OperatorFinds(w)
  BY <1>3 DEF OperatorFinds
<1>4. CASE Finish(w)
  <2>1. CASE Registered(w)
    BY <2>1 DEF Registered
  <2>2. CASE Refused(w)
    BY <2>2 DEF Refused, Write
  <2>3. CASE PingState(w)
    BY <2>3 DEF PingState
  <2>4. CASE PingCount(w)
    BY <2>4 DEF PingCount
  <2>5. CASE OperatorRegisters(w)
    BY <2>5 DEF OperatorRegisters, Write, Forget
  <2>6. CASE OperatorUnregisters(w)
    BY <2>6 DEF OperatorUnregisters, Write, Forget
  <2>7. CASE OperatorKills(w)
    BY <2>7 DEF OperatorKills
  <2> QED BY <1>4, <2>1, <2>2, <2>3, <2>4, <2>5, <2>6, <2>7 DEF Finish
<1> QED BY <1>1, <1>2, <1>3, <1>4

\* "register all" and "unregister all" write such states as well.
LEMMA TellsAllKeeps == HandleInv /\ OperatorTellsAll => HandleInv'
BY DEF HandleInv, NoregIsFinal, HandleWhileTrying, RemovedLeavesNothing, RegState,
       OperatorTellsAll, Forget, pingVars

\* The check: purge and read, then one case for each state that was read.
LEMMA CheckKeeps ==
  ASSUME HandleInv, Check
  PROVE  HandleInv'
<1> USE DEF HandleInv, NoregIsFinal, HandleWhileTrying, RemovedLeavesNothing,
            RegState, regVars, pingVars
<1>1. CASE Purge
  BY <1>1 DEF Purge, Unregistered
<1>2. CASE Read
  BY <1>2 DEF Read
<1>3. CASE SawNoreg
  BY <1>3 DEF SawNoreg, Saw
<1>4. CASE SawRegister
  BY <1>4 DEF SawRegister, Saw
<1>5. CASE SawUnregister
  BY <1>5 DEF SawUnregister, Saw
<1>6. CASE Send
  BY <1>6 DEF Send, HandleReady
<1>7. CASE Sent
  BY <1>7 DEF Sent, Saw
<1>8. CASE SawTimeout
  BY <1>8 DEF SawTimeout, Saw
<1>9. CASE SawFailed
  BY <1>9 DEF SawFailed, Saw
<1>10. CASE SawFailWait
  BY <1>10 DEF SawFailWait, Ends, Saw
<1>11. CASE SawTrying
  BY <1>11 DEF SawTrying, Ends, Saw
<1>12. CASE SawReged
  BY <1>12 DEF SawReged, Ends, Saw
<1> QED
  BY <1>1, <1>2, <1>3, <1>4, <1>5, <1>6, <1>7, <1>8, <1>9, <1>10, <1>11, <1>12 DEF Check

\* The handle invariant holds in every reachable state.
THEOREM HandleInvariant == Spec => []HandleInv
<1>1. HandleInv /\ [Next]_vars => HandleInv'
  <2> SUFFICES ASSUME HandleInv, [Next]_vars
               PROVE  HandleInv'
    OBVIOUS
  <2>1. CASE Check
    BY <2>1, CheckKeeps
  <2>2. CASE \E w \in Worker : Dispatch(w) \/ Finish(w) \/ PingDispatch(w) \/ OperatorFinds(w)
    BY <2>2, WorkerKeeps
  <2>3. CASE OperatorTellsAll
    BY <2>3, TellsAllKeeps
  <2>4. CASE StackAnswers \/ StackRefreshes \/ \E d \in Deadline : TimePasses(d)
    BY <2>4, StackKeeps
  <2>5. CASE UNCHANGED vars
    BY <2>5 DEF vars, HandleInv, NoregIsFinal, HandleWhileTrying, RemovedLeavesNothing
  <2> QED BY <2>1, <2>2, <2>3, <2>4, <2>5 DEF Next
<1> QED BY <1>1, HandleInit, PTL DEF Spec

\* sofia_reg_check_gateway never works with a handle that is not there.
THEOREM HandleExists == Spec => []HandleWhileTrying
<1>1. HandleInv => HandleWhileTrying
  BY DEF HandleInv
<1> QED BY <1>1, HandleInvariant, PTL

\* A gateway removed from the list leaves no handle registered in the stack.
THEOREM RemovalIsClean == Spec => []RemovedLeavesNothing
<1>1. HandleInv => RemovedLeavesNothing
  BY DEF HandleInv
<1> QED BY <1>1, HandleInvariant, PTL

-----------------------------------------------------------------------------
(***************************************************************************)
(* Types.  The answers that wait are a sequence of records, however the    *)
(* check takes answers out of it or marks them; the count of answered      *)
(* pings stays within ping_max, which takes a worker that looks at it      *)
(* before it adds.                                                         *)
(***************************************************************************)

Answers == [ok : BOOLEAN, late : BOOLEAN]

\* Late answers come first: they were all in the queue when their handle timed out.
LateFirst == \A i, j \in 1..Len(queue) : i < j /\ queue[j].late => queue[i].late

\* What sofia_reg_kill_reg leaves in the queue is a part of it.
LEMMA LateOnesType ==
  ASSUME queue \in Seq(Answers)
  PROVE  /\ LateOnes \in Seq(Answers)
         /\ Len(LateOnes) <= Len(queue)
         /\ \A i \in 1..Len(LateOnes) : LateOnes[i] = queue[i]
<1> DEFINE L == {i \in 1..Len(queue) : queue[i].late}
<1>1. Len(queue) \in Nat
  OBVIOUS
<1>2. IsFiniteSet(1..Len(queue)) /\ Cardinality(1..Len(queue)) = Len(queue)
  BY <1>1, FS_Interval
<1>3. Cardinality(L) \in Nat /\ Cardinality(L) <= Len(queue)
  BY <1>2, FS_Subset, FS_CardinalityType
<1> HIDE DEF L
<1>4. /\ SubSeq(queue, 1, Cardinality(L)) \in Seq(Answers)
      /\ Len(SubSeq(queue, 1, Cardinality(L))) = Cardinality(L)
      /\ \A i \in 1..Cardinality(L) : SubSeq(queue, 1, Cardinality(L))[i] = queue[i]
  BY <1>1, <1>3
<1> QED BY <1>3, <1>4 DEF L, LateOnes

\* parse_gateways.
LEMMA GwTypesInit == Init => GwTypeOK
<1> SUFFICES ASSUME Init
             PROVE  GwTypeOK
  OBVIOUS
<1>1. state \in RegState /\ status \in {"UP", "DOWN"}
  BY DEF Init, RegState
<1>2. queue \in Seq([ok : BOOLEAN, late : BOOLEAN]) /\ ahead \in SUBSET Deadline
  BY DEF Init, Deadline
<1>3. asked \in 0 .. MaxAsked /\ ping_count \in 0 .. PingMax /\ expires \in Int
  BY GatewayAssumption DEF Init
<1>4. task \in [Worker -> Task]
  BY DEF Init, Task
<1> QED BY <1>1, <1>2, <1>3, <1>4 DEF Init, GwTypeOK

\* The stack, the registrar and the clock.
LEMMA StackTypes ==
  ASSUME GwTypeOK, StackAnswers \/ StackRefreshes \/ \E d \in Deadline : TimePasses(d)
  PROVE  GwTypeOK'
<1> USE GatewayAssumption DEF GwTypeOK, pingVars
<1>1. CASE StackAnswers
  BY <1>1 DEF StackAnswers
<1>2. CASE StackRefreshes
  BY <1>2 DEF StackRefreshes
<1>3. CASE \E d \in Deadline : TimePasses(d)
  BY <1>3 DEF TimePasses
<1> QED BY <1>1, <1>2, <1>3

\* Workers and operators.
LEMMA WorkerTypes ==
  ASSUME NEW w \in Worker, GwTypeOK,
         Dispatch(w) \/ PingDispatch(w) \/ OperatorFinds(w) \/ Finish(w)
  PROVE  GwTypeOK'
<1> USE GatewayAssumption DEF GwTypeOK, regVars, pingVars
<1>1. CASE Dispatch(w)
  BY <1>1 DEF Dispatch, Task
<1>2. CASE PingDispatch(w)
  BY <1>2 DEF PingDispatch, Task
<1>3. CASE OperatorFinds(w)
  BY <1>3 DEF OperatorFinds, Task
<1>4. CASE Finish(w)
  <2>1. CASE Registered(w)
    <3>1. \A e \in Grants \cup {0} : GrantedDelta(e) \in Int
      BY DEF GrantedDelta
    <3> QED BY <2>1, <3>1 DEF Registered, Task, RegState, Deadline
  <2>2. CASE Refused(w)
    BY <2>2 DEF Refused, Write, Task, RegState
  <2>3. CASE PingState(w)
    BY <2>3 DEF PingState, Task, RegState
  <2>4. CASE PingCount(w)
    <3>1. /\ UNCHANGED <<state, deleted, listed, nh, asked, queue, expires, granted, check>>
          /\ ahead' \in SUBSET Deadline /\ pinging' \in BOOLEAN /\ task' \in [Worker -> Task]
      BY <2>4 DEF PingCount, Task, Deadline
    <3>2. status' \in {"UP", "DOWN"}
      BY <2>4 DEF PingCount
    <3>3. ping_count' \in 0 .. PingMax
      BY <2>4 DEF PingCount, RoomToCount
    <3> QED BY <3>1, <3>2, <3>3
  <2>5. CASE OperatorRegisters(w)
    BY <2>5 DEF OperatorRegisters, Write, Forget, Task, RegState
  <2>6. CASE OperatorUnregisters(w)
    BY <2>6 DEF OperatorUnregisters, Write, Forget, Task, RegState
  <2>7. CASE OperatorKills(w)
    BY <2>7 DEF OperatorKills, Task, RegState
  <2> QED BY <1>4, <2>1, <2>2, <2>3, <2>4, <2>5, <2>6, <2>7 DEF Finish
<1> QED BY <1>1, <1>2, <1>3, <1>4

\* The check.
LEMMA CheckTypes ==
  ASSUME GwTypeOK, Check \/ OperatorTellsAll
  PROVE  GwTypeOK'
<1> USE GatewayAssumption DEF GwTypeOK, regVars, pingVars
<1>1. CASE Purge
  BY <1>1 DEF Purge
<1>2. CASE Read
  BY <1>2 DEF Read
<1>3. CASE SawNoreg
  BY <1>3 DEF SawNoreg, Saw
<1>4. CASE SawRegister
  <2>1. RefreshDelta \in Int
    BY DEF RefreshDelta
  <2> QED BY <1>4, <2>1 DEF SawRegister, Saw, RegState, Deadline
<1>5. CASE SawUnregister
  <2>1. queue' \in Seq(Answers)
    <3>1. queue \in Seq(Answers) /\ <<>> \in Seq(Answers)
      BY DEF Answers
    <3> QED BY <1>5, <3>1, LateOnesType DEF SawUnregister
  <2> QED BY <1>5, <2>1 DEF SawUnregister, Saw, RegState, Answers
<1>6. CASE Send
  BY <1>6 DEF Send, HandleReady, Deadline
<1>7. CASE Sent
  BY <1>7 DEF Sent, Saw, RegState, Deadline
<1>8. CASE SawTimeout
  <2>1. \A i \in 1..Len(queue) : [queue[i] EXCEPT !.late = TRUE] \in Answers
    <3>1. \A i \in 1..Len(queue) : queue[i] \in Answers
      <4>1. queue \in Seq(Answers)
        BY DEF Answers
      <4> QED BY <4>1
    <3>2. \A a \in Answers : [a EXCEPT !.late = TRUE] \in Answers
      BY DEF Answers
    <3> QED BY <3>1, <3>2
  <2>2. queue' \in Seq(Answers)
    BY <1>8, <2>1 DEF SawTimeout
  <2> QED BY <1>8, <2>2 DEF SawTimeout, Saw, RegState, Answers
<1>9. CASE SawFailed
  BY <1>9 DEF SawFailed, Saw, RegState, Deadline
<1>10. CASE SawFailWait \/ SawTrying \/ SawReged
  BY <1>10 DEF SawFailWait, SawTrying, SawReged, Ends, Saw, RegState
<1>11. CASE OperatorTellsAll
  BY <1>11 DEF OperatorTellsAll, Forget, RegState
<1> QED
  BY <1>1, <1>2, <1>3, <1>4, <1>5, <1>6, <1>7, <1>8, <1>9, <1>10, <1>11 DEF Check

\* The values that the state of a gateway takes.
THEOREM GatewayTypes == Spec => []GwTypeOK
<1>1. GwTypeOK /\ [Next]_vars => GwTypeOK'
  <2> SUFFICES ASSUME GwTypeOK, [Next]_vars
               PROVE  GwTypeOK'
    OBVIOUS
  <2>1. CASE Next
    BY <2>1, CheckTypes, WorkerTypes, StackTypes DEF Next
  <2>2. CASE UNCHANGED vars
    BY <2>2 DEF vars, GwTypeOK
  <2> QED BY <2>1, <2>2
<1> QED BY <1>1, GwTypesInit, PTL DEF Spec

\* sofia_reg_kill_reg leaves the answers of a handle that timed out, and no
\* others: they are the first in the queue (LateOnes), because all that wait are
\* marked at once and later answers come behind them.
THEOREM LateAnswersFirst == Spec => []LateFirst
<1>1. Init => LateFirst
  BY DEF Init, LateFirst
<1>2. GwTypeOK /\ LateFirst /\ [Next]_vars => LateFirst'
  <2> SUFFICES ASSUME GwTypeOK, LateFirst, [Next]_vars
               PROVE  LateFirst'
    OBVIOUS
  <2>1. queue \in Seq(Answers)
    BY DEF GwTypeOK, Answers
  <2>2. CASE StackAnswers
    <3>1. PICK ok \in BOOLEAN : queue' = Append(queue, [ok |-> ok, late |-> FALSE])
      BY <2>2 DEF StackAnswers
    <3> QED BY <2>1, <3>1 DEF LateFirst
  <2>3. CASE \E w \in Worker : Dispatch(w)
    BY <2>1, <2>3 DEF Dispatch, LateFirst
  <2>4. CASE SawUnregister
    <3>1. CASE queue' = <<>>
      BY <3>1 DEF LateFirst
    <3>2. CASE queue' = LateOnes
      BY <2>1, <3>2, LateOnesType DEF LateFirst
    <3> QED BY <2>4, <3>1, <3>2 DEF SawUnregister, LateFirst
  <2>5. CASE SawTimeout
    <3>1. Len(queue') = Len(queue) /\ \A i \in 1..Len(queue) : queue'[i].late
      <4>1. \A i \in 1..Len(queue) : queue[i] \in Answers
        BY <2>1
      <4>2. \A a \in Answers : [a EXCEPT !.late = TRUE] \in Answers /\ [a EXCEPT !.late = TRUE].late
        BY DEF Answers
      <4>3. queue' = [i \in 1..Len(queue) |-> [queue[i] EXCEPT !.late = TRUE]]
        BY <2>5 DEF SawTimeout
      <4>4. \A i \in 1..Len(queue) : queue'[i] \in Answers /\ queue'[i].late
        BY <4>1, <4>2, <4>3
      <4>5. DOMAIN queue' = 1..Len(queue) /\ queue' \in Seq(Answers)
        BY <2>1, <4>3, <4>4
      <4>6. DOMAIN queue' = 1..Len(queue') /\ Len(queue) \in Nat /\ Len(queue') \in Nat
        BY <2>1, <4>5
      <4> QED BY <4>4, <4>5, <4>6
    <3> QED BY <3>1 DEF LateFirst
  <2>6. CASE UNCHANGED queue
    BY <2>6 DEF LateFirst
  <2> QED BY <2>2, <2>3, <2>4, <2>5, <2>6
      DEF Next, Check, Finish, Purge, Read, SawNoreg, SawRegister, Send, Sent, SawFailed,
          SawFailWait, SawTrying, SawReged, Ends, Saw, Registered, Refused, Write, PingState,
          PingCount, OperatorRegisters, OperatorUnregisters, OperatorKills, Forget, PingDispatch,
          OperatorFinds, OperatorTellsAll, StackRefreshes, TimePasses, regVars, pingVars, vars
<1> QED BY <1>1, <1>2, GatewayTypes, PTL DEF Spec
=============================================================================
