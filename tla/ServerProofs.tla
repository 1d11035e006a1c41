---------------------------- MODULE ServerProofs ----------------------------
(***************************************************************************)
(* Proofs about Server, for any number of requests and permits, any work   *)
(* and any grace period: permits are conserved, and the grace period       *)
(* suffices for the resolutions shorter than it.                           *)
(***************************************************************************)
EXTENDS Server, FiniteSetTheorems, TLAPS

HoldingPc == {"reading", "spawned", "resolving", "keys"}
WorkingPc == {"spawned", "resolving", "keys"}

Task == [pc : {"idle", "queued", "refused", "reading", "spawned",
               "resolving", "keys", "done", "lost"},
         work : Work \cup {0}, left : Nat, reply : Reply]

(***************************************************************************)
(* What a step of one request's task does to the permits.                  *)
(***************************************************************************)
Gains(q, t) ==
    /\ task[q].pc \notin HoldingPc /\ t.pc \in HoldingPc
    /\ permits[Pool(q)] > 0
    /\ permits' = [permits EXCEPT ![Pool(q)] = @ - 1]

Keeps(q, t) ==
    /\ task[q].pc \in HoldingPc <=> t.pc \in HoldingPc
    /\ permits' = permits

Gives(q, t) ==
    /\ task[q].pc \in HoldingPc /\ t.pc \notin HoldingPc
    /\ permits' = [permits EXCEPT ![Pool(q)] = @ + 1]

(***************************************************************************)
(* And to its work: it starts while the UDP server serves, goes on with    *)
(* the work it had, or is over.                                            *)
(***************************************************************************)
Works(q, t) ==
    \/ udp = "serving" /\ t.work \in Work /\ t.left = t.work
    \/ task[q].pc \in WorkingPc /\ t.work = task[q].work /\ t.left = task[q].left
    \/ q \notin UdpQuery

RequestStep(q) == Run(q) \/ Send(q) \/ Read(q) \/ ReadFails(q)

TaskStep(q) ==
    /\ Up /\ UNCHANGED process
    /\ \E t \in Task :
          /\ task' = [task EXCEPT ![q] = t]
          /\ t.pc # "lost"
          /\ Gains(q, t) \/ Keeps(q, t) \/ Gives(q, t)
          /\ t.pc \in WorkingPc => Works(q, t)
          /\ q \in UdpQuery /\ t.pc \notin WorkingPc => t.work = 0 /\ t.pc # "reading"

(***************************************************************************)
(* The inductive invariants.  Idle work is none; a datagram's remaining    *)
(* work is part of its work, and during the grace period the work done     *)
(* since covers the ticks that passed.                                     *)
(***************************************************************************)
IdleWork ==
    Up => \A q \in UdpQuery : /\ ~ At(q, "lost") /\ ~ At(q, "reading")
                              /\ ~ Working(q) => task[q].work = 0

WorkInv ==
    /\ \A q \in UdpQuery : Working(q) => task[q].left <= task[q].work
    /\ main # "running" /\ tcp # "failed" => udp \in {"stopped", "failed"}
    /\ main = "grace" /\ mode = "process" /\ tcp # "failed" =>
          \A q \in UdpQuery : Working(q) => Grace + task[q].left <= grace + task[q].work

IInv == TypeOK /\ PermitsConserved /\ IdleWork /\ WorkInv /\ GraceSuffices

-----------------------------------------------------------------------------
\* The end of a task (Finish) is a step that gives the permit back.
LEMMA FinishStep ==
    ASSUME ServerAssumption, TypeOK, NEW q \in Request, NEW r \in Reply,
           Up, task[q].pc \in HoldingPc, Finish(q, r)
    PROVE  TaskStep(q)
<1> DEFINE t == Ended(q, r)
<1>1. t \in Task /\ t.pc \in {"done", "idle"} /\ t.work = 0
  BY DEF Ended, Fresh, Task, Reply, Sent
<1>2. task' = [task EXCEPT ![q] = t] /\ Gives(q, t) /\ UNCHANGED process
  BY <1>1 DEF Finish, Gives, HoldingPc
<1> QED
  BY <1>1, <1>2 DEF TaskStep, WorkingPc

\* Going on from one await of the task to the next (Goto) keeps permit and work.
LEMMA GotoStep ==
    ASSUME ServerAssumption, TypeOK, NEW q \in Request, NEW pc \in WorkingPc, Up,
           task[q].pc \in WorkingPc \/ (task[q].pc = "reading" /\ q \notin UdpQuery),
           Goto(q, pc)
    PROVE  TaskStep(q)
<1> DEFINE t == [task[q] EXCEPT !.pc = pc]
<1>1. task[q] \in Task
  BY DEF TypeOK, Task
<1>2. t \in Task /\ t.pc = pc /\ t.work = task[q].work /\ t.left = task[q].left
  BY <1>1 DEF Task, WorkingPc
<1>3. task' = [task EXCEPT ![q] = t] /\ Keeps(q, t) /\ UNCHANGED process
  BY <1>2 DEF Goto, Keeps, HoldingPc, WorkingPc
<1>4. Works(q, t)
  BY <1>2 DEF Works
<1> QED
  BY <1>2, <1>3, <1>4 DEF TaskStep, WorkingPc

\* Every step of a request (handle_recv, run_tcp_server, handle_query and
\* handle_tcp_connection) takes, keeps or gives back one permit of its pool.
LEMMA RequestIsTaskStep ==
    ASSUME ServerAssumption, TypeOK, IdleWork, NEW q \in Request, RequestStep(q)
    PROVE  TaskStep(q)
<1>t. task[q] \in Task
  BY DEF TypeOK, Task
<1>w. Work \subseteq Nat
  BY DEF ServerAssumption
<1>1. CASE Send(q)
  <2> DEFINE t == [task[q] EXCEPT !.pc = "queued"]
  <2>1. t \in Task /\ t.pc = "queued" /\ t.work = task[q].work
    BY <1>t DEF Task
  <2>2. task' = [task EXCEPT ![q] = t] /\ Keeps(q, t) /\ Up /\ UNCHANGED process
    BY <1>1, <2>1 DEF Send, At, Keeps, HoldingPc
  <2>3. q \in UdpQuery => t.work = 0
    BY <1>1, <2>1, <2>2 DEF Send, At, IdleWork, Working
  <2> QED
    BY <2>1, <2>2, <2>3 DEF TaskStep, WorkingPc
<1>2. CASE handle_recv(q)
  <2>1. PICK w \in Work :
            task' = [task EXCEPT ![q].pc = "spawned", ![q].work = w, ![q].left = w]
    BY <1>2 DEF handle_recv
  <2> DEFINE t == [task[q] EXCEPT !.pc = "spawned", !.work = w, !.left = w]
  <2>2. t \in Task /\ t.pc = "spawned" /\ t.work = w /\ t.left = w
    BY <1>t, <1>w DEF Task
  <2>3. task' = [task EXCEPT ![q] = t]
    BY <2>1 DEF TypeOK
  <2>4. Gains(q, t) /\ Works(q, t) /\ Up /\ UNCHANGED process
    BY <1>2, <2>2 DEF handle_recv, Acquire, At, Gains, Works, HoldingPc
  <2> QED
    BY <2>2, <2>3, <2>4 DEF TaskStep, WorkingPc
<1>3. CASE AtCapacity(q)
  <2>1. CASE task' = [task EXCEPT ![q].pc = "refused"]
    <3> DEFINE t == [task[q] EXCEPT !.pc = "refused"]
    <3>1. t \in Task /\ t.pc = "refused" /\ t.work = task[q].work
      BY <1>t DEF Task
    <3>2. task' = [task EXCEPT ![q] = t] /\ Keeps(q, t) /\ Up /\ UNCHANGED process
      BY <1>3, <2>1, <3>1 DEF AtCapacity, At, Keeps, HoldingPc
    <3>3. t.work = 0
      BY <1>3, <3>1, <3>2 DEF AtCapacity, At, IdleWork, Working
    <3> QED
      BY <3>1, <3>2, <3>3 DEF TaskStep, WorkingPc
  <2>2. CASE task' = [task EXCEPT ![q] = Ended(q, "ignored")]
    <3> DEFINE t == Ended(q, "ignored")
    <3>1. t \in Task /\ t.pc \in {"done", "idle"} /\ t.work = 0
      BY DEF Ended, Fresh, Task, Reply
    <3>2. Keeps(q, t) /\ Up /\ UNCHANGED process
      BY <1>3, <3>1 DEF AtCapacity, At, Keeps, HoldingPc
    <3> QED
      BY <2>2, <3>1, <3>2 DEF TaskStep, WorkingPc
  <2> QED
    BY <1>3, <2>1, <2>2 DEF AtCapacity
<1>4. CASE SendRefusal(q)
  <2> DEFINE t == Ended(q, "SERVFAIL")
  <2>1. t \in Task /\ t.pc \in {"done", "idle"} /\ t.work = 0
    BY DEF Ended, Fresh, Task, Reply, Sent
  <2>2. task' = [task EXCEPT ![q] = t] /\ Keeps(q, t) /\ Up /\ UNCHANGED process
    BY <1>4, <2>1 DEF SendRefusal, At, Keeps, HoldingPc
  <2> QED
    BY <2>1, <2>2 DEF TaskStep, WorkingPc
<1>5. CASE Accept(q)
  <2> DEFINE t == [task[q] EXCEPT !.pc = "reading"]
  <2>1. t \in Task /\ t.pc = "reading"
    BY <1>t DEF Task
  <2>2. task' = [task EXCEPT ![q] = t] /\ Gains(q, t) /\ Up /\ UNCHANGED process
    BY <1>5, <2>1 DEF Accept, Acquire, At, Gains, HoldingPc
  <2>3. q \notin UdpQuery
    BY <1>5 DEF Accept, ServerAssumption
  <2> QED
    BY <2>1, <2>2, <2>3 DEF TaskStep, WorkingPc
<1>6. CASE Reject(q)
  <2>1. Fresh \in Task /\ Fresh.pc = "idle" /\ Fresh.work = 0
    BY DEF Fresh, Task, Reply
  <2>2. task' = [task EXCEPT ![q] = Fresh] /\ Keeps(q, Fresh) /\ Up /\ UNCHANGED process
    BY <1>6, <2>1 DEF Reject, At, Keeps, HoldingPc
  <2> QED
    BY <2>1, <2>2 DEF TaskStep, WorkingPc
<1>7. CASE Decode(q)
  <2>1. task[q].pc = "spawned" /\ Up /\ Decoded(q)
    BY <1>7 DEF Decode, At
  <2> QED
    BY <2>1, FinishStep, GotoStep DEF Decoded, HoldingPc, WorkingPc, Reply, Sent
<1>8. CASE Read(q)
  <2>1. task[q].pc = "reading" /\ Up /\ Decoded(q)
    BY <1>8 DEF Read, At
  <2>2. q \notin UdpQuery
    BY <2>1 DEF IdleWork, At
  <2> QED
    BY <2>1, <2>2, FinishStep, GotoStep DEF Decoded, HoldingPc, WorkingPc, Reply, Sent
<1>9. CASE ReadFails(q)
  <2>1. task[q].pc = "reading" /\ Up /\ Finish(q, "none")
    BY <1>9 DEF ReadFails, At
  <2> QED
    BY <2>1, FinishStep DEF HoldingPc, Reply
<1>10. CASE ResolveKeys(q)
  <2>1. task[q].pc = "resolving" /\ Up /\ Goto(q, "keys")
    BY <1>10 DEF ResolveKeys, At
  <2> QED
    BY <2>1, GotoStep DEF WorkingPc
<1>11. CASE ResolveFails(q) \/ TcpResolveFails(q) \/ TcpWriteFails(q)
  <2>1. task[q].pc \in HoldingPc /\ Up /\ (\E r \in Reply : Finish(q, r))
    BY <1>11 DEF ResolveFails, TcpResolveFails, TcpWriteFails, At, HoldingPc, Reply, Sent
  <2> QED
    BY <2>1, FinishStep
<1>12. CASE \E size \in Sizes : ResolveOk(q, size) \/ AddKeys(q, size)
  <2>1. PICK size \in Sizes : ResolveOk(q, size) \/ AddKeys(q, size)
    BY <1>12
  <2>2. Respond(q, size) \in Reply
    BY DEF Respond, Reply, Sent
  <2>3. task[q].pc \in HoldingPc /\ Up /\ Finish(q, Respond(q, size))
    BY <2>1 DEF ResolveOk, AddKeys, At, HoldingPc
  <2> QED
    BY <2>2, <2>3, FinishStep
<1> QED
  BY <1>1, <1>2, <1>3, <1>4, <1>5, <1>6, <1>7, <1>8, <1>9, <1>10, <1>11, <1>12
     DEF RequestStep, Run

-----------------------------------------------------------------------------
\* Spawning a task and dropping its permit change the number of tasks at work by
\* one, in the pool of the request only.
LEMMA InUseStep ==
    ASSUME NEW S \in SUBSET Request, IsFiniteSet(S), TypeOK,
           NEW q \in Request, NEW t, task' = [task EXCEPT ![q] = t]
    PROVE  /\ InUse(S) \in Nat
           /\ q \notin S \/ (task[q].pc \in HoldingPc <=> t.pc \in HoldingPc) =>
                InUse(S)' = InUse(S)
           /\ q \in S /\ task[q].pc \notin HoldingPc /\ t.pc \in HoldingPc =>
                InUse(S)' = InUse(S) + 1
           /\ q \in S /\ task[q].pc \in HoldingPc /\ t.pc \notin HoldingPc =>
                InUse(S)' = InUse(S) - 1
<1> DEFINE H == {r \in S : task[r].pc \in HoldingPc}
           G == {r \in S : task'[r].pc \in HoldingPc}
<1>1. InUse(S) = Cardinality(H) /\ InUse(S)' = Cardinality(G)
  BY DEF InUse, Holding, HoldingPc
<1>2. IsFiniteSet(H) /\ Cardinality(H) \in Nat
  BY FS_Subset, FS_CardinalityType
<1>3. \A r \in S : task'[r] = IF r = q THEN t ELSE task[r]
  BY DEF TypeOK
<1>4. q \notin S \/ (task[q].pc \in HoldingPc <=> t.pc \in HoldingPc) => G = H
  BY <1>3
<1>5. ASSUME q \in S, task[q].pc \notin HoldingPc, t.pc \in HoldingPc
      PROVE  Cardinality(G) = Cardinality(H) + 1
  <2>1. G = H \cup {q} /\ q \notin H
    BY <1>3, <1>5
  <2> QED
    BY <1>2, <2>1, FS_AddElement
<1>6. ASSUME q \in S, task[q].pc \in HoldingPc, t.pc \notin HoldingPc
      PROVE  Cardinality(G) = Cardinality(H) - 1
  <2>1. G = H \ {q} /\ q \in H
    BY <1>3, <1>6
  <2> HIDE DEF H, G
  <2>2. Cardinality(H \ {q}) = IF q \in H THEN Cardinality(H) - 1 ELSE Cardinality(H)
    BY <1>2, FS_RemoveElement
  <2> QED
    BY <2>1, <2>2
<1> HIDE DEF H, G
<1> QED
  BY <1>1, <1>2, <1>4, <1>5, <1>6

\* A step of a request conserves the permits of both pools.
LEMMA TaskStepConserves ==
    ASSUME ServerAssumption, TypeOK, PermitsConserved, NEW q \in Request, TaskStep(q)
    PROVE  PermitsConserved'
<1>1. PICK t \in Task :
        /\ task' = [task EXCEPT ![q] = t]
        /\ Gains(q, t) \/ Keeps(q, t) \/ Gives(q, t)
  BY DEF TaskStep
<1>2. /\ permits.udp + InUse(UdpQuery) = MaxConcurrentQueries
      /\ permits.tcp + InUse(TcpConn) = MaxConnections
  BY DEF TaskStep, PermitsConserved
<1>3. /\ permits \in [{"udp", "tcp"} -> Nat]
      /\ permits.udp \in Nat /\ permits.tcp \in Nat
  BY DEF TypeOK
<1>4. UdpQuery \in SUBSET Request /\ TcpConn \in SUBSET Request
      /\ IsFiniteSet(UdpQuery) /\ IsFiniteSet(TcpConn)
  BY DEF Request, ServerAssumption
<1>5. CASE q \in UdpQuery
  <2>1. q \notin TcpConn /\ Pool(q) = "udp"
    BY <1>5 DEF ServerAssumption, Pool
  <2>2. InUse(TcpConn)' = InUse(TcpConn) /\ permits'.tcp = permits.tcp
    BY <1>1, <1>3, <1>4, <2>1, InUseStep DEF Gains, Keeps, Gives
  <2>3. permits'.udp + InUse(UdpQuery)' = permits.udp + InUse(UdpQuery)
    <3>1. InUse(UdpQuery) \in Nat
      BY <1>1, <1>4, InUseStep
    <3>2. CASE Gains(q, t)
      <4>1. permits'.udp = permits.udp - 1 /\ InUse(UdpQuery)' = InUse(UdpQuery) + 1
        BY <1>1, <1>3, <1>4, <1>5, <2>1, <3>2, InUseStep DEF Gains
      <4> QED
        BY <1>3, <3>1, <4>1
    <3>3. CASE Keeps(q, t)
      BY <1>1, <1>4, <3>3, InUseStep DEF Keeps
    <3>4. CASE Gives(q, t)
      <4>1. permits'.udp = permits.udp + 1 /\ InUse(UdpQuery)' = InUse(UdpQuery) - 1
        BY <1>1, <1>3, <1>4, <1>5, <2>1, <3>4, InUseStep DEF Gives
      <4> QED
        BY <1>3, <3>1, <4>1
    <3> QED
      BY <1>1, <3>2, <3>3, <3>4
  <2> QED
    BY <1>2, <2>2, <2>3 DEF PermitsConserved
<1>6. CASE q \in TcpConn
  <2>1. q \notin UdpQuery /\ Pool(q) = "tcp"
    BY <1>6 DEF ServerAssumption, Pool
  <2>2. InUse(UdpQuery)' = InUse(UdpQuery) /\ permits'.udp = permits.udp
    BY <1>1, <1>3, <1>4, <2>1, InUseStep DEF Gains, Keeps, Gives
  <2>3. permits'.tcp + InUse(TcpConn)' = permits.tcp + InUse(TcpConn)
    <3>1. InUse(TcpConn) \in Nat
      BY <1>1, <1>4, InUseStep
    <3>2. CASE Gains(q, t)
      <4>1. permits'.tcp = permits.tcp - 1 /\ InUse(TcpConn)' = InUse(TcpConn) + 1
        BY <1>1, <1>3, <1>4, <1>6, <2>1, <3>2, InUseStep DEF Gains
      <4> QED
        BY <1>3, <3>1, <4>1
    <3>3. CASE Keeps(q, t)
      BY <1>1, <1>4, <3>3, InUseStep DEF Keeps
    <3>4. CASE Gives(q, t)
      <4>1. permits'.tcp = permits.tcp + 1 /\ InUse(TcpConn)' = InUse(TcpConn) - 1
        BY <1>1, <1>3, <1>4, <1>6, <2>1, <3>4, InUseStep DEF Gives
      <4> QED
        BY <1>3, <3>1, <4>1
    <3> QED
      BY <1>1, <3>2, <3>3, <3>4
  <2> QED
    BY <1>2, <2>2, <2>3 DEF PermitsConserved
<1> QED
  BY <1>5, <1>6 DEF Request

-----------------------------------------------------------------------------
\* Every variable keeps its type.
LEMMA TypeStep ==
    ASSUME ServerAssumption, TypeOK, IdleWork, [Next]_vars
    PROVE  TypeOK'
<1>1. ASSUME NEW q \in Request, RequestStep(q)
      PROVE  TypeOK'
  <2>1. PICK t \in Task :
          /\ UNCHANGED process
          /\ task' = [task EXCEPT ![q] = t]
          /\ Gains(q, t) \/ Keeps(q, t) \/ Gives(q, t)
    BY <1>1, RequestIsTaskStep DEF TaskStep
  <2>2. task' \in [Request -> Task]
    BY <2>1 DEF TypeOK, Task
  <2>3. permits' \in [{"udp", "tcp"} -> Nat]
    BY <2>1 DEF TypeOK, Gains, Keeps, Gives, Pool
  <2> QED
    BY <2>1, <2>2, <2>3 DEF TypeOK, Task, process
<1>2. CASE UdpBind \/ TcpBind \/ UdpStop \/ MainSelect
  BY <1>2 DEF TypeOK, UdpBind, TcpBind, UdpStop, MainSelect, ServerAssumption
<1>3. CASE SetCancel \/ RelayStop \/ Signal \/ ServiceStop
  BY <1>3 DEF TypeOK, SetCancel, RelayStop, Signal, ServiceStop, Stopping, Cancelling
<1>4. CASE Exit
  <2>1. \A q \in Request : task'[q] \in Task
    BY <1>4 DEF TypeOK, Task, Exit, At, Fresh, Reply
  <2>2. task' \in [Request -> Task]
    BY <1>4, <2>1 DEF Exit
  <2> QED
    BY <1>4, <2>2 DEF TypeOK, Task, Exit
<1>5. CASE Tick
  <2>1. \A q \in Request : task'[q] \in Task
    BY <1>5 DEF TypeOK, Task, Tick
  <2>2. task' \in [Request -> Task]
    BY <1>5, <2>1 DEF Tick
  <2>3. grace' \in 0 .. Grace
    BY <1>5 DEF TypeOK, Tick, ServerAssumption
  <2> QED
    BY <1>5, <2>2, <2>3 DEF TypeOK, Task, Tick
<1>6. CASE UNCHANGED vars
  BY <1>6 DEF TypeOK, vars
<1> QED
  BY <1>1, <1>2, <1>3, <1>4, <1>5, <1>6 DEF Next, Lifecycle, RequestStep

\* No step of main or of time changes the number of tasks at work while the
\* process is up.
LEMMA ConservedStep ==
    ASSUME ServerAssumption, TypeOK, IdleWork, PermitsConserved, [Next]_vars
    PROVE  PermitsConserved'
<1>1. ASSUME NEW q \in Request, RequestStep(q)
      PROVE  PermitsConserved'
  BY <1>1, RequestIsTaskStep, TaskStepConserves
<1>2. ASSUME UNCHANGED permits, Up' => Up, Up' => \A q \in Request : task'[q].pc = task[q].pc
      PROVE  PermitsConserved'
  <2> SUFFICES ASSUME Up' PROVE PermitsConserved'
    BY DEF PermitsConserved
  <2>1. \A S \in SUBSET Request : {q \in S : Holding(q)}' = {q \in S : Holding(q)}
    BY <1>2 DEF Holding
  <2>2. InUse(UdpQuery)' = InUse(UdpQuery) /\ InUse(TcpConn)' = InUse(TcpConn)
    BY <2>1 DEF InUse, Request
  <2> QED
    BY <1>2, <2>2 DEF PermitsConserved
<1>3. CASE UdpBind \/ TcpBind \/ UdpStop \/ MainSelect
  BY <1>2, <1>3 DEF UdpBind, TcpBind, UdpStop, MainSelect, Up
<1>4. CASE SetCancel \/ RelayStop \/ Signal \/ ServiceStop
  BY <1>2, <1>4 DEF SetCancel, RelayStop, Signal, ServiceStop, Stopping, Cancelling, Up
<1>5. CASE Exit
  BY <1>2, <1>5 DEF Exit, Up
<1>6. CASE Tick
  <2>1. \A q \in Request : task'[q].pc = task[q].pc
    BY <1>6 DEF Tick, TypeOK
  <2> QED
    BY <1>2, <1>6, <2>1 DEF Tick, Up
<1>7. CASE UNCHANGED vars
  BY <1>2, <1>7 DEF vars, Up
<1> QED
  BY <1>1, <1>3, <1>4, <1>5, <1>6, <1>7 DEF Next, Lifecycle, RequestStep

-----------------------------------------------------------------------------
\* A datagram has work only while its task runs (handle_recv to handle_query).
LEMMA IdleStep ==
    ASSUME ServerAssumption, TypeOK, IdleWork, [Next]_vars
    PROVE  IdleWork'
<1>1. ASSUME NEW q \in Request, RequestStep(q)
      PROVE  IdleWork'
  <2>1. PICK t \in Task :
          /\ Up /\ UNCHANGED process
          /\ task' = [task EXCEPT ![q] = t]
          /\ t.pc # "lost"
          /\ q \in UdpQuery /\ t.pc \notin WorkingPc => t.work = 0 /\ t.pc # "reading"
    BY <1>1, RequestIsTaskStep DEF TaskStep
  <2>2. \A r \in UdpQuery : task'[r] = IF r = q THEN t ELSE task[r]
    BY <2>1 DEF TypeOK, Request
  <2> QED
    BY <2>1, <2>2 DEF IdleWork, At, Working, WorkingPc
<1>2. CASE UdpBind \/ TcpBind \/ UdpStop \/ MainSelect
  BY <1>2 DEF UdpBind, TcpBind, UdpStop, MainSelect, IdleWork, Up, At, Working
<1>3. CASE SetCancel \/ RelayStop \/ Signal \/ ServiceStop
  BY <1>3 DEF SetCancel, RelayStop, Signal, ServiceStop, Stopping, Cancelling,
              IdleWork, Up, At, Working
<1>4. CASE Exit
  BY <1>4 DEF Exit, IdleWork, Up
<1>5. CASE Tick
  <2>1. \A q \in UdpQuery : task'[q].pc = task[q].pc /\ task'[q].work = task[q].work
    BY <1>5 DEF Tick, TypeOK, Request
  <2> QED
    BY <1>5, <2>1 DEF Tick, IdleWork, Up, At, Working
<1>6. CASE UNCHANGED vars
  BY <1>6 DEF vars, IdleWork, Up, At, Working
<1> QED
  BY <1>1, <1>2, <1>3, <1>4, <1>5, <1>6 DEF Next, Lifecycle, RequestStep

\* A step of a request keeps the work invariant: no datagram is admitted once the
\* UDP server has stopped.
LEMMA TaskStepWork ==
    ASSUME ServerAssumption, TypeOK, WorkInv, NEW q \in Request, TaskStep(q)
    PROVE  WorkInv'
<1>1. PICK t \in Task :
        /\ UNCHANGED process
        /\ task' = [task EXCEPT ![q] = t]
        /\ t.pc \in WorkingPc => Works(q, t)
  BY DEF TaskStep
<1>2. \A r \in UdpQuery : task'[r] = IF r = q THEN t ELSE task[r]
  BY <1>1 DEF TypeOK, Request
<1>3. Work \subseteq Nat
  BY DEF ServerAssumption
<1>4. ASSUME NEW r \in UdpQuery, Working(r)'
      PROVE  task'[r].left <= task'[r].work
  <2>1. CASE r = q
    <3>1. task'[r] = t /\ t.pc \in WorkingPc
      BY <1>2, <1>4, <2>1 DEF Working, WorkingPc
    <3>2. \/ t.work \in Work /\ t.left = t.work
          \/ Working(r) /\ t.work = task[r].work /\ t.left = task[r].left
      BY <1>1, <2>1, <3>1 DEF Works, Working, WorkingPc
    <3>3. CASE t.work \in Work /\ t.left = t.work
      <4>1. \A n \in Nat : n <= n
        OBVIOUS
      <4>2. task'[r].work \in Nat /\ task'[r].left = task'[r].work
        BY <1>3, <3>1, <3>3, Zenon
      <4> QED
        BY <4>1, <4>2
    <3>4. CASE Working(r) /\ t.work = task[r].work /\ t.left = task[r].left
      BY <3>1, <3>4 DEF WorkInv
    <3> QED
      BY <3>2, <3>3, <3>4
  <2>2. CASE r # q
    BY <1>2, <1>4, <2>2 DEF WorkInv, Working
  <2> QED
    BY <2>1, <2>2
<1>5. ASSUME main = "grace", mode = "process", tcp # "failed", NEW r \in UdpQuery, Working(r)'
      PROVE  Grace + task'[r].left <= grace + task'[r].work
  <2>1. udp # "serving"
    BY <1>5 DEF WorkInv
  <2>2. task[r].pc \in WorkingPc /\ task'[r].work = task[r].work /\ task'[r].left = task[r].left
    BY <1>1, <1>2, <1>5, <2>1 DEF Works, Working, WorkingPc
  <2> QED
    BY <1>5, <2>2 DEF WorkInv, Working, WorkingPc
<1> QED
  BY <1>1, <1>4, <1>5 DEF WorkInv, process

\* So do main and time: at the start of the grace period no work is longer than
\* it was, and a tick takes one from every datagram's work and from the grace.
LEMMA WorkStep ==
    ASSUME ServerAssumption, TypeOK, IdleWork, WorkInv, [Next]_vars
    PROVE  WorkInv'
<1>1. ASSUME NEW q \in Request, RequestStep(q)
      PROVE  WorkInv'
  BY <1>1, RequestIsTaskStep, TaskStepWork
<1>t. \A q \in UdpQuery : task[q].left \in Nat /\ task[q].work \in Nat
  <2>1. Work \cup {0} \subseteq Nat
    BY DEF ServerAssumption
  <2>2. \A q \in UdpQuery : task[q].left \in Nat /\ task[q].work \in Work \cup {0}
    BY DEF TypeOK, Request
  <2> QED
    BY <2>1, <2>2
<1>g. grace \in Nat /\ Grace \in Nat
  BY DEF TypeOK, ServerAssumption
<1>2. CASE UdpBind \/ TcpBind \/ UdpStop
  BY <1>2 DEF UdpBind, TcpBind, UdpStop, WorkInv, Working
<1>3. CASE MainSelect
  BY <1>3, <1>t, <1>g DEF MainSelect, WorkInv, Working
<1>4. CASE SetCancel \/ RelayStop \/ Signal \/ ServiceStop
  BY <1>4 DEF SetCancel, RelayStop, Signal, ServiceStop, Stopping, Cancelling, WorkInv, Working
<1>5. CASE Exit
  <2>1. \A q \in UdpQuery : ~ Working(q)'
    BY <1>5 DEF Exit, At, Working, TypeOK, Request
  <2> QED
    BY <1>5, <2>1 DEF Exit, WorkInv
<1>6. CASE Tick
  <2>1. \A q \in UdpQuery :
           /\ Working(q)' <=> Working(q)
           /\ task'[q].work = task[q].work
           /\ Working(q) => task'[q].left = task[q].left - 1
    BY <1>6 DEF Tick, TypeOK, Request, Working
  <2>2. main = "grace" => grace' = grace - 1
    BY <1>6 DEF Tick
  <2>3. UNCHANGED <<main, mode, tcp, udp>>
    BY <1>6 DEF Tick
  <2> QED
    BY <1>t, <1>g, <2>1, <2>2, <2>3 DEF WorkInv
<1>7. CASE UNCHANGED vars
  BY <1>7 DEF vars, WorkInv, Working
<1> QED
  BY <1>1, <1>2, <1>3, <1>4, <1>5, <1>6, <1>7 DEF Next, Lifecycle, RequestStep

\* What the exit of main loses had at least the grace period's work to do.
LEMMA GraceStep ==
    ASSUME ServerAssumption, TypeOK, IdleWork, WorkInv, GraceSuffices, [Next]_vars
    PROVE  GraceSuffices'
<1>1. ASSUME main' = "exited" => main = "exited" /\ UNCHANGED <<mode, udp, tcp, task>>
      PROVE  GraceSuffices'
  BY <1>1 DEF GraceSuffices, At
<1>2. ASSUME NEW q \in Request, RequestStep(q)
      PROVE  GraceSuffices'
  BY <1>1, <1>2, RequestIsTaskStep DEF TaskStep, Up, process
<1>3. CASE UdpBind \/ TcpBind \/ UdpStop \/ MainSelect
  BY <1>1, <1>3 DEF UdpBind, TcpBind, UdpStop, MainSelect, Up
<1>4. CASE SetCancel \/ RelayStop \/ Signal \/ ServiceStop
  BY <1>1, <1>4 DEF SetCancel, RelayStop, Signal, ServiceStop, Stopping, Cancelling
<1>5. CASE Exit
  <2> SUFFICES ASSUME mode = "process", tcp # "failed",
                      NEW q \in UdpQuery, At(q, "lost")', task'[q].work > 0
               PROVE  ~ (task'[q].work < Grace)
    BY <1>5 DEF GraceSuffices, Exit
  <2>1. task'[q].work = task[q].work
    BY <1>5 DEF Exit, At, TypeOK, Request
  <2>2. task[q].work # 0
    BY <2>1
  <2>3. Working(q)
    BY <1>5, <2>2 DEF Exit, Up, IdleWork
  <2>4. grace = 0 /\ Grace + task[q].left <= grace + task[q].work
    BY <1>5, <2>3 DEF Exit, WorkInv
  <2>5. task[q].left \in Nat /\ task[q].work \in Nat /\ Grace \in Nat
    <3>1. Work \cup {0} \subseteq Nat
      BY DEF ServerAssumption
    <3>2. task[q].left \in Nat /\ task[q].work \in Work \cup {0}
      BY DEF TypeOK, Request
    <3> QED
      BY <3>1, <3>2 DEF ServerAssumption
  <2> QED
    BY <2>1, <2>4, <2>5
<1>6. CASE Tick
  BY <1>1, <1>6 DEF Tick, Up
<1>7. CASE UNCHANGED vars
  BY <1>1, <1>7 DEF vars
<1> QED
  BY <1>2, <1>3, <1>4, <1>5, <1>6, <1>7 DEF Next, Lifecycle, RequestStep

-----------------------------------------------------------------------------
\* At the start (main, run_server, run_tcp_server) all permits are free and no
\* request is at work.
LEMMA InitIInv ==
    ASSUME ServerAssumption, Init
    PROVE  IInv
<1>1. \A q \in Request : task[q] = Fresh
  BY DEF Init
<1>2. Fresh \in Task /\ Fresh.pc = "idle" /\ Fresh.work = 0
  BY DEF Fresh, Task, Reply
<1>3. TypeOK
  <2>1. task \in [Request -> Task]
    BY <1>2 DEF Init
  <2>2. grace \in 0 .. Grace
    BY DEF Init, ServerAssumption
  <2>3. permits \in [{"udp", "tcp"} -> Nat]
    BY DEF Init, ServerAssumption
  <2> QED
    BY <2>1, <2>2, <2>3 DEF Init, ProcessStart, ServiceStart, TypeOK, Task
<1>4. PermitsConserved
  <2>1. \A S \in SUBSET Request : {q \in S : Holding(q)} = {}
    BY <1>1, <1>2 DEF Holding
  <2>2. InUse(UdpQuery) = 0 /\ InUse(TcpConn) = 0
    BY <2>1, FS_EmptySet DEF InUse, Request
  <2> QED
    BY <2>2 DEF Init, PermitsConserved, ServerAssumption
<1>5. IdleWork /\ WorkInv /\ GraceSuffices
  BY <1>1, <1>2 DEF Init, IdleWork, WorkInv, GraceSuffices, Working, At, Request
<1> QED
  BY <1>3, <1>4, <1>5 DEF IInv

\* The invariant of the server process is inductive.
THEOREM Invariance == Spec => []IInv
<1>1. Init => IInv
  BY InitIInv, ServerAssumption
<1>2. IInv /\ [Next]_vars => IInv'
  BY ServerAssumption, TypeStep, ConservedStep, IdleStep, WorkStep, GraceStep DEF IInv
<1> QED
  BY <1>1, <1>2, PTL DEF Spec

(***************************************************************************)
(* main, run_server, run_tcp_server: for any requests, every task is at    *)
(* one of its awaits, and a server in one of its states.                   *)
(***************************************************************************)
THEOREM TypeCorrect == Spec => []TypeOK
<1>1. IInv => TypeOK
  BY DEF IInv
<1> QED
  BY <1>1, Invariance, PTL

(***************************************************************************)
(* handle_recv, run_tcp_server: for any capacities and any requests, the   *)
(* free permits and the tasks at work are always the capacity of a server. *)
(***************************************************************************)
THEOREM Conserved == Spec => []PermitsConserved
<1>1. IInv => PermitsConserved
  BY DEF IInv
<1> QED
  BY <1>1, Invariance, PTL

(***************************************************************************)
(* main: for any grace period, a datagram whose resolution is shorter is   *)
(* not lost when the process exits after an orderly stop.                  *)
(***************************************************************************)
THEOREM GraceEnough == Spec => []GraceSuffices
<1>1. IInv => GraceSuffices
  BY DEF IInv
<1> QED
  BY <1>1, Invariance, PTL
=============================================================================
