------------------------- MODULE ServerRaceProofs -------------------------
(***************************************************************************)
(* Proofs about ServerRace, for any number of calls and servers and any    *)
(* pool size and timeouts: the pool never holds a connection with an       *)
(* unread answer nor more of them than it may, the mutexes are held where  *)
(* the guards live, and every step is a step of Exchange.                  *)
(***************************************************************************)
EXTENDS ServerRace, TLAPS, FiniteSetTheorems, SequenceTheorems

PC == {"none", "start", "udp", "insert", "pool", "connect", "tcp", "release", "measure", "done"}

(***************************************************************************)
(* A task whose query is on its connection is alone there, and a task that *)
(* returns the connection has read all of it.  What it has received is one *)
(* answer to its own query from its own server.                            *)
(***************************************************************************)
Own(t) == {{}} \cup {{Message(t[2], t[1], tc)} : tc \in BOOLEAN}

TaskOK(t, r) ==
    /\ r.msg \in Own(t)
    /\ r.pc = "tcp" => r.conn = <<t[1]>>
    /\ r.pc = "release" => r.conn = << >>

Msg == [from : Server, query : Call, tc : BOOLEAN]

Rec == [pc : PC, conn : Seq(Call), msg : SUBSET Msg]

TasksOK ==
    /\ task \in [Task -> Rec]
    /\ \A t \in Task : TaskOK(t, task[t])

CallsOK ==
    /\ asked \in [Call -> SUBSET Server]
    /\ status \in [Call -> {"idle", "waiting", "returned"}]

Sorted(q) == \A i, j \in DOMAIN q : i <= j => q[i].last <= q[j].last

\* A server's connections: nothing to read, as many as allowed, in order.
Orderly(q, time) ==
    /\ q \in Seq([conn : {<< >>}, last : Nat])
    /\ Len(q) <= PerServer
    /\ Sorted(q)
    /\ \A i \in DOMAIN q : q[i].last <= time

PoolOK ==
    /\ now \in Nat
    /\ DOMAIN pool = Server
    /\ pool = [s \in Server |-> pool[s]]
    /\ \A s \in Server : Orderly(pool[s], now)

\* At most one task holds a mutex, and where its guard lives.
LocksOK ==
    /\ poolLock = {t \in Task : At(t, "connect")}
    /\ \A t, u \in poolLock : t = u
    /\ truncLock \in {{}} \cup {{t} : t \in Task}
    /\ \A t \in truncLock : task[t].pc \in {"pool", "connect", "tcp", "release", "measure"}
    /\ DOMAIN truncation \subseteq Server

StateOK == TasksOK /\ CallsOK /\ PoolOK /\ LocksOK

\* A call has no tasks before it is made.
Unborn == \A t \in Task : status[t[1]] = "idle" => At(t, "none")

IInv == StateOK /\ Unborn

\* No call has been made, no mutex is held and the pool is empty.
LEMMA InitStateOK == Init => StateOK
<1> SUFFICES ASSUME Init PROVE StateOK
    OBVIOUS
<1>1. TasksOK
    BY DEF Init, TasksOK, TaskOK, Own, Unspawned, PC, Rec
<1>2. CallsOK
    BY DEF Init, CallsOK
<1>3. PoolOK
  <2>1. << >> \in Seq([conn : {<< >>}, last : Nat]) /\ Len(<< >>) = 0 /\ DOMAIN << >> = {}
      OBVIOUS
  <2>2. Orderly(<< >>, 0)
      BY <2>1, ServerRaceAssumption DEF Orderly, Sorted
  <2> QED
      BY <2>2 DEF Init, PoolOK
<1>4. LocksOK
    BY DEF Init, LocksOK, At, Unspawned
<1> QED
    BY <1>1, <1>2, <1>3, <1>4 DEF StateOK

(***************************************************************************)
(* The pool.                                                               *)
(***************************************************************************)
LEMMA ConnectionFields ==
    ASSUME NEW q, NEW time, Orderly(q, time), NEW i \in DOMAIN q
    PROVE  /\ Len(q) \in Nat /\ i \in 1 .. Len(q)
           /\ q[i].conn = << >> /\ q[i].last \in Nat
<1> DEFINE C == [conn : {<< >>}, last : Nat]
<1>1. q \in Seq(C)
    BY DEF Orderly
<1> HIDE DEF C
<1>2. Len(q) \in Nat /\ i \in 1 .. Len(q)
    BY <1>1
<1>3. q[i] \in C
    BY <1>1, <1>2, ElementOfSeq, Zenon
<1>4. q[i].conn = << >> /\ q[i].last \in Nat
    BY <1>3 DEF C
<1> QED
    BY <1>2, <1>4

\* A part of an orderly sequence is orderly.
LEMMA PartOrderly ==
    ASSUME NEW q, NEW time \in Nat, Orderly(q, time), NEW m \in Nat, m >= 1, NEW n \in Nat, n <= Len(q)
    PROVE  Orderly(SubSeq(q, m, n), time) /\ Len(SubSeq(q, m, n)) <= Len(q)
<1> DEFINE C == [conn : {<< >>}, last : Nat]
           p == SubSeq(q, m, n)
<1>1. q \in Seq(C) /\ Len(q) \in Nat /\ DOMAIN q = 1 .. Len(q)
    BY DEF Orderly
<1> HIDE DEF C
<1>2. \A i \in m .. n : q[i] \in C
  <2>1. \A i \in m .. n : i \in 1 .. Len(q)
      BY <1>1
  <2> QED
      BY <1>1, <2>1, ElementOfSeq, Zenon
<1>3. /\ p \in Seq(C)
      /\ Len(p) = IF m <= n THEN n - m + 1 ELSE 0
      /\ \A i \in 1 .. n - m + 1 : p[i] = q[m + i - 1]
    BY <1>2, SubSeqProperties
<1> HIDE DEF p
<1>4. DOMAIN p = 1 .. Len(p) /\ Len(p) <= Len(q)
    BY <1>1, <1>3
<1>5. \A i \in DOMAIN p : m + i - 1 \in DOMAIN q /\ p[i] = q[m + i - 1]
    BY <1>1, <1>3, <1>4
<1>6. Sorted(p)
  <2> SUFFICES ASSUME NEW i \in DOMAIN p, NEW j \in DOMAIN p, i <= j
               PROVE  p[i].last <= p[j].last
      BY DEF Sorted
  <2>1. m + i - 1 <= m + j - 1
      BY <1>3, <1>4
  <2>2. q[m + i - 1].last <= q[m + j - 1].last
      BY <1>5, <2>1, Zenon DEF Sorted, Orderly
  <2> QED
      BY <1>5, <2>2
<1>7. \A i \in DOMAIN p : p[i].last <= time
    BY <1>5 DEF Orderly
<1>8. Len(p) <= PerServer
    BY <1>1, <1>3, <1>4, ServerRaceAssumption DEF Orderly
<1> QED
    BY <1>3, <1>4, <1>6, <1>7, <1>8 DEF Orderly, C, p

\* A clean connection released now goes to the end.
LEMMA AppendOrderly ==
    ASSUME NEW q, NEW time \in Nat, Orderly(q, time), Len(q) < PerServer
    PROVE  Orderly(Append(q, [conn |-> << >>, last |-> time]), time)
<1> DEFINE C == [conn : {<< >>}, last : Nat]
           x == [conn |-> << >>, last |-> time]
           p == Append(q, x)
<1>1. q \in Seq(C) /\ Len(q) \in Nat /\ DOMAIN q = 1 .. Len(q) /\ x \in C
    BY DEF Orderly
<1>2. x.last = time
    OBVIOUS
<1> HIDE DEF C, x
<1>3. /\ p \in Seq(C)
      /\ Len(p) = Len(q) + 1
      /\ \A i \in 1 .. Len(q) : p[i] = q[i]
      /\ p[Len(q) + 1] = x
    BY <1>1, AppendProperties
<1> HIDE DEF p
<1>4. DOMAIN p = 1 .. Len(q) + 1
    BY <1>1, <1>3
<1>5. \A i \in DOMAIN p : p[i].last <= time /\ (i \in DOMAIN q \/ i = Len(q) + 1)
    BY <1>1, <1>2, <1>3, <1>4 DEF Orderly
<1>6. Sorted(p)
  <2> SUFFICES ASSUME NEW i \in DOMAIN p, NEW j \in DOMAIN p, i <= j
               PROVE  p[i].last <= p[j].last
      BY DEF Sorted
  <2>1. CASE j = Len(q) + 1
      BY <1>2, <1>3, <1>5, <2>1
  <2>2. CASE j # Len(q) + 1
    <3>1. i \in DOMAIN q /\ j \in DOMAIN q
        BY <1>1, <1>4, <2>2
    <3> QED
        BY <1>1, <1>3, <3>1 DEF Orderly, Sorted
  <2> QED
      BY <2>1, <2>2
<1>7. Len(p) <= PerServer
    BY <1>1, <1>3, ServerRaceAssumption
<1> QED
    BY <1>3, <1>5, <1>6, <1>7 DEF Orderly, C, p, x

\* What retain keeps is orderly and no longer.
LEMMA RetainedOrderly ==
    ASSUME PoolOK, NEW s \in Server
    PROVE  Orderly(Retained(s), now) /\ Len(Retained(s)) <= PerServer /\ Len(Retained(s)) \in Nat
<1> DEFINE q == pool[s]
           stale == DOMAIN q \ Acquirable(s)
<1>1. now \in Nat /\ Orderly(q, now) /\ Len(q) \in Nat /\ DOMAIN q = 1 .. Len(q)
    BY DEF PoolOK, Orderly
<1>2. IsFiniteSet(1 .. Len(q))
    BY <1>1, FS_Interval
<1>3. stale \subseteq 1 .. Len(q)
    BY <1>1
<1>4. Cardinality(stale) \in Nat
    BY <1>2, <1>3, FS_Subset, FS_CardinalityType
<1> HIDE DEF stale
<1>5. Cardinality(stale) + 1 \in Nat /\ Cardinality(stale) + 1 >= 1
    BY <1>4
<1>6. Orderly(SubSeq(q, Cardinality(stale) + 1, Len(q)), now)
    BY <1>1, <1>5, PartOrderly
<1>7. Orderly(Retained(s), now)
    BY <1>6 DEF Retained, stale
<1> QED
    BY <1>7 DEF Orderly

\* A pool with one server's connections replaced.
LEMMA PoolReplaced ==
    ASSUME PoolOK, NEW s \in Server, NEW q, Orderly(q, now),
           pool' = [pool EXCEPT ![s] = q], now' = now
    PROVE  PoolOK'
BY DEF PoolOK

\* A step that leaves the pool alone leaves it orderly.
LEMMA PoolKept ==
    ASSUME PoolOK, pool' = pool, now' = now
    PROVE  PoolOK'
BY DEF PoolOK

(***************************************************************************)
(* The tasks.                                                              *)
(***************************************************************************)
LEMMA TaskParts ==
    ASSUME NEW t \in Task
    PROVE  t[1] \in Call /\ t[2] \in Server /\ t = <<t[1], t[2]>> /\ Own(t) \subseteq SUBSET Msg
<1>1. t[1] \in Call /\ t[2] \in Server /\ t = <<t[1], t[2]>>
    BY DEF Task
<1>2. \A tc \in BOOLEAN : Message(t[2], t[1], tc) \in Msg
    BY <1>1 DEF Message, Msg
<1> QED
    BY <1>1, <1>2 DEF Own

\* One task replaced.
LEMMA OneTask ==
    ASSUME TasksOK, NEW t \in Task, NEW r \in Rec, TaskOK(t, r), task' = [task EXCEPT ![t] = r]
    PROVE  TasksOK' /\ task'[t] = r /\ \A u \in Task \ {t} : task'[u] = task[u]
<1>1. task' \in [Task -> Rec] /\ task'[t] = r /\ \A u \in Task \ {t} : task'[u] = task[u]
    BY DEF TasksOK
<1> QED
    BY <1>1 DEF TasksOK, TaskOK

\* A task goes on to another wait with what it holds.
LEMMA GotoStep ==
    ASSUME TasksOK, NEW t \in Task, NEW pc \in PC \ {"tcp", "release"}, Goto(t, pc)
    PROVE  TasksOK' /\ task'[t].pc = pc /\ \A u \in Task \ {t} : task'[u] = task[u]
<1> DEFINE r == [task[t] EXCEPT !.pc = pc]
<1>1. task[t] \in Rec /\ TaskOK(t, task[t])
    BY DEF TasksOK
<1>2. r \in Rec /\ r.pc = pc /\ r.msg = task[t].msg
    BY <1>1 DEF Rec
<1>3. task' = [task EXCEPT ![t] = r]
    BY DEF Goto
<1> HIDE DEF r
<1>4. TaskOK(t, r)
    BY <1>1, <1>2 DEF TaskOK
<1> QED
    BY <1>2, <1>3, <1>4, OneTask

\* A task ends with its message, and drops its connection.
LEMMA DoneStep ==
    ASSUME TasksOK, NEW t \in Task, NEW msgs \in Own(t), Done(t, msgs)
    PROVE  TasksOK' /\ task'[t].pc = "done" /\ \A u \in Task \ {t} : task'[u] = task[u]
<1> DEFINE r == [pc |-> "done", conn |-> << >>, msg |-> msgs]
<1>1. msgs \in SUBSET Msg
    BY TaskParts
<1>2. r \in Rec /\ TaskOK(t, r)
    BY <1>1 DEF Rec, TaskOK, PC
<1>3. task' = [task EXCEPT ![t] = r]
    BY DEF Done
<1>4. r.pc = "done"
    OBVIOUS
<1> HIDE DEF r
<1> QED
    BY <1>2, <1>3, <1>4, OneTask

\* A task that changes its connection.
LEMMA ConnStep ==
    ASSUME TasksOK, NEW t \in Task, NEW pc \in PC, NEW conn \in Seq(Call),
           pc = "tcp" => conn = <<t[1]>>, pc = "release" => conn = << >>,
           task' = [task EXCEPT ![t].pc = pc, ![t].conn = conn]
    PROVE  TasksOK' /\ task'[t].pc = pc /\ \A u \in Task \ {t} : task'[u] = task[u]
<1> DEFINE r == [task[t] EXCEPT !.pc = pc, !.conn = conn]
<1>1. task[t] \in Rec /\ TaskOK(t, task[t])
    BY DEF TasksOK
<1>2. r \in Rec /\ r.pc = pc /\ r.conn = conn /\ r.msg = task[t].msg
    BY <1>1 DEF Rec
<1>3. task' = [task EXCEPT ![t] = r]
    BY DEF TasksOK
<1> HIDE DEF r
<1>4. TaskOK(t, r)
    BY <1>1, <1>2 DEF TaskOK
<1> QED
    BY <1>2, <1>3, <1>4, OneTask

\* A query written to a connection without unread answers is alone on it.
LEMMA ExchangingStep ==
    ASSUME TasksOK, NEW t \in Task, Exchanging(t, << >>)
    PROVE  TasksOK' /\ task'[t].pc = "tcp" /\ \A u \in Task \ {t} : task'[u] = task[u]
<1> DEFINE conn == Append(<< >>, t[1])
<1>1. conn = <<t[1]>> /\ conn \in Seq(Call)
  <2>1. t[1] \in Call
      BY TaskParts
  <2> QED
      BY <2>1
<1>2. task' = [task EXCEPT ![t].pc = "tcp", ![t].conn = conn]
    BY DEF Exchanging
<1> HIDE DEF conn
<1>3. "tcp" \in PC /\ "tcp" # "release"
    BY DEF PC
<1> QED
    BY <1>1, <1>2, <1>3, ConnStep

\* The answer read is the one to the task's own query, and leaves nothing unread.
LEMMA ReadStep ==
    ASSUME TasksOK, NEW t \in Task, Read(t)
    PROVE  TasksOK' /\ task'[t].pc = "release" /\ \A u \in Task \ {t} : task'[u] = task[u]
<1> DEFINE m == {Message(t[2], Head(task[t].conn), FALSE)}
           conn == Tail(task[t].conn)
           r == [task[t] EXCEPT !.pc = "release", !.conn = conn, !.msg = m]
<1>1. task[t] \in Rec /\ task[t].conn = <<t[1]>>
    BY DEF TasksOK, TaskOK, Read, At
<1>2. conn = << >> /\ Head(task[t].conn) = t[1]
    BY <1>1
<1>3. m \in Own(t)
    BY <1>2 DEF Own
<1>4. m \in SUBSET Msg
    BY <1>3, TaskParts
<1>5. task' = [task EXCEPT ![t].pc = "release", ![t].conn = conn, ![t].msg = m]
    BY DEF Read, TasksOK
<1>c. conn \in Seq(Call)
    BY <1>2, EmptySeq, Zenon
<1> HIDE DEF m, conn
<1>6. r \in Rec /\ r.pc = "release" /\ r.conn = conn /\ r.msg = m
  <2>1. task[t] \in Rec
      BY <1>1
  <2> QED
      BY <2>1, <1>4, <1>c DEF Rec, PC
<1>7. task' = [task EXCEPT ![t] = r]
    BY <1>5 DEF TasksOK
<1> HIDE DEF r
<1>8. TaskOK(t, r)
    BY <1>2, <1>3, <1>6 DEF TaskOK
<1> QED
    BY <1>6, <1>7, <1>8, OneTask

\* A truncated answer over UDP is kept, for the case that TCP brings none.
LEMMA TruncatedStep ==
    ASSUME TasksOK, NEW t \in Task, UdpTruncated(t)
    PROVE  TasksOK' /\ task'[t].pc = "insert" /\ \A u \in Task \ {t} : task'[u] = task[u]
<1> DEFINE m == {Message(t[2], t[1], TRUE)}
           r == [task[t] EXCEPT !.pc = "insert", !.msg = m]
<1>1. task[t] \in Rec
    BY DEF TasksOK
<1>2. m \in Own(t)
    BY DEF Own
<1>3. m \in SUBSET Msg
    BY <1>2, TaskParts
<1>4. task' = [task EXCEPT ![t].pc = "insert", ![t].msg = m]
    BY DEF UdpTruncated
<1> HIDE DEF m
<1>5. r \in Rec /\ r.pc = "insert" /\ r.msg = m
    BY <1>1, <1>3 DEF Rec, PC
<1>6. task' = [task EXCEPT ![t] = r]
    BY <1>4 DEF TasksOK
<1> HIDE DEF r
<1>7. TaskOK(t, r)
    BY <1>2, <1>5 DEF TaskOK
<1> QED
    BY <1>5, <1>6, <1>7, OneTask

(***************************************************************************)
(* The mutexes.                                                            *)
(***************************************************************************)
Held == {"pool", "connect", "tcp", "release", "measure"}

\* A task that neither begins nor stops to connect, and that keeps the truncation
\* cache's mutex only where its guard lives.
LEMMA LocksKept ==
    ASSUME LocksOK, NEW t \in Task,
           \A u \in Task \ {t} : task'[u] = task[u],
           task'[t].pc = "connect" <=> task[t].pc = "connect",
           poolLock' = poolLock,
           truncLock' \in {truncLock, truncLock \ {t}},
           t \in truncLock' => task'[t].pc \in Held,
           DOMAIN truncation' \subseteq Server
    PROVE  LocksOK'
<1>1. \A u \in Task : task'[u].pc = "connect" <=> task[u].pc = "connect"
    OBVIOUS
<1>2. poolLock' = {u \in Task : task'[u].pc = "connect"} /\ \A u, v \in poolLock' : u = v
    BY <1>1 DEF LocksOK, At
<1>3. truncLock \in {{}} \cup {{u} : u \in Task}
    BY DEF LocksOK
<1>4. truncLock' \in {{}} \cup {{u} : u \in Task}
  <2>1. CASE truncLock' = truncLock
      BY <1>3, <2>1
  <2>2. CASE truncLock' = truncLock \ {t}
    <3>1. CASE truncLock = {}
        BY <2>2, <3>1
    <3>2. CASE truncLock # {}
      <4>1. PICK u \in Task : truncLock = {u}
          BY <1>3, <3>2
      <4>2. truncLock \ {t} = {} \/ truncLock \ {t} = {u}
          BY <4>1
      <4> QED
          BY <2>2, <4>1, <4>2
    <3> QED
        BY <3>1, <3>2
  <2> QED
      BY <2>1, <2>2
<1>5. ASSUME NEW u \in truncLock' PROVE task'[u].pc \in Held
  <2>1. CASE u = t
      BY <1>5, <2>1
  <2>2. CASE u # t
    <3>1. u \in truncLock /\ u \in Task
        BY <1>3, <1>5
    <3> QED
        BY <2>2, <3>1 DEF LocksOK, Held
  <2> QED
      BY <2>1, <2>2
<1> QED
    BY <1>2, <1>4, <1>5 DEF LocksOK, At, Held

\* The pool's mutex goes when its only holder stops to connect.
LEMMA PoolUnlocked ==
    ASSUME LocksOK, NEW t \in Task, At(t, "connect"),
           \A u \in Task \ {t} : task'[u] = task[u],
           task'[t].pc # "connect",
           poolLock' \in {{}, poolLock \ {t}},
           truncLock' \in {truncLock, truncLock \ {t}},
           t \in truncLock' => task'[t].pc \in Held,
           UNCHANGED truncation
    PROVE  LocksOK'
<1>1. poolLock = {t}
    BY DEF LocksOK
<1>2. poolLock' = {}
    BY <1>1
<1>3. \A u \in Task : task'[u].pc # "connect"
    BY <1>1 DEF LocksOK, At
<1>4. poolLock' = {u \in Task : task'[u].pc = "connect"} /\ \A u, v \in poolLock' : u = v
    BY <1>2, <1>3
<1>5. truncLock = {} \/ \E u \in Task : truncLock = {u}
    BY DEF LocksOK
<1>6. truncLock' = {} \/ \E u \in Task : truncLock' = {u}
    BY <1>5
<1>7. ASSUME NEW u \in truncLock' PROVE task'[u].pc \in Held
  <2>1. CASE u = t
      BY <1>7, <2>1
  <2>2. CASE u # t
    <3>1. u \in truncLock /\ u \in Task
        BY <1>5, <1>7
    <3> QED
        BY <2>2, <3>1 DEF LocksOK, Held
  <2> QED
      BY <2>1, <2>2
<1> QED
    BY <1>4, <1>6, <1>7 DEF LocksOK, At, Held

(***************************************************************************)
(* The steps of a task.                                                    *)
(***************************************************************************)
LEMMA WorkStep ==
    ASSUME StateOK, NEW t \in Task, Work(t)
    PROVE  StateOK' /\ UNCHANGED callVars /\ \A u \in Task \ {t} : task'[u] = task[u]
<1>0. TasksOK /\ CallsOK /\ PoolOK /\ LocksOK
    BY DEF StateOK
<1>a. t[1] \in Call /\ t[2] \in Server
    BY TaskParts
<1>b. {} \in Own(t) /\ {Message(t[2], t[1], FALSE)} \in Own(t) /\ task[t].msg \in Own(t)
    BY <1>0 DEF Own, TasksOK, TaskOK
<1>c. DOMAIN truncation \subseteq Server
    BY <1>0 DEF LocksOK
<1>d. UNCHANGED callVars => CallsOK'
    BY <1>0 DEF CallsOK, callVars
<1>1. CASE CheckTruncation(t)
  <2>1. CASE t[2] \in DOMAIN truncation
    <3>1. Goto(t, "pool") /\ truncLock' = {t} /\ truncLock = {} /\ At(t, "start")
          /\ UNCHANGED <<callVars, truncation, pool, poolLock, now>>
        BY <1>1, <2>1 DEF CheckTruncation
    <3>2. TasksOK' /\ task'[t].pc = "pool" /\ \A u \in Task \ {t} : task'[u] = task[u]
        BY <1>0, <3>1, GotoStep DEF PC
    <3>3. poolLock' = {u \in Task : task'[u].pc = "connect"} /\ \A u, v \in poolLock' : u = v
        BY <1>0, <3>1, <3>2 DEF LocksOK, At
    <3>4. LocksOK'
        BY <1>0, <3>1, <3>2, <3>3 DEF LocksOK, At
    <3> QED
        BY <1>0, <1>d, <3>1, <3>2, <3>4, PoolKept DEF StateOK
  <2>2. CASE t[2] \notin DOMAIN truncation
    <3>1. Goto(t, "udp") /\ At(t, "start") /\ truncLock = {}
          /\ UNCHANGED <<callVars, truncation, truncLock, pool, poolLock, now>>
        BY <1>1, <2>2 DEF CheckTruncation
    <3>2. TasksOK' /\ task'[t].pc = "udp" /\ \A u \in Task \ {t} : task'[u] = task[u]
        BY <1>0, <3>1, GotoStep DEF PC
    <3>3. LocksOK'
        BY <1>0, <1>c, <3>1, <3>2, LocksKept DEF At
    <3> QED
        BY <1>0, <1>d, <3>1, <3>2, <3>3, PoolKept DEF StateOK
  <2> QED
      BY <2>1, <2>2
<1>2. CASE UdpAnswer(t) \/ UdpFails(t)
  <2>1. /\ At(t, "udp")
        /\ Done(t, {Message(t[2], t[1], FALSE)}) \/ Done(t, {})
        /\ UNCHANGED <<callVars, truncation, truncLock, pool, poolLock, now>>
      BY <1>2 DEF UdpAnswer, UdpFails
  <2>2. TasksOK' /\ task'[t].pc = "done" /\ \A u \in Task \ {t} : task'[u] = task[u]
      BY <1>0, <1>b, <2>1, DoneStep
  <2>3. t \notin truncLock
      BY <1>0, <2>1 DEF LocksOK, At
  <2>4. LocksOK'
      BY <1>0, <1>c, <2>1, <2>2, <2>3, LocksKept DEF At
  <2> QED
      BY <1>0, <1>d, <2>1, <2>2, <2>4, PoolKept DEF StateOK
<1>3. CASE UdpTruncated(t)
  <2>1. At(t, "udp") /\ UNCHANGED <<callVars, truncation, truncLock, pool, poolLock, now>>
      BY <1>3 DEF UdpTruncated
  <2>2. TasksOK' /\ task'[t].pc = "insert" /\ \A u \in Task \ {t} : task'[u] = task[u]
      BY <1>0, <1>3, TruncatedStep
  <2>3. t \notin truncLock
      BY <1>0, <2>1 DEF LocksOK, At
  <2>4. LocksOK'
      BY <1>0, <1>c, <2>1, <2>2, <2>3, LocksKept DEF At
  <2> QED
      BY <1>0, <1>d, <2>1, <2>2, <2>4, PoolKept DEF StateOK
<1>4. CASE InsertTruncation(t)
  <2>1. /\ At(t, "insert") /\ truncLock = {} /\ Goto(t, "pool")
        /\ DOMAIN truncation' = DOMAIN truncation \cup {t[2]}
        /\ UNCHANGED <<callVars, truncLock, pool, poolLock, now>>
      BY <1>4 DEF InsertTruncation
  <2>2. TasksOK' /\ task'[t].pc = "pool" /\ \A u \in Task \ {t} : task'[u] = task[u]
      BY <1>0, <2>1, GotoStep DEF PC
  <2>3. DOMAIN truncation' \subseteq Server
      BY <1>a, <1>c, <2>1
  <2>4. LocksOK'
      BY <1>0, <2>1, <2>2, <2>3, LocksKept DEF At
  <2> QED
      BY <1>0, <1>d, <2>1, <2>2, <2>4, PoolKept DEF StateOK
<1>5. CASE Acquire(t)
  <2>1. PICK i \in Acquirable(t[2]) :
            /\ Exchanging(t, pool[t[2]][i].conn)
            /\ pool' = [pool EXCEPT ![t[2]] = SubSeq(pool[t[2]], 1, i - 1)]
      BY <1>5 DEF Acquire
  <2>2. At(t, "pool") /\ UNCHANGED <<callVars, truncation, truncLock, poolLock, now>>
      BY <1>5 DEF Acquire
  <2>3. Orderly(pool[t[2]], now) /\ now \in Nat /\ i \in DOMAIN pool[t[2]]
      BY <1>0, <1>a, <2>1 DEF PoolOK, Acquirable
  <2>4. pool[t[2]][i].conn = << >> /\ i - 1 \in Nat /\ i - 1 <= Len(pool[t[2]])
    <3>1. i \in 1 .. Len(pool[t[2]]) /\ Len(pool[t[2]]) \in Nat /\ pool[t[2]][i].conn = << >>
        BY <2>3, ConnectionFields, Zenon
    <3> QED
        BY <3>1
  <2>5. TasksOK' /\ task'[t].pc = "tcp" /\ \A u \in Task \ {t} : task'[u] = task[u]
      BY <1>0, <2>1, <2>4, ExchangingStep
  <2>6. Orderly(SubSeq(pool[t[2]], 1, i - 1), now)
      BY <2>3, <2>4, PartOrderly
  <2>7. PoolOK'
      BY <1>0, <1>a, <2>1, <2>2, <2>6, PoolReplaced
  <2>8. LocksOK'
      BY <1>0, <1>c, <2>2, <2>5, LocksKept DEF At, Held
  <2> QED
      BY <1>d, <2>2, <2>5, <2>7, <2>8 DEF StateOK
<1>6. CASE AcquireNone(t)
  <2>1. /\ At(t, "pool") /\ poolLock = {} /\ poolLock' = {t} /\ Goto(t, "connect")
        /\ pool' = [pool EXCEPT ![t[2]] = << >>]
        /\ UNCHANGED <<callVars, truncation, truncLock, now>>
      BY <1>6 DEF AcquireNone
  <2>2. TasksOK' /\ task'[t].pc = "connect" /\ \A u \in Task \ {t} : task'[u] = task[u]
      BY <1>0, <2>1, GotoStep DEF PC
  <2>3. Orderly(<< >>, now)
    <3>1. << >> \in Seq([conn : {<< >>}, last : Nat]) /\ Len(<< >>) = 0 /\ DOMAIN << >> = {}
        OBVIOUS
    <3> QED
        BY <3>1, ServerRaceAssumption DEF Orderly, Sorted
  <2>4. PoolOK'
      BY <1>0, <1>a, <2>1, <2>3, PoolReplaced
  <2>5. \A u \in Task : task'[u].pc = "connect" <=> u = t
      BY <1>0, <2>1, <2>2 DEF LocksOK, At
  <2>6. poolLock' = {u \in Task : task'[u].pc = "connect"} /\ \A u, v \in poolLock' : u = v
      BY <2>1, <2>5
  <2>7. \A u \in truncLock : task'[u].pc \in Held
      BY <1>0, <2>2 DEF LocksOK, Held
  <2>8. LocksOK'
      BY <1>0, <2>1, <2>6, <2>7 DEF LocksOK, At, Held
  <2> QED
      BY <1>d, <2>1, <2>2, <2>4, <2>8 DEF StateOK
<1>7. CASE Connect(t)
  <2>1. /\ At(t, "connect") /\ Exchanging(t, << >>) /\ poolLock' = {}
        /\ UNCHANGED <<callVars, truncation, truncLock, pool, now>>
      BY <1>7 DEF Connect
  <2>2. TasksOK' /\ task'[t].pc = "tcp" /\ \A u \in Task \ {t} : task'[u] = task[u]
      BY <1>0, <2>1, ExchangingStep
  <2>3. LocksOK'
      BY <1>0, <2>1, <2>2, PoolUnlocked DEF Held
  <2> QED
      BY <1>0, <1>d, <2>1, <2>2, <2>3, PoolKept DEF StateOK
<1>8. CASE Read(t)
  <2>1. At(t, "tcp") /\ UNCHANGED <<callVars, truncation, truncLock, pool, poolLock, now>>
      BY <1>8 DEF Read
  <2>2. TasksOK' /\ task'[t].pc = "release" /\ \A u \in Task \ {t} : task'[u] = task[u]
      BY <1>0, <1>8, ReadStep
  <2>3. LocksOK'
      BY <1>0, <1>c, <2>1, <2>2, LocksKept DEF At, Held
  <2> QED
      BY <1>0, <1>d, <2>1, <2>2, <2>3, PoolKept DEF StateOK
<1>9. CASE TcpFails(t)
  <2>1. /\ task[t].pc \in {"connect", "tcp"}
        /\ Done(t, {}) \/ Done(t, task[t].msg)
        /\ truncLock' = truncLock \ {t} /\ poolLock' = poolLock \ {t}
        /\ UNCHANGED <<callVars, truncation, pool, now>>
      BY <1>9 DEF TcpFails, NoTcpAnswer
  <2>2. TasksOK' /\ task'[t].pc = "done" /\ \A u \in Task \ {t} : task'[u] = task[u]
      BY <1>0, <1>b, <2>1, DoneStep
  <2>3. CASE At(t, "connect")
    <3>1. LocksOK'
        BY <1>0, <2>1, <2>2, <2>3, PoolUnlocked
    <3> QED
        BY <1>0, <1>d, <2>1, <2>2, <3>1, PoolKept DEF StateOK
  <2>4. CASE At(t, "tcp")
    <3>1. poolLock' = poolLock
        BY <1>0, <2>1, <2>4 DEF LocksOK, At
    <3>2. LocksOK'
        BY <1>0, <1>c, <2>1, <2>2, <2>4, <3>1, LocksKept DEF At
    <3> QED
        BY <1>0, <1>d, <2>1, <2>2, <3>2, PoolKept DEF StateOK
  <2> QED
      BY <2>1, <2>3, <2>4 DEF At
<1>10. CASE Release(t)
  <2>1. /\ At(t, "release") /\ pool' = [pool EXCEPT ![t[2]] = Kept(t[2], task[t].conn)]
        /\ UNCHANGED <<callVars, truncation, poolLock, now>>
      BY <1>10 DEF Release
  <2>2. task[t].conn = << >>
      BY <1>0, <2>1 DEF TasksOK, TaskOK, At
  <2>3. Orderly(Kept(t[2], << >>), now)
    <3>1. Orderly(Retained(t[2]), now) /\ Len(Retained(t[2])) \in Nat /\ now \in Nat
        BY <1>0, <1>a, RetainedOrderly DEF PoolOK
    <3>2. CASE Len(Retained(t[2])) < PerServer
        BY <3>1, <3>2, AppendOrderly DEF Kept
    <3>3. CASE ~ (Len(Retained(t[2])) < PerServer)
        BY <3>1, <3>3 DEF Kept
    <3> QED
        BY <3>2, <3>3
  <2>4. PoolOK'
      BY <1>0, <1>a, <2>1, <2>2, <2>3, PoolReplaced
  <2>5. CASE task' = [task EXCEPT ![t].pc = "measure", ![t].conn = << >>] /\ truncLock' = truncLock
    <3>1. << >> \in Seq(Call) /\ "measure" \in PC /\ "measure" # "tcp" /\ "measure" # "release"
        BY DEF PC
    <3>2. TasksOK' /\ task'[t].pc = "measure" /\ \A u \in Task \ {t} : task'[u] = task[u]
        BY <1>0, <2>5, <3>1, ConnStep
    <3>3. LocksOK'
        BY <1>0, <1>c, <2>1, <2>5, <3>2, LocksKept DEF At, Held
    <3> QED
        BY <1>d, <2>1, <2>4, <3>2, <3>3 DEF StateOK
  <2>6. CASE /\ Done(t, {}) \/ Done(t, task[t].msg)
             /\ truncLock' = truncLock \ {t}
    <3>1. TasksOK' /\ task'[t].pc = "done" /\ \A u \in Task \ {t} : task'[u] = task[u]
        BY <1>0, <1>b, <2>6, DoneStep
    <3>2. LocksOK'
        BY <1>0, <1>c, <2>1, <2>6, <3>1, LocksKept DEF At
    <3> QED
        BY <1>d, <2>1, <2>4, <3>1, <3>2 DEF StateOK
  <2>7. truncLock # {t} => truncLock = truncLock \ {t}
      BY <1>0 DEF LocksOK
  <2> QED
      BY <1>10, <2>5, <2>6, <2>7 DEF Release
<1>11. CASE Measure(t)
  <2>1. /\ At(t, "measure") /\ Done(t, task[t].msg) /\ truncLock' = truncLock \ {t}
        /\ UNCHANGED <<callVars, truncation, pool, poolLock, now>>
      BY <1>11 DEF Measure
  <2>2. TasksOK' /\ task'[t].pc = "done" /\ \A u \in Task \ {t} : task'[u] = task[u]
      BY <1>0, <1>b, <2>1, DoneStep
  <2>3. LocksOK'
      BY <1>0, <1>c, <2>1, <2>2, LocksKept DEF At
  <2> QED
      BY <1>0, <1>d, <2>1, <2>2, <2>3, PoolKept DEF StateOK
<1> QED
    BY <1>1, <1>2, <1>3, <1>4, <1>5, <1>6, <1>7, <1>8, <1>9, <1>10, <1>11 DEF Work

(***************************************************************************)
(* The steps of a call, of the cleaners and of time.                       *)
(***************************************************************************)
LEMMA CallStep ==
    ASSUME IInv, NEW c \in Call, NEW servers \in SUBSET Server,
           query_servers_concurrent(c, servers)
    PROVE  IInv'
<1>0. TasksOK /\ CallsOK /\ PoolOK /\ LocksOK
    BY DEF IInv, StateOK
<1>1. CallsOK'
    BY <1>0 DEF query_servers_concurrent, CallsOK
<1>2. PoolOK'
    BY <1>0, PoolKept DEF query_servers_concurrent
<1>3. ASSUME NEW t \in Task
      PROVE  /\ task'[t] \in Rec /\ TaskOK(t, task'[t])
             /\ task'[t] = task[t] \/ task'[t].pc = "start"
  <2>1. task[t] \in Rec /\ TaskOK(t, task[t])
      BY <1>0 DEF TasksOK
  <2>2. CASE t[1] = c /\ t[2] \in servers
    <3>1. task'[t] = [task[t] EXCEPT !.pc = "start"]
        BY <2>2 DEF query_servers_concurrent
    <3>2. task'[t] \in Rec /\ task'[t].pc = "start" /\ task'[t].msg = task[t].msg
        BY <2>1, <3>1 DEF Rec, PC
    <3> QED
        BY <2>1, <3>2 DEF TaskOK
  <2>3. CASE ~ (t[1] = c /\ t[2] \in servers)
    <3>1. task'[t] = task[t]
        BY <2>3 DEF query_servers_concurrent
    <3> QED
        BY <2>1, <3>1
  <2> QED
      BY <2>2, <2>3
<1>4. TasksOK'
  <2>1. task' = [t \in Task |-> task'[t]]
      BY DEF query_servers_concurrent
  <2>2. task' \in [Task -> Rec]
      BY <1>3, <2>1
  <2> QED
      BY <1>3, <2>2 DEF TasksOK
<1>5. ASSUME NEW t \in Task, task'[t] # task[t] PROVE At(t, "none") /\ t[1] = c
  <2>1. t[1] = c
      BY <1>5 DEF query_servers_concurrent
  <2> QED
      BY <2>1 DEF query_servers_concurrent, IInv, Unborn
<1>6. \A t \in Task : task'[t].pc = "connect" <=> task[t].pc = "connect"
    BY <1>3, <1>5 DEF At
<1>7. \A t \in truncLock : task'[t] = task[t]
    BY <1>0, <1>5 DEF LocksOK, At
<1>8. UNCHANGED <<truncation, truncLock, poolLock>>
    BY DEF query_servers_concurrent
<1>9. poolLock' = {t \in Task : task'[t].pc = "connect"}
    BY <1>0, <1>6, <1>8 DEF LocksOK, At
<1>10. LocksOK'
    BY <1>0, <1>7, <1>8, <1>9 DEF LocksOK, At
<1>11. Unborn'
  <2> SUFFICES ASSUME NEW t \in Task, status'[t[1]] = "idle" PROVE task'[t].pc = "none"
      BY DEF Unborn, At
  <2>1. t[1] \in Call
      BY TaskParts
  <2>2. t[1] # c
      BY <1>0 DEF query_servers_concurrent, CallsOK
  <2>3. status[t[1]] = "idle"
      BY <1>0, <2>1, <2>2 DEF query_servers_concurrent, CallsOK
  <2> QED
      BY <1>5, <2>2, <2>3 DEF IInv, Unborn, At
<1> QED
    BY <1>1, <1>2, <1>4, <1>10, <1>11 DEF IInv, StateOK

\* A call returns.
LEMMA ReturnStep ==
    ASSUME IInv, NEW c \in Call, NEW msgs, Return(c, msgs)
    PROVE  IInv'
<1>0. TasksOK /\ CallsOK /\ PoolOK /\ LocksOK /\ Unborn
    BY DEF IInv, StateOK
<1>1. CallsOK'
    BY <1>0 DEF Return, CallsOK
<1>2. UNCHANGED <<task, truncation, truncLock, pool, poolLock, now>>
    BY DEF Return
<1>3. TasksOK' /\ PoolOK' /\ LocksOK'
    BY <1>0, <1>2, PoolKept DEF TasksOK, LocksOK, At
<1>4. \A d \in Call : status'[d] = "idle" => status[d] = "idle"
    BY <1>0 DEF Return, CallsOK
<1>5. Unborn'
    BY <1>0, <1>2, <1>4, TaskParts DEF Unborn, At
<1> QED
    BY <1>1, <1>3, <1>5 DEF IInv, StateOK

\* Time, and cleanup of the pool and of the truncation cache.
LEMMA CleanStep ==
    ASSUME IInv, CleanPool \/ CleanTruncation \/ Tick
    PROVE  IInv' /\ UNCHANGED callVars
<1>0. TasksOK /\ CallsOK /\ PoolOK /\ LocksOK /\ Unborn
    BY DEF IInv, StateOK
<1>1. UNCHANGED <<callVars, task, truncLock, poolLock>>
    BY DEF CleanPool, CleanTruncation, Tick
<1>2. TasksOK' /\ CallsOK' /\ Unborn'
    BY <1>0, <1>1 DEF TasksOK, CallsOK, Unborn, At, callVars
<1>3. DOMAIN truncation' \subseteq DOMAIN truncation
    BY DEF CleanPool, CleanTruncation, Tick
<1>4. LocksOK'
    BY <1>0, <1>1, <1>3 DEF LocksOK, At
<1>5. PoolOK'
  <2>1. CASE CleanPool
    <3>1. pool' = [s \in Server |-> Retained(s)] /\ now' = now
        BY <2>1 DEF CleanPool, cleanup
    <3>2. \A s \in Server : Orderly(Retained(s), now)
        BY <1>0, RetainedOrderly
    <3> QED
        BY <1>0, <3>1, <3>2 DEF PoolOK
  <2>2. CASE CleanTruncation
      BY <1>0, <2>2, PoolKept DEF CleanTruncation
  <2>3. CASE Tick
    <3>1. now' = now + 1 /\ pool' = pool /\ now \in Nat
        BY <1>0, <2>3 DEF Tick, PoolOK
    <3>2. ASSUME NEW s \in Server PROVE Orderly(pool[s], now + 1)
      <4>1. Orderly(pool[s], now)
          BY <1>0 DEF PoolOK
      <4>2. \A i \in DOMAIN pool[s] : pool[s][i].last \in Nat
          BY <4>1, ConnectionFields, Zenon
      <4> QED
          BY <3>1, <4>1, <4>2 DEF Orderly
    <3> QED
        BY <1>0, <3>1, <3>2 DEF PoolOK
  <2> QED
      BY <2>1, <2>2, <2>3
<1> QED
    BY <1>1, <1>2, <1>4, <1>5 DEF IInv, StateOK

\* The invariant holds before the first call.
LEMMA InitIInv == Init => IInv
<1> SUFFICES ASSUME Init PROVE IInv
    OBVIOUS
<1>1. Unborn
    BY DEF Init, Unborn, At, Unspawned
<1> QED
    BY <1>1, InitStateOK DEF IInv

\* Every step of a call, of a task and of cleanup keeps the invariant.
LEMMA NextIInv == IInv /\ [Next]_vars => IInv'
<1> SUFFICES ASSUME IInv, [Next]_vars PROVE IInv'
    OBVIOUS
<1>1. ASSUME NEW c \in Call, NEW servers \in SUBSET Server, query_servers_concurrent(c, servers)
      PROVE  IInv'
    BY <1>1, CallStep
<1>2. ASSUME NEW c \in Call, Finish(c) \/ Abandon(c) PROVE IInv'
  <2>1. \E msgs : Return(c, msgs)
      BY <1>2 DEF Finish, Abandon, FirstMessage, AllFailed
  <2> QED
      BY <2>1, ReturnStep
<1>3. ASSUME NEW t \in Task, Work(t) PROVE IInv'
  <2>1. StateOK' /\ UNCHANGED callVars /\ \A u \in Task \ {t} : task'[u] = task[u]
      BY <1>3, WorkStep DEF IInv
  <2>2. ~ At(t, "none")
      BY <1>3 DEF Work, CheckTruncation, UdpAnswer, UdpTruncated, UdpFails, InsertTruncation,
                  Acquire, AcquireNone, Connect, Read, TcpFails, Release, Measure, At
  <2>3. status' = status
      BY <2>1 DEF callVars
  <2>4. Unborn'
      BY <2>1, <2>2, <2>3 DEF IInv, Unborn, At
  <2> QED
      BY <2>1, <2>4 DEF IInv
<1>4. CASE CleanPool \/ CleanTruncation \/ Tick
    BY <1>4, CleanStep
<1>5. CASE UNCHANGED vars
  <2>1. UNCHANGED <<asked, status, task, truncation, truncLock, pool, poolLock, now>>
      BY <1>5 DEF vars, callVars
  <2>2. TasksOK' /\ CallsOK' /\ PoolOK' /\ LocksOK' /\ Unborn'
      BY <2>1, PoolKept DEF IInv, StateOK, TasksOK, CallsOK, LocksOK, Unborn, At
  <2> QED
      BY <2>2 DEF IInv, StateOK
<1> QED
    BY <1>1, <1>2, <1>3, <1>4, <1>5 DEF Next

\* The invariant holds for any interleaving of calls, tasks and cleanup.
LEMMA Invariance == Spec => []IInv
BY InitIInv, NextIInv, PTL DEF Spec

(***************************************************************************)
(* query_servers_concurrent, query_via_tcp_pool: the mutexes of the pool   *)
(* and of the truncation cache are held by one task at most, only at the   *)
(* awaits inside their guards, and given back on every path.               *)
(***************************************************************************)
THEOREM TypeCorrect == Spec => []TypeOK
<1>1. IInv => TypeOK
  <2> SUFFICES ASSUME IInv PROVE TypeOK
      OBVIOUS
  <2>1. \A t \in Task : task[t].pc \in PC /\ task[t].msg \subseteq Msg
      BY DEF IInv, StateOK, TasksOK, Rec
  <2>2. Cardinality(truncLock) <= 1
    <3>1. Cardinality({}) = 0 /\ \A t : Cardinality({t}) = 1
        BY FS_EmptySet, FS_Singleton
    <3>2. truncLock = {} \/ \E t \in Task : truncLock = {t}
        BY DEF IInv, StateOK, LocksOK
    <3>3. Cardinality(truncLock) \in {0, 1}
        BY <3>1, <3>2, Zenon
    <3> QED
        BY <3>3
  <2>3. \A s \in Server : \A i, j \in DOMAIN pool[s] :
            i <= j => pool[s][i].last <= pool[s][j].last
      BY DEF IInv, StateOK, PoolOK, Orderly, Sorted
  <2> QED
      BY <2>1, <2>2, <2>3 DEF IInv, StateOK, LocksOK, TypeOK, PC, Msg
<1> QED
    BY <1>1, Invariance, PTL

(***************************************************************************)
(* query_via_tcp_pool: whatever fails or times out, a connection that is   *)
(* given back to the pool has no answer left to read.                      *)
(***************************************************************************)
THEOREM Clean == Spec => []ConnectionsClean
<1>1. IInv => ConnectionsClean
  <2> SUFFICES ASSUME IInv, NEW s \in Server, NEW i \in DOMAIN pool[s]
               PROVE  pool[s][i].conn = << >>
      BY DEF ConnectionsClean
  <2>1. Orderly(pool[s], now)
      BY DEF IInv, StateOK, PoolOK
  <2> QED
      BY <2>1, ConnectionFields, Zenon
<1> QED
    BY <1>1, Invariance, PTL

(***************************************************************************)
(* TcpPool::release, acquire, cleanup: never more than TCP_POOL_PER_SERVER *)
(* connections to a server.                                                *)
(***************************************************************************)
THEOREM Bounded == Spec => []PoolBounds
<1>1. IInv => PoolBounds
    BY DEF IInv, StateOK, PoolOK, Orderly, PoolBounds
<1> QED
    BY <1>1, Invariance, PTL

(***************************************************************************)
(* Refinement.                                                             *)
(***************************************************************************)
LEMMA StepRefines == IInv /\ [Next]_vars => [Abstract!Next]_(Abstract!vars)
<1> SUFFICES ASSUME IInv, [Next]_vars PROVE [Abstract!Next]_(Abstract!vars)
    OBVIOUS
<1>0. TasksOK /\ CallsOK
    BY DEF IInv, StateOK
<1>1. ASSUME NEW c \in Call, NEW servers \in SUBSET Server, query_servers_concurrent(c, servers)
      PROVE  Abstract!Next
  <2>1. Abstract!Ask(c, servers)
      BY <1>1 DEF query_servers_concurrent, Abstract!Ask
  <2> QED
      BY <2>1 DEF Abstract!Next
<1>2. ASSUME NEW c \in Call, NEW msgs, Return(c, msgs) PROVE Abstract!Return(c, msgs)
    BY <1>2 DEF Return, Abstract!Return
<1>3. ASSUME NEW c \in Call, FirstMessage(c) PROVE Abstract!Next
  <2>1. PICK s \in asked[c] : task[<<c, s>>].msg # {} /\ Return(c, task[<<c, s>>].msg)
      BY <1>3 DEF FirstMessage
  <2>2. s \in Server
      BY <1>0 DEF CallsOK
  <2>3. <<c, s>> \in Task /\ <<c, s>>[1] = c /\ <<c, s>>[2] = s
      BY <2>2 DEF Task
  <2>4. task[<<c, s>>].msg \in Own(<<c, s>>)
      BY <1>0, <2>3 DEF TasksOK, TaskOK
  <2>5. PICK tc \in BOOLEAN : task[<<c, s>>].msg = {Message(s, c, tc)}
      BY <2>1, <2>3, <2>4 DEF Own
  <2>6. Abstract!Return(c, {[from |-> s, query |-> c, tc |-> tc]})
      BY <1>2, <2>1, <2>5 DEF Message
  <2>7. Abstract!Answer(c)
      BY <2>6 DEF Abstract!Answer
  <2> QED
      BY <2>7 DEF Abstract!Next
<1>4. ASSUME NEW c \in Call, AllFailed(c) \/ Abandon(c) PROVE Abstract!Next
  <2>1. Abstract!Return(c, {})
      BY <1>2, <1>4 DEF AllFailed, Abandon
  <2> QED
      BY <2>1 DEF Abstract!Next
<1>5. ASSUME NEW t \in Task, Work(t) PROVE UNCHANGED Abstract!vars
    BY <1>5, WorkStep DEF IInv, callVars, Abstract!vars
<1>6. CASE CleanPool \/ CleanTruncation \/ Tick
    BY <1>6, CleanStep DEF callVars, Abstract!vars
<1>7. CASE UNCHANGED vars
    BY <1>7 DEF vars, callVars, Abstract!vars
<1> QED
    BY <1>1, <1>3, <1>4, <1>5, <1>6, <1>7 DEF Next, Finish

(***************************************************************************)
(* The race implements the safety part of Exchange: a call returns once,   *)
(* at most one message, from a server it asked and in answer to its own    *)
(* query, whatever the tasks of other calls do to the connections and the  *)
(* mutexes they share.                                                     *)
(***************************************************************************)
THEOREM RaceRefines == Spec => Abstract!Init /\ [][Abstract!Next]_(Abstract!vars)
<1>1. Init => Abstract!Init
    BY DEF Init, Abstract!Init
<1> QED
    BY <1>1, Invariance, StepRefines, PTL DEF Spec
===========================================================================
