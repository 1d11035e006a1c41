--------------------------- MODULE ResolverProofs ---------------------------
(***************************************************************************)
(* Proofs about resolve_with_ad, for every number of callers, prefetches   *)
(* and iterations, and every content of the messages: the shared cache     *)
(* keeps its invariants, what a refresh holds has expired, and the         *)
(* statistics add up at every instant.                                     *)
(***************************************************************************)
EXTENDS Resolver, DnsCacheProofs

(***************************************************************************)
(* The records of a message that answer the question.  f is the run of the *)
(* loop over the first n records of recs.                                  *)
(***************************************************************************)
DirectOf(f, recs, k, n) ==
    f = [i \in 0 .. n |->
            IF i = 0 THEN << >>
            ELSE IF recs[i].key = k THEN Append(f[i - 1], recs[i]) ELSE f[i - 1]]

\* The loop has a run, by the least number of records for which there were none.
LEMMA DirectExists ==
    ASSUME NEW recs, NEW k, NEW len \in Nat
    PROVE  \E f : DirectOf(f, recs, k, len)
<1> DEFINE T == {n \in Nat : ~ \E f : DirectOf(f, recs, k, n)}
<1>1. SUFFICES ASSUME T # {}
               PROVE  FALSE
  OBVIOUS
<1>2. PICK n \in T : \A m \in T : n <= m
  BY <1>1, LeastNat
<1>3. n # 0
  <2> DEFINE f == [i \in 0 .. 0 |-> << >>]
  <2>1. DirectOf(f, recs, k, 0)
    BY DEF DirectOf
  <2> QED
    BY <2>1
<1>4. n - 1 \in Nat /\ n - 1 \notin T
  BY <1>2, <1>3
<1>5. PICK f : DirectOf(f, recs, k, n - 1)
  BY <1>4
<1> DEFINE last == IF recs[n].key = k THEN Append(f[n - 1], recs[n]) ELSE f[n - 1]
           g == [i \in 0 .. n |-> IF i < n THEN f[i] ELSE last]
<1>6. ASSUME NEW i \in 0 .. n
      PROVE  g[i] = IF i = 0 THEN << >>
                    ELSE IF recs[i].key = k THEN Append(g[i - 1], recs[i]) ELSE g[i - 1]
  <2>1. CASE i = 0
    BY <1>3, <1>4, <1>5, <2>1 DEF DirectOf
  <2>2. CASE i # 0 /\ i < n
    <3>1. g[i] = f[i] /\ g[i - 1] = f[i - 1] /\ i \in 0 .. n - 1
      BY <2>2
    <3>2. f[i] = IF recs[i].key = k THEN Append(f[i - 1], recs[i]) ELSE f[i - 1]
      BY <1>5, <2>2, <3>1 DEF DirectOf
    <3> QED
      BY <2>2, <3>1, <3>2
  <2>3. CASE i = n
    BY <1>3, <2>3
  <2> QED
    BY <2>1, <2>2, <2>3
<1>7. DirectOf(g, recs, k, n)
  BY <1>6 DEF DirectOf
<1> QED
  BY <1>7

\* The records that answer are records of the message.
LEMMA DirectReceived ==
    ASSUME NEW recs \in Seq(Received), NEW k
    PROVE  Direct(recs, k) \in Seq(Received)
<1> DEFINE direct == CHOOSE f : DirectOf(f, recs, k, Len(recs))
           T == {i \in 0 .. Len(recs) : direct[i] \notin Seq(Received)}
<1>1. Direct(recs, k) = direct[Len(recs)]
  BY DEF Direct, DirectOf
<1>2. DirectOf(direct, recs, k, Len(recs))
  <2>1. Len(recs) \in Nat
    OBVIOUS
  <2>2. \E f : DirectOf(f, recs, k, Len(recs))
    BY <2>1, DirectExists
  <2> QED
    BY <2>2
<1> HIDE DEF direct
<1>3. T = {}
  <2>1. SUFFICES ASSUME T # {}
                 PROVE  FALSE
    OBVIOUS
  <2>2. PICK i \in T : \A j \in T : i <= j
    <3>1. T \subseteq Nat
      OBVIOUS
    <3> QED
      BY <2>1, <3>1, LeastNat
  <2>3. direct[0] = << >> /\ << >> \in Seq(Received)
    BY <1>2 DEF DirectOf
  <2>4. i # 0
    BY <2>2, <2>3
  <2>5. i - 1 \in 0 .. Len(recs) /\ i - 1 \notin T /\ i \in 1 .. Len(recs)
    BY <2>2, <2>4
  <2>6. direct[i - 1] \in Seq(Received) /\ recs[i] \in Received
    BY <2>5
  <2>7. direct[i] = IF recs[i].key = k THEN Append(direct[i - 1], recs[i]) ELSE direct[i - 1]
    BY <1>2, <2>4, <2>5 DEF DirectOf
  <2>8. direct[i] \in Seq(Received)
    BY <2>6, <2>7
  <2> QED
    BY <2>8
<1>4. Len(recs) \in 0 .. Len(recs)
  OBVIOUS
<1> QED
  BY <1>1, <1>3, <1>4

-----------------------------------------------------------------------------
(***************************************************************************)
(* The inductive invariant.  To TypeOK it adds the types of what a task    *)
(* carries from one await point to the next, because the records it        *)
(* received end up in the cache, and to StaleHidesOnlyNews that it holds   *)
(* from the miss on, before there are stale records to hide anything.      *)
(* StatsConservation is inductive once the counters and the points a task  *)
(* may stand at are known.                                                 *)
(***************************************************************************)
Kind == {"none", "answer", "nodata", "nxdomain", "ok", "error"}

Result == [kind : Kind, recs : Seq(Received)]

TaskPc == ClientPc \cup {"prefetch"}

TaskState ==
    [pc : TaskPc, key : Key \cup {NoKey}, n : 0 .. MaxIterations,
     chain : Seq(Received), got : Result, stale : SUBSET Entry,
     asked : Key \cup {NoKey}, start : Nat]

TaskInv(t, f) ==
    /\ f \in TaskState
    /\ t \in Client => f.pc \in ClientPc
    /\ t \in Prefetcher => f.pc \in {"idle", "prefetch"}
    /\ f.pc # "idle" => f.key \in Key
    /\ f.stale # {} => f.pc \in {"refresh", "refreshed", "unrefreshed"}
    /\ \A e \in f.stale : e.exp <= now

Tasks ==
    /\ task \in [Task -> TaskState]
    /\ \A t \in Task : TaskInv(t, task[t])

Counters ==
    /\ stats \in [total_queries : Nat, cache_hits : Nat, cache_misses : Nat,
                  failed_queries : Nat, served_stale : Nat]
    /\ seen = [asked |-> seen.asked, refreshed |-> seen.refreshed, early |-> seen.early,
               late |-> seen.late, rejected |-> seen.rejected]
    /\ {seen.asked, seen.refreshed, seen.early, seen.late} \subseteq Nat

\* A call that may serve stale records stands at one of these points.
Held == {"missed", "check", "refresh", "refreshed", "unrefreshed"}

\* All that l, the main store at t, holds of the question of a call in state f came in
\* after the call began, and outlasts the stale records of the call.
News(f, l, t) ==
    f.pc \in Held =>
        /\ f.asked \in Key
        /\ f.pc \in {"missed", "check"} => f.asked = f.key
        /\ f.start <= t
        /\ \A e \in Records(l, f.asked) :
               /\ Inserted(e) >= f.start
               /\ \A s \in f.stale : s.exp < e.exp

OnlyNews == \A c \in Client : News(task[c], cache.entries, now)

IInv ==
    /\ now \in Nat
    /\ CacheInv(cache, now)
    /\ Tasks
    /\ OnlyNews
    /\ Counters
    /\ StatsConservation

-----------------------------------------------------------------------------
(***************************************************************************)
(* The tasks.                                                              *)
(***************************************************************************)
\* A call that returns forgets what it held: an idle task holds nothing.
LEMMA IdleInv ==
    ASSUME NEW t \in Task
    PROVE  TaskInv(t, Idle)
<1>1. Nothing \in Result
  BY DEF Nothing, Result, Kind
<1>2. 0 \in 0 .. MaxIterations /\ << >> \in Seq(Received) /\ {} \in SUBSET Entry
  BY ResolverAssumption
<1> DEFINE none == Nothing
<1> HIDE DEF none
<1>3. none \in Result
  BY <1>1 DEF none
<1> DEFINE lit == [pc |-> "idle", key |-> NoKey, n |-> 0, chain |-> << >>, got |-> none,
                   stale |-> {}, asked |-> NoKey, start |-> 0]
<1>4. lit \in TaskState
  BY <1>2, <1>3 DEF TaskState, TaskPc, ClientPc
<1>5. lit = Idle
  BY DEF Idle, none
<1>6. lit.pc = "idle" /\ lit.stale = {}
  OBVIOUS
<1> QED
  BY <1>4, <1>5, <1>6 DEF TaskInv, ClientPc

\* A task starts at pc with nothing but its question.
LEMMA StartInv ==
    ASSUME NEW t \in Task, NEW k \in Key, NEW pc \in TaskPc,
           t \in Client => pc \in ClientPc, t \in Prefetcher => pc = "prefetch"
    PROVE  TaskInv(t, [Idle EXCEPT !.pc = pc, !.key = k])
<1> DEFINE i == Idle
           f == [i EXCEPT !.pc = pc, !.key = k]
<1>1. i \in TaskState /\ i.stale = {}
  BY IdleInv DEF TaskInv, Idle
<1> HIDE DEF i
<1>2. f \in TaskState /\ f.pc = pc /\ f.key = k /\ f.stale = {}
  BY <1>1 DEF TaskState
<1>3. f = [Idle EXCEPT !.pc = pc, !.key = k]
  BY DEF i
<1> HIDE DEF f
<1>4. TaskInv(t, f)
  BY <1>2 DEF TaskInv
<1> QED
  BY <1>3, <1>4

\* A call that missed also keeps its question and the time it began.
LEMMA MissInv ==
    ASSUME NEW c \in Client, NEW k \in Key, now \in Nat
    PROVE  TaskInv(c, [Idle EXCEPT !.pc = "missed", !.key = k, !.asked = k, !.start = now])
<1> DEFINE i == Idle
           f == [i EXCEPT !.pc = "missed", !.key = k, !.asked = k, !.start = now]
<1>1. i \in TaskState /\ i.stale = {} /\ "missed" \in TaskPc /\ "missed" \in ClientPc
  BY IdleInv DEF TaskInv, Idle, Task, TaskPc, ClientPc
<1> HIDE DEF i
<1>2. f \in TaskState /\ f.pc = "missed" /\ f.key = k /\ f.stale = {}
  BY <1>1 DEF TaskState
<1>3. f = [Idle EXCEPT !.pc = "missed", !.key = k, !.asked = k, !.start = now]
  BY DEF i
<1> HIDE DEF f
<1>4. TaskInv(c, f)
  BY <1>1, <1>2, ResolverAssumption DEF TaskInv
<1> QED
  BY <1>3, <1>4

\* A step of task t, to a state that is right for it, leaves the others right.
LEMMA TaskMoves ==
    ASSUME Tasks, NEW t \in Task, NEW f, TaskInv(t, f),
           task' = [task EXCEPT ![t] = f], now' = now
    PROVE  Tasks'
<1>1. f \in TaskState
  BY DEF TaskInv
<1>2. task' \in [Task -> TaskState] /\ task'[t] = f
  BY <1>1 DEF Tasks
<1>3. ASSUME NEW u \in Task
      PROVE  TaskInv(u, task[u])'
  <2>1. CASE u = t
    <3>1. PICK h : h = task[t]'
      OBVIOUS
    <3>2. h = f
      BY <1>2, <3>1
    <3> QED
      BY <2>1, <3>1, <3>2 DEF TaskInv
  <2>2. CASE u # t
    BY <2>2 DEF Tasks, TaskInv
  <2> QED
    BY <2>1, <2>2
<1> QED
  BY <1>2, <1>3 DEF Tasks

\* The tasks do not move, and the clock may.
LEMMA TasksStay ==
    ASSUME Tasks, task' = task, now \in Nat, now' \in Nat, now <= now'
    PROVE  Tasks'
<1>1. ASSUME NEW u \in Task
      PROVE  TaskInv(u, task[u])'
  <2>1. TaskInv(u, task[u]) /\ task[u] \in TaskState
    BY DEF Tasks
  <2>2. ASSUME NEW e \in task[u].stale
        PROVE  e.exp <= now'
    <3>1. e \in Entry
      BY <2>1 DEF TaskState
    <3>2. e.exp \in Nat /\ e.exp <= now
      BY <2>1, <3>1 DEF Entry, TaskInv
    <3> QED
      BY <3>2
  <2> QED
    BY <2>1, <2>2 DEF TaskInv
<1> QED
  BY <1>1 DEF Tasks

\* A call returns, and drops what it held.
LEMMA ReturnInv ==
    ASSUME Tasks, NEW t \in Task, Return(t), now' = now
    PROVE  Tasks'
BY IdleInv, TaskMoves DEF Return

\* The loop of a resolution: a referral or a CNAME consumes an iteration, a final
\* message leaves its records with the task.
LEMMA ReceiveTasks ==
    ASSUME Tasks, NEW t \in Task,
           ReceiveReferral(t) \/ ReceiveCname(t) \/ ReceiveFinal(t)
    PROVE  Tasks'
<1> DEFINE g == task[t]
           n1 == Least(g.n + 1, MaxIterations)
<1>1. /\ g \in TaskState
      /\ g.pc \in {"refresh", "recurse", "prefetch"}
      /\ TaskInv(t, g)
      /\ now' = now
  BY DEF Tasks, ReceiveReferral, ReceiveCname, ReceiveFinal, MayReceive, Waiting, Resolving
<1>2. n1 \in 0 .. MaxIterations
  <2>1. g.n \in 0 .. MaxIterations /\ MaxIterations \in Nat
    BY <1>1, ResolverAssumption DEF TaskState
  <2> DEFINE l == g.n
  <2> HIDE DEF g, l
  <2>2. l \in 0 .. MaxIterations
    BY <2>1 DEF l
  <2>3. Least(l + 1, MaxIterations) \in 0 .. MaxIterations
    BY <2>1, <2>2 DEF Least
  <2> QED
    BY <2>3 DEF l
<1>3. CASE ReceiveReferral(t)
  <2> DEFINE r == [g EXCEPT !.n = n1]
  <2>1. task' = [task EXCEPT ![t] = r]
    BY <1>3 DEF ReceiveReferral
  <2> HIDE DEF n1
  <2>2. r \in TaskState /\ r.pc = g.pc /\ r.key = g.key /\ r.stale = g.stale
    BY <1>1, <1>2 DEF TaskState
  <2> HIDE DEF r
  <2>3. TaskInv(t, r)
    BY <1>1, <2>2 DEF TaskInv
  <2> QED
    BY <1>1, <2>1, <2>3, TaskMoves
<1>4. CASE ReceiveCname(t)
  <2>1. PICK recs \in Section, target \in Key : \E i \in DOMAIN recs :
             task' = [task EXCEPT ![t].n = Least(@ + 1, MaxIterations),
                                  ![t].key = target,
                                  ![t].chain = Append(@, recs[i])]
    BY <1>4 DEF ReceiveCname
  <2>2. PICK i \in DOMAIN recs :
             task' = [task EXCEPT ![t].n = Least(@ + 1, MaxIterations),
                                  ![t].key = target,
                                  ![t].chain = Append(@, recs[i])]
    BY <2>1
  <2>3. recs \in Seq(Received)
    BY ResolverAssumption DEF Received
  <2> DEFINE x == recs[i]
             followed == Append(g.chain, x)
             r == [g EXCEPT !.n = n1, !.key = target, !.chain = followed]
  <2>4. task' = [task EXCEPT ![t] = r]
    BY <2>2, <1>1 DEF Tasks
  <2>5. followed \in Seq(Received)
    <3>1. g.chain \in Seq(Received) /\ x \in Received
      BY <1>1, <2>3 DEF TaskState
    <3> HIDE DEF x, g
    <3> QED
      BY <3>1
  <2> HIDE DEF n1, followed
  <2>6. r \in TaskState /\ r.pc = g.pc /\ r.key = target /\ r.stale = g.stale
    BY <1>1, <1>2, <2>5 DEF TaskState
  <2> HIDE DEF r
  <2>7. TaskInv(t, r)
    BY <1>1, <2>6 DEF TaskInv
  <2> QED
    BY <1>1, <2>4, <2>7, TaskMoves
<1>5. CASE ReceiveFinal(t)
  <2>1. PICK recs \in Section : \E got \in Result : task' = [task EXCEPT ![t].got = got]
    <3>1. PICK recs \in Section :
             LET direct == Direct(recs, g.key)
                 answer == IF direct = << >> THEN "nodata" ELSE "answer"
             IN  \/ task' = [task EXCEPT ![t].got = [kind |-> answer, recs |-> direct]]
                 \/ task' = [task EXCEPT ![t].got = [kind |-> "nxdomain", recs |-> << >>]]
      BY <1>5 DEF ReceiveFinal
    <3> DEFINE direct == Direct(recs, g.key)
               answer == IF direct = << >> THEN "nodata" ELSE "answer"
    <3>2. direct \in Seq(Received) /\ answer \in Kind
      BY ResolverAssumption, DirectReceived DEF Received, Kind
    <3>3. << >> \in Seq(Received) /\ "nxdomain" \in Kind
      BY DEF Kind
    <3>4. \/ task' = [task EXCEPT ![t].got = [kind |-> answer, recs |-> direct]]
          \/ task' = [task EXCEPT ![t].got = [kind |-> "nxdomain", recs |-> << >>]]
      BY <3>1
    <3> HIDE DEF direct, answer
    <3>5. /\ [kind |-> answer, recs |-> direct] \in Result
          /\ [kind |-> "nxdomain", recs |-> << >>] \in Result
      BY <3>2, <3>3 DEF Result
    <3> QED
      BY <3>4, <3>5
  <2>2. PICK got \in Result : task' = [task EXCEPT ![t].got = got]
    BY <2>1
  <2> DEFINE r == [g EXCEPT !.got = got]
  <2>3. task' = [task EXCEPT ![t] = r]
    BY <2>2
  <2>4. r \in TaskState /\ r.pc = g.pc /\ r.key = g.key /\ r.stale = g.stale
    BY <1>1 DEF TaskState
  <2> HIDE DEF r
  <2>5. TaskInv(t, r)
    BY <1>1, <2>4 DEF TaskInv
  <2> QED
    BY <1>1, <2>3, <2>5, TaskMoves
<1> QED
  BY <1>3, <1>4, <1>5

\* The point a task goes to when its resolution ends.
After(f) == {AfterOk[f.pc], AfterErr[f.pc]}

\* A resolution ends, with a result of any kind.
LEMMA FinishTasks ==
    ASSUME Tasks, NEW t \in Task, Resolving(t), NEW next \in After(task[t]),
           NEW kind \in Kind, NEW recs \in Seq(Received),
           Finish(t, next, kind, recs), now' = now
    PROVE  Tasks'
<1> DEFINE g == task[t]
<1>1. /\ g \in TaskState
      /\ g.pc \in {"refresh", "recurse", "prefetch"}
      /\ TaskInv(t, g)
  BY DEF Tasks, Resolving
<1>2. CASE next = "idle"
  BY <1>2, IdleInv, TaskMoves DEF Finish
<1>3. CASE next # "idle"
  <2> DEFINE got == [kind |-> kind, recs |-> recs]
             r == [g EXCEPT !.pc = next, !.n = 0, !.chain = << >>, !.got = got]
  <2>1. task' = [task EXCEPT ![t] = r]
    BY <1>3 DEF Finish
  <2>2. got \in Result
    BY DEF Result
  <2>3. /\ g.pc \in {"refresh", "recurse"} /\ next \in {"refreshed", "unrefreshed", "count"}
        /\ next = "count" => g.pc = "recurse"
    BY <1>1, <1>3 DEF After, AfterOk, AfterErr
  <2>4. << >> \in Seq(Received) /\ 0 \in 0 .. MaxIterations /\ next \in TaskPc /\ next \in ClientPc
    BY <2>3, ResolverAssumption DEF TaskPc, ClientPc
  <2> HIDE DEF got
  <2>5. r \in TaskState /\ r.pc = next /\ r.key = g.key /\ r.stale = g.stale
    BY <1>1, <2>2, <2>4 DEF TaskState
  <2> HIDE DEF r
  <2>6. TaskInv(t, r)
    BY <1>1, <2>3, <2>4, <2>5 DEF TaskInv
  <2> QED
    BY <2>1, <2>6, TaskMoves
<1> QED
  BY <1>2, <1>3

\* Every way a resolution ends is one of FinishTasks.
LEMMA ResolveTasks ==
    ASSUME Tasks, NEW t \in Task, Resolve(t)
    PROVE  Tasks'
<1> DEFINE g == task[t]
<1>1. g \in TaskState /\ {AfterOk[g.pc], AfterErr[g.pc]} = After(g)
  BY DEF Tasks, After
<1>2. {"ok", "nxdomain", "error"} \subseteq Kind /\ << >> \in Seq(Received)
  BY DEF Kind
<1>3. g.chain \o g.got.recs \in Seq(Received)
  <2>1. g.chain \in Seq(Received) /\ g.got \in Result
    BY <1>1 DEF TaskState
  <2>2. g.got.recs \in Seq(Received)
    BY <2>1 DEF Result
  <2> HIDE DEF g
  <2> QED
    BY <2>1, <2>2
<1>4. CASE ReceiveReferral(t) \/ ReceiveCname(t) \/ ReceiveFinal(t)
  BY <1>4, ReceiveTasks
<1>5. CASE ResolveOk(t)
  <2>1. Finish(t, AfterOk[g.pc], "ok", g.chain \o g.got.recs) /\ Resolving(t) /\ now' = now
    BY <1>5 DEF ResolveOk
  <2> DEFINE next == AfterOk[g.pc]
             recs == g.chain \o g.got.recs
  <2>2. next \in After(g) /\ recs \in Seq(Received) /\ Finish(t, next, "ok", recs)
    BY <1>1, <1>3, <2>1
  <2> HIDE DEF next, recs
  <2> QED
    BY <1>2, <2>1, <2>2, FinishTasks
<1>6. CASE ResolveNxDomain(t) \/ ResolveBogus(t) \/ ResolveFail(t)
  <2>1. PICK kind \in Kind : Finish(t, AfterErr[g.pc], kind, << >>)
    BY <1>2, <1>6 DEF ResolveNxDomain, ResolveBogus, ResolveFail
  <2>2. Resolving(t) /\ now' = now
    BY <1>6 DEF ResolveNxDomain, ResolveBogus, ResolveFail
  <2> DEFINE next == AfterErr[g.pc]
  <2>3. next \in After(g) /\ Finish(t, next, kind, << >>)
    BY <1>1, <2>1
  <2> HIDE DEF next
  <2> QED
    BY <1>2, <2>2, <2>3, FinishTasks
<1> QED
  BY <1>4, <1>5, <1>6 DEF Resolve

\* A call reads the stale store: what it takes along has expired.
LEMMA CheckStaleTasks ==
    ASSUME now \in Nat, CacheInv(cache, now), Tasks, NEW c \in Client, CheckStale(c)
    PROVE  Tasks'
<1> DEFINE g == task[c]
           stale == {e \in Records(cache.stale, g.key) : usable(e, now)}
           r == [g EXCEPT !.pc = "refresh", !.stale = stale]
<1>1. g \in TaskState /\ TaskInv(c, g) /\ g.pc = "check" /\ c \in Task /\ now' = now
  BY DEF Tasks, Task, CheckStale, At
<1>2. g.key \in Key
  BY <1>1 DEF TaskInv
<1>3. task' = [task EXCEPT ![c] = IF stale # {} THEN r
                                  ELSE [Idle EXCEPT !.pc = "recurse", !.key = g.key]]
  BY DEF CheckStale
<1>4. stale \subseteq Entry /\ \A e \in stale : e.exp <= now
  <2> DEFINE k == g.key
             l == cache.stale
  <2>1. GoodStore(l) /\ ExpiresBy(l, now)
    BY DEF CacheInv
  <2>2. k \in Key
    BY <1>2
  <2> HIDE DEF l, k
  <2>3. \A e \in Records(l, k) : e \in Entry /\ e.exp <= now
    BY <2>1, <2>2, StoredExp DEF ExpiresBy
  <2> QED
    BY <2>3 DEF l, k
<1>5. CASE stale # {}
  <2> HIDE DEF stale
  <2>1. r \in TaskState /\ r.pc = "refresh" /\ r.key = g.key /\ r.stale = stale
    BY <1>1, <1>4 DEF TaskState, TaskPc, ClientPc
  <2>2. task' = [task EXCEPT ![c] = r]
    BY <1>3, <1>5
  <2> HIDE DEF r
  <2>3. TaskInv(c, r)
    BY <1>1, <1>2, <1>4, <2>1, ResolverAssumption DEF TaskInv, ClientPc
  <2> QED
    BY <1>1, <2>2, <2>3, TaskMoves
<1>6. CASE stale = {}
  <2> DEFINE k == g.key
             f == [Idle EXCEPT !.pc = "recurse", !.key = k]
  <2>1. c \notin Prefetcher /\ "recurse" \in TaskPc /\ "recurse" \in ClientPc
    BY ResolverAssumption DEF TaskPc, ClientPc
  <2>2. task' = [task EXCEPT ![c] = f]
    BY <1>3, <1>6
  <2> HIDE DEF k
  <2>3. TaskInv(c, f)
    BY <1>1, <1>2, <2>1, StartInv DEF k
  <2> HIDE DEF f
  <2> QED
    BY <1>1, <2>2, <2>3, TaskMoves
<1> QED
  BY <1>5, <1>6

\* A call goes on to a point at which it holds no stale records.
LEMMA BecomeTasks ==
    ASSUME Tasks, NEW c \in Client, task[c].pc \in {"missed", "count"},
           NEW pc \in {"check", "store", "fail"}, Become(c, pc), now' = now
    PROVE  Tasks'
<1> DEFINE g == task[c]
           r == [g EXCEPT !.pc = pc]
<1>1. g \in TaskState /\ TaskInv(c, g) /\ c \in Task
  BY DEF Tasks, Task
<1>2. task' = [task EXCEPT ![c] = r]
  BY DEF Become
<1>3. pc \in TaskPc /\ pc \in ClientPc
  BY DEF TaskPc, ClientPc
<1>4. r \in TaskState /\ r.pc = pc /\ r.key = g.key /\ r.stale = g.stale
  BY <1>1, <1>3 DEF TaskState
<1> HIDE DEF r
<1>5. TaskInv(c, r)
  BY <1>1, <1>3, <1>4, ResolverAssumption DEF TaskInv
<1> QED
  BY <1>1, <1>2, <1>5, TaskMoves

\* Every step of a call in progress.
LEMMA ProceedTasks ==
    ASSUME now \in Nat, CacheInv(cache, now), Tasks, NEW c \in Client, Proceed(c)
    PROVE  Tasks'
<1>1. c \in Task
  BY DEF Task
<1>2. CASE CountMiss(c)
  BY <1>2, BecomeTasks DEF CountMiss, At
<1>3. CASE CheckStale(c)
  BY <1>3, CheckStaleTasks
<1>4. CASE Resolve(c)
  BY <1>1, <1>4, ResolveTasks
<1>5. CASE StoreRefreshed(c) \/ ServeStale(c) \/ StoreResult(c) \/ CountFailure(c)
  <2>1. Return(c) /\ now' = now
    BY <1>5 DEF StoreRefreshed, ServeStale, StoreResult, CountFailure
  <2> QED
    BY <1>1, <2>1, ReturnInv
<1>6. CASE Count(c)
  <2> DEFINE pc == IF task[c].got.kind = "ok" THEN "store" ELSE "fail"
  <2>1. Become(c, pc) /\ now' = now /\ task[c].pc = "count" /\ pc \in {"check", "store", "fail"}
    BY <1>6 DEF Count, At
  <2> HIDE DEF pc
  <2> QED
    BY <2>1, BecomeTasks
<1> QED
  BY <1>2, <1>3, <1>4, <1>5, <1>6 DEF Proceed

\* Every step.
LEMMA TasksStep ==
    ASSUME IInv, [Next]_vars
    PROVE  Tasks'
<1>0. now \in Nat /\ CacheInv(cache, now) /\ Tasks
  BY DEF IInv
<1>1. CASE \E p \in Prefetcher : Resolve(p)
  BY <1>0, <1>1, ResolveTasks DEF Task
<1>2. CASE \E c \in Client : Proceed(c)
  BY <1>0, <1>2, ProceedTasks
<1>3. CASE \E c \in Client : Cancel(c)
  BY <1>0, <1>3, ReturnInv DEF Cancel, Task
<1>4. ASSUME NEW c \in Client, NEW k \in Key, Miss(c, k)
      PROVE  Tasks'
  <2>1. c \in Task
    BY DEF Task
  <2>2. TaskInv(c, [Idle EXCEPT !.pc = "missed", !.key = k, !.asked = k, !.start = now])
    BY <1>0, MissInv
  <2> QED
    BY <1>0, <1>4, <2>1, <2>2, TaskMoves DEF Miss, Ask
<1>5. ASSUME NEW c \in Client, NEW k \in Key, NEW p \in Prefetcher, HitAndPrefetch(c, k, p)
      PROVE  Tasks'
  <2>1. p \in Task /\ "prefetch" \in TaskPc /\ p \notin Client
    BY ResolverAssumption DEF Task, TaskPc
  <2>2. TaskInv(p, [Idle EXCEPT !.pc = "prefetch", !.key = k])
    BY <2>1, StartInv
  <2> QED
    BY <1>0, <1>5, <2>1, <2>2, TaskMoves DEF HitAndPrefetch, Ask
<1>6. CASE task' = task /\ now' \in {now, now + 1}
  BY <1>0, <1>6, TasksStay
<1> QED
  BY <1>1, <1>2, <1>3, <1>4, <1>5, <1>6
     DEF Next, vars, Hit, Ask, CancelHit, ValidateLookup, PurgeTask, flush_cache, Tick

-----------------------------------------------------------------------------
(***************************************************************************)
(* The shared cache: every step that changes it is one method of DnsCache, *)
(* called with the key of a question or with records of a message.         *)
(***************************************************************************)
CacheCall ==
    \/ cache' = cache
    \/ \E k \in Key : cache' = lookup(cache, now, k)
    \/ \E k \in Key : cache' = lookup_stale(cache, now, k)
    \/ \E recs \in Seq(Received) : cache' = insert_records(cache, now, recs)
    \/ cache' = purge_expired(cache, now)
    \/ cache' = clear(cache)

\* Whatever the method, the cache keeps its invariant.
LEMMA CacheCallInv ==
    ASSUME now \in Nat, CacheInv(cache, now), CacheCall
    PROVE  \A t : t = now => CacheInv(cache', t)
<1>1. CASE cache' = cache
  BY <1>1
<1>2. CASE \E k \in Key : cache' = lookup(cache, now, k)
  BY <1>2, LookupInv
<1>3. CASE \E k \in Key : cache' = lookup_stale(cache, now, k)
  BY <1>3, LookupStaleInv
<1>4. CASE \E recs \in Seq(Received) : cache' = insert_records(cache, now, recs)
  BY <1>4, InsertRecordsInv
<1>5. CASE cache' = purge_expired(cache, now)
  BY <1>5, PurgeInv
<1>6. CASE cache' = clear(cache)
  BY <1>6, NewCacheInv DEF clear
<1> QED
  BY <1>1, <1>2, <1>3, <1>4, <1>5, <1>6 DEF CacheCall

\* The records a task stores were received.
LEMMA ProceedCalls ==
    ASSUME Tasks, NEW t \in Task, Resolve(t) \/ (t \in Client /\ Proceed(t))
    PROVE  CacheCall /\ now' = now
<1>1. task[t] \in TaskState /\ TaskInv(t, task[t])
  BY DEF Tasks
<1>2. task[t].got.recs \in Seq(Received)
  BY <1>1 DEF TaskState, Result
<1>3. \A recs \in Section : recs \in Seq(Received)
  BY ResolverAssumption DEF Received
<1>4. CASE ReceiveReferral(t)
  BY <1>3, <1>4 DEF ReceiveReferral, CacheCall
<1>5. CASE ReceiveCname(t)
  BY <1>3, <1>5 DEF ReceiveCname, CacheCall
<1>6. CASE ReceiveFinal(t)
  BY <1>3, <1>6 DEF ReceiveFinal, CacheCall
<1>7. CASE StoreRefreshed(t) \/ StoreResult(t)
  BY <1>2, <1>7 DEF StoreRefreshed, StoreResult, CacheCall
<1>8. CASE CheckStale(t)
  <2>1. task[t].key \in Key
    BY <1>1, <1>8 DEF TaskInv, CheckStale, At
  <2> QED
    BY <1>8, <2>1 DEF CheckStale, CacheCall
<1>9. CASE UNCHANGED <<cache, now>>
  BY <1>9 DEF CacheCall
<1> QED
  BY <1>4, <1>5, <1>6, <1>7, <1>8, <1>9
     DEF Resolve, Proceed, ResolveOk, ResolveNxDomain, ResolveBogus, ResolveFail,
         CountMiss, ServeStale, Count, CountFailure

\* Every step calls one method of the cache, or is a tick of the clock.
LEMMA StepCalls ==
    ASSUME Tasks, [Next]_vars
    PROVE  (CacheCall /\ now' = now) \/ Tick
<1>1. CASE (\E p \in Prefetcher : Resolve(p)) \/ (\E c \in Client : Proceed(c))
  BY <1>1, ProceedCalls DEF Task
<1>2. CASE \E c \in Client, k \in Key : Ask(c, k)
  BY <1>2 DEF Ask, CacheCall
<1>3. CASE \E c \in Client : Cancel(c)
  BY <1>3 DEF Cancel, CacheCall
<1>4. CASE (\E t \in Task : ValidateLookup(t)) \/ PurgeTask \/ flush_cache
  BY <1>4 DEF ValidateLookup, PurgeTask, flush_cache, CacheCall
<1>5. CASE UNCHANGED vars
  BY <1>5 DEF vars, CacheCall
<1> QED
  BY <1>1, <1>2, <1>3, <1>4, <1>5 DEF Next, Hit, HitAndPrefetch, Miss, CancelHit

\* Every step.
LEMMA CacheStep ==
    ASSUME IInv, [Next]_vars
    PROVE  now' \in Nat /\ CacheInv(cache, now)'
<1>0. now \in Nat /\ CacheInv(cache, now) /\ Tasks
  BY DEF IInv
<1>1. PICK t, c : t = now' /\ c = cache'
  OBVIOUS
<1>2. CASE CacheCall /\ now' = now
  <2>1. CacheInv(c, t)
    BY <1>0, <1>1, <1>2, CacheCallInv
  <2> QED
    BY <1>0, <1>1, <1>2, <2>1 DEF CacheInv
<1>3. CASE Tick
  <2>1. t = now + 1 /\ c = cache
    BY <1>1, <1>3 DEF Tick
  <2>2. CacheInv(c, t)
    BY <1>0, <2>1, TickInv
  <2> QED
    BY <1>0, <1>1, <2>1, <2>2 DEF CacheInv
<1> QED
  BY <1>0, <1>2, <1>3, StepCalls

-----------------------------------------------------------------------------
(***************************************************************************)
(* What a stale answer may hide.                                           *)
(***************************************************************************)
\* Whatever the method, what it leaves in the main store was there or is new.
LEMMA CallDescends ==
    ASSUME now \in Nat, CacheInv(cache, now), CacheCall
    PROVE  Descends(cache.entries, cache'.entries, now)
<1>1. Descends(cache.entries, cache.entries, now)
  BY DEF Descends, SameRecord
<1>2. CASE cache' = cache
  BY <1>1, <1>2
<1>3. ASSUME NEW k \in Key, cache' = lookup(cache, now, k)
      PROVE  Descends(cache.entries, cache'.entries, now)
  BY <1>3, LookupFrom DEF Descends
<1>4. ASSUME NEW k \in Key, cache' = lookup_stale(cache, now, k)
      PROVE  Descends(cache.entries, cache'.entries, now)
  BY <1>1, <1>4 DEF lookup_stale, CacheInv
<1>5. CASE \E recs \in Seq(Received) : cache' = insert_records(cache, now, recs)
  BY <1>5, InsertRecordsFrom
<1>6. CASE cache' = purge_expired(cache, now)
  BY <1>1, <1>6 DEF purge_expired, CacheInv
<1>7. CASE cache' = clear(cache)
  <2>1. \A k : Records(cache'.entries, k) = {}
    BY <1>7 DEF clear, NewCache, EmptyLru, Records
  <2> QED
    BY <2>1 DEF Descends
<1> QED
  BY <1>2, <1>3, <1>4, <1>5, <1>6, <1>7 DEF CacheCall

\* A store that descends from another keeps all news: a new record is younger than
\* the call and expires after everything that has expired.
LEMMA NewsKept ==
    ASSUME NEW t \in Nat, NEW u \in Nat, t <= u, NEW f \in TaskState,
           \A s \in f.stale : s.exp <= t,
           NEW l, NEW m, GoodStore(m), Descends(l, m, t), News(f, l, t)
    PROVE  News(f, m, u)
<1> SUFFICES ASSUME f.pc \in Held
             PROVE  /\ f.asked \in Key
                    /\ f.pc \in {"missed", "check"} => f.asked = f.key
                    /\ f.start <= u
                    /\ \A e \in Records(m, f.asked) :
                           /\ Inserted(e) >= f.start
                           /\ \A s \in f.stale : s.exp < e.exp
  BY DEF News
<1>1. /\ f.asked \in Key
      /\ f.pc \in {"missed", "check"} => f.asked = f.key
      /\ f.start <= t
      /\ \A e \in Records(l, f.asked) :
             /\ Inserted(e) >= f.start
             /\ \A s \in f.stale : s.exp < e.exp
  BY DEF News
<1>2. f.start \in Nat /\ f.stale \subseteq Entry
  BY DEF TaskState
<1>3. ASSUME NEW e \in Records(m, f.asked)
      PROVE  /\ Inserted(e) >= f.start
             /\ \A s \in f.stale : s.exp < e.exp
  <2>1. e \in Entry /\ e.exp \in Nat
    BY StoredExp
  <2>2. \/ \E g \in Records(l, f.asked) : SameRecord(e, g)
        \/ e.exp = t + e.ttl * Sec /\ e.exp > t
    BY <1>1 DEF Descends
  <2>3. CASE \E g \in Records(l, f.asked) : SameRecord(e, g)
    BY <1>1, <2>3 DEF SameRecord, Inserted
  <2>4. CASE e.exp = t + e.ttl * Sec /\ e.exp > t
    <3> DEFINE life == e.ttl * Sec
    <3>1. life \in Nat
      BY <2>1, DnsCacheAssumption DEF Entry
    <3>2. Inserted(e) = e.exp - life /\ e.exp = t + life
      BY <2>4 DEF Inserted
    <3> HIDE DEF life
    <3>3. Inserted(e) >= f.start
      BY <1>1, <1>2, <3>1, <3>2
    <3>4. \A s \in f.stale : s.exp < e.exp
      BY <1>2, <2>1, <2>4 DEF Entry
    <3> QED
      BY <3>3, <3>4
  <2> QED
    BY <2>2, <2>3, <2>4
<1> QED
  BY <1>1, <1>2, <1>3

\* What the steps of a call but the miss and the check for stale records leave alone.
Follows(g, r) ==
    r.pc \in Held =>
        /\ g.pc \in Held
        /\ r.asked = g.asked /\ r.start = g.start /\ r.stale = g.stale
        /\ r.pc \in {"missed", "check"} => g.pc \in {"missed", "check"} /\ r.key = g.key

\* A task that follows so keeps what was news to it.
LEMMA FollowsNews ==
    ASSUME NEW g, NEW r, Follows(g, r), NEW l, NEW t, News(g, l, t)
    PROVE  News(r, l, t)
BY DEF Follows, News

\* One task moves, and the others stay.
LEMMA FollowsMove ==
    ASSUME Tasks, NEW t \in Task, NEW r, task' = [task EXCEPT ![t] = r], Follows(task[t], r)
    PROVE  \A u \in Task : Follows(task[u], task'[u])
<1> SUFFICES ASSUME NEW u \in Task
             PROVE  Follows(task[u], task'[u])
  OBVIOUS
<1>1. CASE u = t
  <2>1. task'[u] = r
    BY <1>1 DEF Tasks
  <2> QED
    BY <1>1, <2>1
<1>2. CASE u # t
  <2>1. task'[u] = task[u]
    BY <1>2 DEF Tasks
  <2> QED
    BY <2>1 DEF Follows
<1> QED
  BY <1>1, <1>2

\* A call that returns is not held.
LEMMA IdleFollows ==
    ASSUME NEW g
    PROVE  Follows(g, Idle)
<1>1. Idle.pc \notin Held
  BY DEF Idle, Held
<1> QED
  BY <1>1 DEF Follows

\* A resolution holds on to the question, the start and the stale records.
LEMMA ResolveFollows ==
    ASSUME Tasks, NEW t \in Task, Resolve(t)
    PROVE  \A u \in Task : Follows(task[u], task'[u])
<1> DEFINE g == task[t]
<1>1. g \in TaskState /\ g.pc \in {"refresh", "recurse", "prefetch"}
  BY DEF Tasks, Resolve, ReceiveReferral, ReceiveCname, ReceiveFinal, MayReceive, Waiting,
         ResolveOk, ResolveNxDomain, ResolveBogus, ResolveFail, Resolving
<1>2. CASE ReceiveReferral(t) \/ ReceiveCname(t) \/ ReceiveFinal(t)
  <2>1. PICK r : /\ task' = [task EXCEPT ![t] = r]
                 /\ r.pc = g.pc /\ r.asked = g.asked /\ r.start = g.start
                 /\ r.stale = g.stale
    <3>1. CASE ReceiveReferral(t)
      <4> DEFINE n == Least(g.n + 1, MaxIterations)
                 r == [g EXCEPT !.n = n]
      <4>1. task' = [task EXCEPT ![t] = r]
        BY <3>1 DEF ReceiveReferral
      <4> HIDE DEF n
      <4>2. /\ r.pc = g.pc /\ r.asked = g.asked /\ r.start = g.start
            /\ r.stale = g.stale
        BY <1>1 DEF TaskState
      <4> QED
        BY <4>1, <4>2
    <3>2. CASE ReceiveCname(t)
      <4>1. PICK n, key, chain :
              task' = [task EXCEPT ![t].n = n, ![t].key = key, ![t].chain = chain]
        BY <3>2 DEF ReceiveCname
      <4> DEFINE r == [g EXCEPT !.n = n, !.key = key, !.chain = chain]
      <4>2. task' = [task EXCEPT ![t] = r]
        BY <4>1 DEF Tasks
      <4>3. /\ r.pc = g.pc /\ r.asked = g.asked /\ r.start = g.start
            /\ r.stale = g.stale
        BY <1>1 DEF TaskState
      <4> QED
        BY <4>2, <4>3
    <3>3. CASE ReceiveFinal(t)
      <4>1. PICK got : task' = [task EXCEPT ![t].got = got]
        BY <3>3 DEF ReceiveFinal
      <4> DEFINE r == [g EXCEPT !.got = got]
      <4>2. task' = [task EXCEPT ![t] = r]
        BY <4>1
      <4>3. /\ r.pc = g.pc /\ r.asked = g.asked /\ r.start = g.start
            /\ r.stale = g.stale
        BY <1>1 DEF TaskState
      <4> QED
        BY <4>2, <4>3
    <3> QED
      BY <1>2, <3>1, <3>2, <3>3
  <2>2. Follows(g, r)
    BY <1>1, <2>1 DEF Follows
  <2> QED
    BY <2>1, <2>2, FollowsMove
<1>3. CASE ResolveOk(t) \/ ResolveNxDomain(t) \/ ResolveBogus(t) \/ ResolveFail(t)
  <2>1. PICK next, kind, recs : next \in After(g) /\ Finish(t, next, kind, recs)
    BY <1>3 DEF ResolveOk, ResolveNxDomain, ResolveBogus, ResolveFail, After
  <2>2. CASE next = "idle"
    <3>1. task' = [task EXCEPT ![t] = Idle]
      BY <2>1, <2>2 DEF Finish
    <3> QED
      BY <3>1, IdleFollows, FollowsMove
  <2>3. CASE next # "idle"
    <3> DEFINE got == [kind |-> kind, recs |-> recs]
               r == [g EXCEPT !.pc = next, !.n = 0, !.chain = << >>, !.got = got]
    <3>1. task' = [task EXCEPT ![t] = r]
      BY <2>1, <2>3 DEF Finish
    <3>2. next \in Held => g.pc = "refresh" /\ next \in {"refreshed", "unrefreshed"}
      BY <1>1, <2>1, <2>3 DEF After, AfterOk, AfterErr, Held
    <3> HIDE DEF got
    <3>3. r.pc = next /\ r.asked = g.asked /\ r.start = g.start /\ r.stale = g.stale
      BY <1>1 DEF TaskState
    <3> HIDE DEF r
    <3>4. Follows(g, r)
      BY <3>2, <3>3 DEF Follows, Held
    <3> QED
      BY <3>1, <3>4, FollowsMove
  <2> QED
    BY <2>2, <2>3
<1> QED
  BY <1>2, <1>3 DEF Resolve

\* Every step but a miss and a check for stale records.
LEMMA StepFollows ==
    ASSUME Tasks, [Next]_vars,
           \A c \in Client : ~ CheckStale(c) /\ \A k \in Key : ~ Miss(c, k)
    PROVE  \A u \in Task : Follows(task[u], task'[u])
<1>1. CASE \E t \in Task : Resolve(t)
  BY <1>1, ResolveFollows
<1>2. CASE \E t \in Task : Return(t)
  BY <1>2, IdleFollows, FollowsMove DEF Return
<1>3. ASSUME NEW c \in Client, CountMiss(c) \/ Count(c)
      PROVE  \A u \in Task : Follows(task[u], task'[u])
  <2> DEFINE g == task[c]
  <2>1. g \in TaskState /\ c \in Task
    BY DEF Tasks, Task
  <2>2. PICK pc : /\ task' = [task EXCEPT ![c].pc = pc]
                  /\ \/ g.pc = "missed" /\ pc = "check"
                     \/ pc \in {"store", "fail"}
    BY <1>3 DEF CountMiss, Count, Become, At
  <2> DEFINE r == [g EXCEPT !.pc = pc]
  <2>3. task' = [task EXCEPT ![c] = r]
    BY <2>2
  <2>4. /\ r.pc = pc /\ r.asked = g.asked /\ r.start = g.start /\ r.stale = g.stale
        /\ r.key = g.key
    BY <2>1 DEF TaskState
  <2> HIDE DEF r
  <2>5. Follows(g, r)
    BY <2>2, <2>4 DEF Follows, Held
  <2> QED
    BY <2>1, <2>3, <2>5, FollowsMove
<1>4. ASSUME NEW c \in Client, NEW k \in Key, NEW p \in Prefetcher, HitAndPrefetch(c, k, p)
      PROVE  \A u \in Task : Follows(task[u], task'[u])
  <2> DEFINE r == [Idle EXCEPT !.pc = "prefetch", !.key = k]
  <2>1. task' = [task EXCEPT ![p] = r] /\ p \in Task
    BY <1>4 DEF HitAndPrefetch, Task
  <2>2. r.pc \notin Held
    BY DEF Idle, Held
  <2> HIDE DEF r
  <2>3. Follows(task[p], r)
    BY <2>2 DEF Follows
  <2> QED
    BY <2>1, <2>3, FollowsMove
<1>5. CASE task' = task
  BY <1>5 DEF Follows
<1>6. \A c \in Client : c \in Task
  BY DEF Task
<1>7. \A p \in Prefetcher : p \in Task
  BY DEF Task
<1>8. CASE \E c \in Client : Proceed(c)
  BY <1>1, <1>2, <1>3, <1>6, <1>8
     DEF Proceed, StoreRefreshed, ServeStale, StoreResult, CountFailure
<1>9. CASE \E c \in Client : Cancel(c)
  BY <1>2, <1>6, <1>9 DEF Cancel
<1>10. CASE \E p \in Prefetcher : Resolve(p)
  BY <1>1, <1>7, <1>10
<1> QED
  BY <1>4, <1>5, <1>8, <1>9, <1>10
     DEF Next, vars, Hit, CancelHit, ValidateLookup, PurgeTask, flush_cache, Tick

\* A miss leaves nothing of the question in the main store.
LEMMA MissNews ==
    ASSUME now \in Nat, Tasks, NEW c \in Client, NEW k \in Key, Miss(c, k)
    PROVE  News(task'[c], cache'.entries, now)
<1> DEFINE f == [Idle EXCEPT !.pc = "missed", !.key = k, !.asked = k, !.start = now]
<1>1. task'[c] = f
  BY DEF Miss, Tasks, Task
<1>2. /\ f.pc = "missed" /\ f.key = k /\ f.asked = k /\ f.start = now
  BY DEF Idle
<1>3. Records(cache'.entries, k) = {}
  <2>1. Fresh(cache, now, k) = {} /\ cache' = lookup(cache, now, k)
    BY DEF Miss, Ask, found
  <2>2. cache'.entries = Pop(cache.entries, k)
    BY <2>1 DEF lookup
  <2> QED
    BY <2>2, RetainRecords DEF Pop
<1> HIDE DEF f
<1> QED
  BY <1>1, <1>2, <1>3 DEF News

\* The stale records a call reads expired before the others of its question do.
LEMMA CheckStaleNews ==
    ASSUME now \in Nat, CacheInv(cache, now), Tasks, NEW c \in Client, CheckStale(c),
           News(task[c], cache.entries, now)
    PROVE  News(task'[c], cache'.entries, now)
<1> DEFINE g == task[c]
           stale == {e \in Records(cache.stale, g.key) : usable(e, now)}
           r == [g EXCEPT !.pc = "refresh", !.stale = stale]
           f == IF stale # {} THEN r ELSE [Idle EXCEPT !.pc = "recurse", !.key = g.key]
<1>1. g \in TaskState /\ g.pc = "check" /\ g.pc \in Held /\ c \in Task
  BY DEF Tasks, Task, CheckStale, At, Held
<1>2. task'[c] = f
  BY <1>1 DEF CheckStale, Tasks
<1>3. cache'.entries = cache.entries
  BY DEF CheckStale, lookup_stale, CacheInv
<1>4. /\ g.asked \in Key /\ g.asked = g.key /\ g.start <= now
      /\ \A e \in Records(cache.entries, g.asked) : Inserted(e) >= g.start
  BY <1>1 DEF News
<1>5. CASE stale = {}
  <2>1. f.pc \notin Held
    BY <1>5 DEF Idle, Held
  <2> HIDE DEF f
  <2> QED
    BY <1>2, <2>1 DEF News
<1>6. CASE stale # {}
  <2>1. \A e \in Records(cache.entries, g.key), s \in stale : s.exp < e.exp
    BY <1>4 DEF CacheInv, Older
  <2> HIDE DEF stale
  <2>2. r.pc = "refresh" /\ r.asked = g.asked /\ r.start = g.start /\ r.stale = stale
    BY <1>1 DEF TaskState
  <2>3. task'[c] = r
    BY <1>2, <1>6
  <2> HIDE DEF r, f
  <2> QED
    BY <1>3, <1>4, <2>1, <2>2, <2>3 DEF News
<1> QED
  BY <1>5, <1>6

\* Every step.
LEMMA NewsStep ==
    ASSUME IInv, [Next]_vars
    PROVE  OnlyNews'
<1>0. now \in Nat /\ CacheInv(cache, now) /\ Tasks /\ OnlyNews
  BY DEF IInv
<1>1. PICK t, l : t = now' /\ l = cache'.entries
  OBVIOUS
<1>2. /\ Descends(cache.entries, l, now)
      /\ t \in Nat /\ now <= t
  <2>1. CASE CacheCall /\ now' = now
    BY <1>0, <1>1, <2>1, CallDescends
  <2>2. CASE Tick
    <3>1. t = now + 1 /\ l = cache.entries
      BY <1>1, <2>2 DEF Tick
    <3> QED
      BY <1>0, <3>1 DEF Descends, SameRecord
  <2> QED
    BY <1>0, <2>1, <2>2, StepCalls
<1>3. GoodStore(l)
  BY <1>1, CacheStep DEF CacheInv
<1>4. ASSUME NEW c \in Client
      PROVE  News(task[c], l, t)
  <2>1. task[c] \in TaskState /\ \A s \in task[c].stale : s.exp <= now
    BY <1>0 DEF Tasks, TaskInv, Task
  <2>2. News(task[c], cache.entries, now)
    BY <1>0 DEF OnlyNews
  <2> QED
    BY <1>0, <1>2, <1>3, <2>1, <2>2, NewsKept
<1>5. ASSUME NEW c \in Client
      PROVE  News(task'[c], l, t)
  <2>1. CASE Follows(task[c], task'[c])
    BY <1>4, <2>1, FollowsNews
  <2>2. ASSUME NEW d \in Client, NEW k \in Key, Miss(d, k)
        PROVE  News(task'[c], l, t)
    <3>1. CASE c = d
      BY <1>0, <1>1, <2>2, <3>1, MissNews DEF Miss, Ask
    <3>2. CASE c # d
      BY <1>0, <1>4, <2>2, <3>2 DEF Miss, Tasks, Task
    <3> QED
      BY <3>1, <3>2
  <2>3. ASSUME NEW d \in Client, CheckStale(d)
        PROVE  News(task'[c], l, t)
    <3>1. CASE c = d
      BY <1>0, <1>1, <2>3, <3>1, CheckStaleNews DEF CheckStale, OnlyNews
    <3>2. CASE c # d
      BY <1>0, <1>4, <2>3, <3>2 DEF CheckStale, Tasks, Task
    <3> QED
      BY <3>1, <3>2
  <2> QED
    BY <1>0, <2>1, <2>2, <2>3, StepFollows DEF Task
<1> QED
  BY <1>1, <1>5 DEF OnlyNews, News

-----------------------------------------------------------------------------
(***************************************************************************)
(* The statistics.                                                         *)
(***************************************************************************)
One(b) == IF b THEN 1 ELSE 0

\* The calls at given points, when call c moves from pc to qc and no other moves.
LEMMA CallMoves ==
    ASSUME NEW c \in Client, NEW pcs, NEW pc, NEW qc, task[c].pc = pc, task'[c].pc = qc,
           \A d \in Client \ {c} : task'[d].pc = task[d].pc
    PROVE  /\ In(pcs) \in Nat /\ In(pcs)' \in Nat
           /\ In(pcs)' = In(pcs) + One(qc \in pcs) - One(pc \in pcs)
<1> DEFINE rest == {d \in Client \ {c} : task[d].pc \in pcs}
           before == {d \in Client : task[d].pc \in pcs}
           after == {d \in Client : task'[d].pc \in pcs}
<1>1. IsFiniteSet(rest) /\ c \notin rest
  <2>1. IsFiniteSet(Client) /\ rest \subseteq Client
    BY ResolverAssumption
  <2> QED
    BY <2>1, FS_Subset
<1>2. /\ before = IF pc \in pcs THEN rest \cup {c} ELSE rest
      /\ after = IF qc \in pcs THEN rest \cup {c} ELSE rest
  OBVIOUS
<1>3. Cardinality(rest) \in Nat /\ Cardinality(rest \cup {c}) = Cardinality(rest) + 1
  BY <1>1, FS_CardinalityType, FS_AddElement
<1>4. In(pcs) = Cardinality(before) /\ In(pcs)' = Cardinality(after)
  BY DEF In
<1> HIDE DEF before, after, rest
<1> QED
  BY <1>2, <1>3, <1>4 DEF One

\* StatsConservation as three balances: the lookups that are neither hits nor
\* misses yet, the misses that no counter settles yet, and the resolved queries
\* that have not failed.
Missed == {"missed"}
Open == {"check", "refresh", "recurse", "refreshed", "unrefreshed", "count"}
Failing == {"fail"}

Looked == seen.asked - stats.cache_hits - stats.cache_misses - seen.early
Unsettled ==
    stats.cache_misses - (stats.total_queries - stats.cache_hits) - stats.served_stale
    - seen.refreshed - seen.late
Unfailed == (stats.total_queries - stats.cache_hits) - stats.failed_queries

\* StatsConservation gives the three.
LEMMA Balances ==
    ASSUME Counters, In(Missed) \in Nat, In(Open) \in Nat, In(Failing) \in Nat
    PROVE  StatsConservation =>
           (Looked = In(Missed) /\ Unsettled = In(Open) /\ In(Failing) <= Unfailed)
<1> DEFINE m == In(Missed)
           o == In(Open)
           f == In(Failing)
<1>1. StatsConservation <=>
        /\ seen.asked = stats.cache_hits + stats.cache_misses + m + seen.early
        /\ stats.cache_misses =
               (stats.total_queries - stats.cache_hits) + stats.served_stale
               + seen.refreshed + seen.late + o
        /\ stats.failed_queries + f <= stats.total_queries - stats.cache_hits
  BY DEF StatsConservation, Missed, Open, Failing
<1>2. m \in Nat /\ o \in Nat /\ f \in Nat
  OBVIOUS
<1> HIDE DEF m, o, f
<1>3. /\ {stats.total_queries, stats.cache_hits, stats.cache_misses, stats.failed_queries,
          stats.served_stale} \subseteq Nat
      /\ {seen.asked, seen.refreshed, seen.early, seen.late} \subseteq Nat
  BY DEF Counters
<1>4. StatsConservation <=> (Looked = m /\ Unsettled = o /\ f <= Unfailed)
  BY <1>1, <1>2, <1>3 DEF Looked, Unsettled, Unfailed
<1> QED
  BY <1>4 DEF m, o, f

PcMoves(c, pc, qc) ==
    /\ task[c].pc = pc
    /\ task'[c].pc = qc
    /\ \A d \in Client \ {c} : task'[d].pc = task[d].pc

\* Call c moves from pc to qc, and the counters account for it.
LEMMA Accounted ==
    ASSUME Counters, Counters', StatsConservation, NEW c \in Client, NEW pc, NEW qc,
           PcMoves(c, pc, qc),
           Looked' = Looked + One(qc \in Missed) - One(pc \in Missed),
           Unsettled' = Unsettled + One(qc \in Open) - One(pc \in Open),
           Unfailed' >= Unfailed + One(qc \in Failing) - One(pc \in Failing)
    PROVE  StatsConservation'
<1>1. ASSUME NEW pcs
      PROVE  /\ In(pcs) \in Nat /\ In(pcs)' \in Nat
             /\ In(pcs)' = In(pcs) + One(qc \in pcs) - One(pc \in pcs)
  BY CallMoves DEF PcMoves
<1>2. /\ In(Missed) \in Nat /\ In(Missed)' \in Nat
      /\ In(Open) \in Nat /\ In(Open)' \in Nat
      /\ In(Failing) \in Nat /\ In(Failing)' \in Nat
  BY <1>1 DEF Missed, Open, Failing
<1>3. /\ In(Missed)' = In(Missed) + One(qc \in Missed) - One(pc \in Missed)
      /\ In(Open)' = In(Open) + One(qc \in Open) - One(pc \in Open)
      /\ In(Failing)' = In(Failing) + One(qc \in Failing) - One(pc \in Failing)
  BY <1>1 DEF Missed, Open, Failing
<1>4. Looked = In(Missed) /\ Unsettled = In(Open) /\ In(Failing) <= Unfailed
  BY <1>2, Balances
<1>5. Looked' = In(Missed)' /\ Unsettled' = In(Open)'
  BY <1>3, <1>4
<1>6. In(Failing)' <= Unfailed'
  <2> DEFINE a == One(qc \in Failing)
             b == One(pc \in Failing)
             f == In(Failing)
             u == Unfailed
  <2>1. PICK f1, u1 : f1 = In(Failing)' /\ u1 = Unfailed'
    OBVIOUS
  <2>2. a \in Nat /\ b \in Nat /\ f \in Nat /\ f1 \in Nat
    BY <1>2, <2>1 DEF One
  <2>3. u \in Int /\ u1 \in Int
    BY <2>1 DEF Unfailed, Counters
  <2>4. f <= u /\ u1 >= u + a - b /\ f1 = f + a - b
    BY <1>3, <1>4, <2>1
  <2> HIDE DEF a, b, f, u
  <2>5. f1 <= u1
    BY <2>2, <2>3, <2>4
  <2> QED
    BY <2>1, <2>5
<1>7. PICK m, o, f : m = In(Missed)' /\ o = In(Open)' /\ f = In(Failing)'
  OBVIOUS
<1>8. m \in Nat /\ o \in Nat /\ f \in Nat /\ Looked' = m /\ Unsettled' = o /\ f <= Unfailed'
  BY <1>2, <1>5, <1>6, <1>7
<1>9. /\ {stats'.total_queries, stats'.cache_hits, stats'.cache_misses,
          stats'.failed_queries, stats'.served_stale} \subseteq Nat
      /\ {seen'.asked, seen'.refreshed, seen'.early, seen'.late} \subseteq Nat
  BY DEF Counters
<1>10. /\ seen'.asked = stats'.cache_hits + stats'.cache_misses + m + seen'.early
       /\ stats'.cache_misses =
              (stats'.total_queries - stats'.cache_hits) + stats'.served_stale
              + seen'.refreshed + seen'.late + o
       /\ stats'.failed_queries + f <= stats'.total_queries - stats'.cache_hits
  BY <1>8, <1>9 DEF Looked, Unsettled, Unfailed
<1> QED
  BY <1>7, <1>10 DEF StatsConservation, Missed, Open, Failing

\* No call moves and no counter changes.
LEMMA StatsStay ==
    ASSUME Counters, StatsConservation, stats' = stats,
           \A d \in Client : task'[d].pc = task[d].pc,
           seen' = seen \/ \E x : seen' = [seen EXCEPT !.rejected = x]
    PROVE  Counters' /\ StatsConservation'
<1>1. \A pcs : {d \in Client : task'[d].pc \in pcs} = {d \in Client : task[d].pc \in pcs}
  OBVIOUS
<1>2. /\ In({"missed"})' = In({"missed"})
      /\ In({"fail"})' = In({"fail"})
      /\ In({"check", "refresh", "recurse", "refreshed", "unrefreshed", "count"})'
           = In({"check", "refresh", "recurse", "refreshed", "unrefreshed", "count"})
  BY <1>1 DEF In
<1>3. /\ seen'.asked = seen.asked /\ seen'.refreshed = seen.refreshed
      /\ seen'.early = seen.early /\ seen'.late = seen.late
      /\ seen' = [asked |-> seen'.asked, refreshed |-> seen'.refreshed, early |-> seen'.early,
                  late |-> seen'.late, rejected |-> seen'.rejected]
  BY DEF Counters
<1> QED
  BY <1>2, <1>3 DEF Counters, StatsConservation

\* The three balances before and after a step, field by field.
LEMMA BalancesMove ==
    ASSUME Counters
    PROVE  /\ Looked \in Int /\ Unsettled \in Int /\ Unfailed \in Int
           /\ stats' = stats => Unfailed' = Unfailed
           /\ (stats' = stats /\ seen' = seen) => (Looked' = Looked /\ Unsettled' = Unsettled)
BY DEF Counters, Looked, Unsettled, Unfailed

\* A lookup by a call that was idle: a hit counts as a query, a miss leaves the
\* call on its way, and a call dropped after its hit is in no statistic.
LEMMA AskStats ==
    ASSUME IInv, NEW c \in Client, NEW k \in Key,
           \/ Hit(c, k) \/ Miss(c, k) \/ CancelHit(c, k)
           \/ \E p \in Prefetcher : HitAndPrefetch(c, k, p)
    PROVE  Counters' /\ StatsConservation'
<1>0. Counters /\ StatsConservation /\ Tasks /\ task \in [Task -> TaskState] /\ c \in Task
  BY DEF IInv, Tasks, Task
<1>1. \A d \in Client : d \in Task
  BY DEF Task
<1>2. CASE Hit(c, k) \/ \E p \in Prefetcher : HitAndPrefetch(c, k, p)
  <2>1. /\ stats' = [stats EXCEPT !.cache_hits = @ + 1, !.total_queries = @ + 1]
        /\ seen' = [seen EXCEPT !.asked = @ + 1]
    BY <1>2 DEF Hit, HitAndPrefetch, CountHit, Asked
  <2>2. PcMoves(c, "idle", "idle")
    <3>1. CASE Hit(c, k)
      BY <3>1 DEF Hit, Ask, At, PcMoves
    <3>2. CASE \E p \in Prefetcher : HitAndPrefetch(c, k, p)
      <4>1. PICK p \in Prefetcher : HitAndPrefetch(c, k, p)
        BY <3>2
      <4>2. \A d \in Client : d # p /\ task'[d] = task[d]
        BY <1>0, <1>1, <4>1, ResolverAssumption DEF HitAndPrefetch
      <4> QED
        BY <4>1, <4>2 DEF HitAndPrefetch, Ask, At, PcMoves
    <3> QED
      BY <1>2, <3>1, <3>2
  <2>3. Counters'
    <3>1. stats' \in [total_queries : Nat, cache_hits : Nat, cache_misses : Nat,
                      failed_queries : Nat, served_stale : Nat]
      <4> DEFINE h == stats.cache_hits + 1
                 q == stats.total_queries + 1
      <4>1. h \in Nat /\ q \in Nat /\ stats' = [stats EXCEPT !.cache_hits = h, !.total_queries = q]
        BY <1>0, <2>1 DEF Counters
      <4> HIDE DEF h, q
      <4> QED
        BY <1>0, <4>1 DEF Counters
    <3>2. /\ seen' = [asked |-> seen.asked + 1, refreshed |-> seen.refreshed,
                      early |-> seen.early, late |-> seen.late, rejected |-> seen.rejected]
          /\ {seen.asked + 1, seen.refreshed, seen.early, seen.late} \subseteq Nat
      BY <1>0, <2>1 DEF Counters
    <3> QED
      BY <3>1, <3>2 DEF Counters
  <2>4. Looked' = Looked /\ Unsettled' = Unsettled /\ Unfailed' = Unfailed
    BY <1>0, <2>1 DEF Counters, Looked, Unsettled, Unfailed
  <2>5. One("idle" \in Missed) = 0 /\ One("idle" \in Open) = 0 /\ One("idle" \in Failing) = 0
    BY DEF One, Missed, Open, Failing
  <2> QED
    BY <1>0, <2>2, <2>3, <2>4, <2>5, BalancesMove, Accounted
<1>3. CASE Miss(c, k)
  <2>1. stats' = stats /\ seen' = [seen EXCEPT !.asked = @ + 1]
    BY <1>3 DEF Miss, Asked
  <2>2. PcMoves(c, "idle", "missed")
    <3>1. task'[c] = [Idle EXCEPT !.pc = "missed", !.key = k, !.asked = k, !.start = now]
      BY <1>0, <1>3 DEF Miss
    <3>2. task'[c].pc = "missed"
      BY <3>1 DEF Idle
    <3> QED
      BY <1>0, <1>1, <1>3, <3>2 DEF Miss, Ask, At, PcMoves
  <2>3. Counters'
    BY <1>0, <2>1 DEF Counters
  <2>4. Looked' = Looked + 1 /\ Unsettled' = Unsettled /\ Unfailed' = Unfailed
    BY <1>0, <2>1 DEF Counters, Looked, Unsettled, Unfailed
  <2>5. /\ One("idle" \in Missed) = 0 /\ One("idle" \in Open) = 0 /\ One("idle" \in Failing) = 0
        /\ One("missed" \in Missed) = 1 /\ One("missed" \in Open) = 0
        /\ One("missed" \in Failing) = 0
    BY DEF One, Missed, Open, Failing
  <2> QED
    BY <1>0, <2>2, <2>3, <2>4, <2>5, BalancesMove, Accounted
<1>4. CASE CancelHit(c, k)
  <2>1. stats' = stats /\ seen' = [seen EXCEPT !.asked = @ + 1, !.early = @ + 1]
    BY <1>0, <1>4 DEF CancelHit, Asked, Counters
  <2>2. PcMoves(c, "idle", "idle")
    BY <1>4 DEF CancelHit, Ask, At, PcMoves
  <2>3. Counters'
    <3>1. stats' \in [total_queries : Nat, cache_hits : Nat, cache_misses : Nat,
                      failed_queries : Nat, served_stale : Nat]
      BY <1>0, <2>1 DEF Counters
    <3> DEFINE a == seen.asked + 1
               b == seen.early + 1
    <3>2. a \in Nat /\ b \in Nat /\ seen' = [seen EXCEPT !.asked = a, !.early = b]
      BY <1>0, <2>1 DEF Counters
    <3> HIDE DEF a, b
    <3>3. /\ seen' = [asked |-> a, refreshed |-> seen.refreshed,
                      early |-> b, late |-> seen.late, rejected |-> seen.rejected]
          /\ {a, seen.refreshed, b, seen.late} \subseteq Nat
      BY <1>0, <3>2 DEF Counters
    <3> QED
      BY <3>1, <3>3 DEF Counters
  <2>4. Looked' = Looked /\ Unsettled' = Unsettled /\ Unfailed' = Unfailed
    BY <1>0, <2>1 DEF Counters, Looked, Unsettled, Unfailed
  <2>5. One("idle" \in Missed) = 0 /\ One("idle" \in Open) = 0 /\ One("idle" \in Failing) = 0
    BY DEF One, Missed, Open, Failing
  <2> QED
    BY <1>0, <2>2, <2>3, <2>4, <2>5, BalancesMove, Accounted
<1> QED
  BY <1>2, <1>3, <1>4

\* A call that goes from pc to qc, by the balance it moves between.
LEMMA CallStats ==
    ASSUME Counters, StatsConservation, Counters', NEW c \in Client, NEW pc, NEW qc,
           PcMoves(c, pc, qc),
           \/ /\ Looked' = Looked - 1 /\ Unsettled' = Unsettled + 1 /\ Unfailed' = Unfailed
              /\ pc = "missed" /\ qc = "check"
           \/ /\ Looked' = Looked - 1 /\ Unsettled' = Unsettled /\ Unfailed' = Unfailed
              /\ pc = "missed" /\ qc = "idle"
           \/ /\ Looked' = Looked /\ Unsettled' = Unsettled /\ Unfailed' = Unfailed
              /\ \/ pc \in Open /\ qc \in Open
                 \/ pc \in {"store", "fail"} /\ qc = "idle"
           \/ /\ Looked' = Looked /\ Unsettled' = Unsettled - 1 /\ Unfailed' = Unfailed
              /\ pc \in Open /\ qc = "idle"
           \/ /\ Looked' = Looked /\ Unsettled' = Unsettled - 1 /\ Unfailed' = Unfailed + 1
              /\ pc = "count" /\ qc \in {"store", "fail"}
           \/ /\ Looked' = Looked /\ Unsettled' = Unsettled /\ Unfailed' = Unfailed - 1
              /\ pc = "fail" /\ qc = "idle"
    PROVE  StatsConservation'
<1>1. Looked \in Int /\ Unsettled \in Int /\ Unfailed \in Int
  BY BalancesMove
<1>2. /\ One(pc \in Missed) = IF pc = "missed" THEN 1 ELSE 0
      /\ One(qc \in Missed) = IF qc = "missed" THEN 1 ELSE 0
      /\ One(pc \in Failing) = IF pc = "fail" THEN 1 ELSE 0
      /\ One(qc \in Failing) = IF qc = "fail" THEN 1 ELSE 0
  BY DEF One, Missed, Failing
<1>3. /\ One(pc \in Open) = IF pc \in Open THEN 1 ELSE 0
      /\ One(qc \in Open) = IF qc \in Open THEN 1 ELSE 0
  BY DEF One
<1>4. /\ "count" \in Open /\ "check" \in Open
      /\ \A x \in Open : x \notin {"idle", "missed", "store", "fail"}
  BY DEF Open
<1>5. /\ Looked' = Looked + One(qc \in Missed) - One(pc \in Missed)
      /\ Unsettled' = Unsettled + One(qc \in Open) - One(pc \in Open)
      /\ Unfailed' >= Unfailed + One(qc \in Failing) - One(pc \in Failing)
  <2> DEFINE l == Looked
             u == Unsettled
             f == Unfailed
  <2>1. PICK l1, u1, f1 : l1 = Looked' /\ u1 = Unsettled' /\ f1 = Unfailed'
    OBVIOUS
  <2>2. l \in Int /\ u \in Int /\ f \in Int
    BY <1>1
  <2>3. \/ l1 = l - 1 /\ u1 = u + 1 /\ f1 = f /\ pc = "missed" /\ qc = "check"
        \/ l1 = l - 1 /\ u1 = u /\ f1 = f /\ pc = "missed" /\ qc = "idle"
        \/ l1 = l /\ u1 = u /\ f1 = f /\ pc \in Open /\ qc \in Open
        \/ l1 = l /\ u1 = u /\ f1 = f /\ pc \in {"store", "fail"} /\ qc = "idle"
        \/ l1 = l /\ u1 = u - 1 /\ f1 = f /\ pc \in Open /\ qc = "idle"
        \/ l1 = l /\ u1 = u - 1 /\ f1 = f + 1 /\ pc = "count" /\ qc \in {"store", "fail"}
        \/ l1 = l /\ u1 = u /\ f1 = f - 1 /\ pc = "fail" /\ qc = "idle"
    BY <2>1
  <2> HIDE DEF l, u, f
  <2>4. /\ l1 = l + One(qc \in Missed) - One(pc \in Missed)
        /\ u1 = u + One(qc \in Open) - One(pc \in Open)
        /\ f1 >= f + One(qc \in Failing) - One(pc \in Failing)
    BY <1>2, <1>3, <1>4, <2>2, <2>3
  <2> QED
    BY <2>1, <2>4 DEF l, u, f
<1> QED
  BY <1>5, Accounted

\* A call returns to the caller.
LEMMA ReturnMoves ==
    ASSUME Tasks, NEW c \in Client, Return(c), NEW pc, task[c].pc = pc
    PROVE  PcMoves(c, pc, "idle")
<1>1. c \in Task /\ \A d \in Client : d \in Task
  BY DEF Task
<1>2. task'[c] = Idle /\ \A d \in Client \ {c} : task'[d] = task[d]
  BY <1>1 DEF Tasks, Return
<1>3. Idle.pc = "idle"
  BY DEF Idle
<1> QED
  BY <1>2, <1>3 DEF PcMoves

\* A resolution moves its task from one point to another that no counter tells
\* apart, and changes no statistic.
LEMMA ResolveStats ==
    ASSUME IInv, NEW t \in Task, Resolve(t)
    PROVE  Counters' /\ StatsConservation'
<1> DEFINE g == task[t]
<1>0. /\ Counters /\ StatsConservation /\ Tasks /\ task \in [Task -> TaskState]
      /\ TaskInv(t, g) /\ \A d \in Client : d \in Task
  BY DEF IInv, Tasks, Task
<1>1. /\ stats' = stats
      /\ seen' = seen \/ \E x : seen' = [seen EXCEPT !.rejected = x]
  BY DEF Resolve, ReceiveReferral, ReceiveCname, ReceiveFinal, ResolveOk, ResolveNxDomain,
         ResolveBogus, ResolveFail
<1>2. g.pc \in {"refresh", "recurse", "prefetch"}
  BY DEF Resolve, ReceiveReferral, ReceiveCname, ReceiveFinal, MayReceive, Waiting, Resolving,
         ResolveOk, ResolveNxDomain, ResolveBogus, ResolveFail
<1>3. CASE \A d \in Client : task'[d].pc = task[d].pc
  BY <1>0, <1>1, <1>3, StatsStay
<1>4. CASE ReceiveReferral(t) \/ ReceiveCname(t) \/ ReceiveFinal(t)
  <2>1. \E f : f.pc = g.pc /\ task' = [task EXCEPT ![t] = f]
    <3>1. g \in TaskState
      BY <1>0
    <3>2. ASSUME NEW n, NEW key, NEW chain, NEW got
          PROVE  /\ [g EXCEPT !.n = n].pc = g.pc
                 /\ [g EXCEPT !.n = n, !.key = key, !.chain = chain].pc = g.pc
                 /\ [g EXCEPT !.got = got].pc = g.pc
      <4> HIDE DEF g
      <4> QED
        BY <3>1 DEF TaskState
    <3>3. CASE ReceiveReferral(t)
      <4>1. task' = [task EXCEPT ![t] = [g EXCEPT !.n = Least(g.n + 1, MaxIterations)]]
        BY <3>3 DEF ReceiveReferral
      <4> QED
        BY <3>2, <4>1
    <3>4. CASE ReceiveCname(t)
      <4>1. PICK recs \in Section, target \in Key : \E i \in DOMAIN recs :
                 task' = [task EXCEPT ![t].n = Least(@ + 1, MaxIterations),
                                      ![t].key = target,
                                      ![t].chain = Append(@, recs[i])]
        BY <3>4 DEF ReceiveCname
      <4>2. PICK i \in DOMAIN recs :
                 task' = [task EXCEPT ![t].n = Least(@ + 1, MaxIterations),
                                      ![t].key = target,
                                      ![t].chain = Append(@, recs[i])]
        BY <4>1
      <4> DEFINE n1 == Least(g.n + 1, MaxIterations)
                 followed == Append(g.chain, recs[i])
                 r == [g EXCEPT !.n = n1, !.key = target, !.chain = followed]
      <4>3. task' = [task EXCEPT ![t] = r]
        BY <1>0, <3>1, <4>2
      <4> HIDE DEF n1, followed
      <4>4. r.pc = g.pc
        BY <3>2
      <4> HIDE DEF r
      <4> QED
        BY <4>3, <4>4
    <3>5. CASE ReceiveFinal(t)
      <4>1. \E got : task' = [task EXCEPT ![t] = [g EXCEPT !.got = got]]
        BY <3>5 DEF ReceiveFinal
      <4> QED
        BY <3>2, <4>1
    <3> QED
      BY <1>4, <3>3, <3>4, <3>5
  <2>2. \A d \in Task : task'[d].pc = task[d].pc
    BY <1>0, <2>1
  <2> QED
    BY <1>0, <1>3, <2>2
<1>5. ASSUME NEW next \in After(g), NEW kind, NEW recs, Finish(t, next, kind, recs)
      PROVE  Counters' /\ StatsConservation'
  <2>1. \A d \in Task \ {t} : task'[d] = task[d]
    BY <1>0, <1>5 DEF Finish
  <2>2. CASE t \notin Client
    BY <1>0, <1>3, <2>1, <2>2
  <2>3. CASE t \in Client
    <3>1. g.pc \in {"refresh", "recurse"} /\ next \in {"refreshed", "unrefreshed", "count"}
      BY <1>0, <1>2, <2>3 DEF After, AfterOk, AfterErr, TaskInv, ClientPc
    <3>2. task'[t].pc = next
      <4>1. task'[t] = [g EXCEPT !.pc = next, !.n = 0, !.chain = << >>,
                                 !.got = [kind |-> kind, recs |-> recs]]
        BY <1>0, <1>5, <3>1 DEF Finish
      <4>2. g \in TaskState
        BY <1>0
      <4> HIDE DEF g
      <4> QED
        BY <4>1, <4>2 DEF TaskState
    <3>3. PcMoves(t, g.pc, next)
      BY <1>0, <2>1, <3>2 DEF PcMoves
    <3>4. g.pc \in Open /\ next \in Open
      BY <3>1 DEF Open
    <3>5. Counters'
      <4>1. /\ seen'.asked = seen.asked /\ seen'.refreshed = seen.refreshed
            /\ seen'.early = seen.early /\ seen'.late = seen.late
            /\ seen' = [asked |-> seen'.asked, refreshed |-> seen'.refreshed,
                        early |-> seen'.early, late |-> seen'.late,
                        rejected |-> seen'.rejected]
        BY <1>0, <1>1 DEF Counters
      <4> QED
        BY <1>0, <1>1, <4>1 DEF Counters
    <3>6. Looked' = Looked /\ Unsettled' = Unsettled /\ Unfailed' = Unfailed
      BY <1>0, <1>1 DEF Counters, Looked, Unsettled, Unfailed
    <3> DEFINE pc == g.pc
    <3>7. PcMoves(t, pc, next) /\ pc \in Open
      BY <3>3, <3>4
    <3> HIDE DEF pc
    <3> QED
      BY <1>0, <2>3, <3>4, <3>5, <3>6, <3>7, CallStats
  <2> QED
    BY <2>2, <2>3
<1>6. CASE ResolveOk(t)
  <2>1. AfterOk[g.pc] \in After(g) /\ Finish(t, AfterOk[g.pc], "ok", g.chain \o g.got.recs)
    BY <1>6 DEF ResolveOk, After
  <2> QED
    BY <1>5, <2>1
<1>7. CASE ResolveNxDomain(t) \/ ResolveBogus(t) \/ ResolveFail(t)
  <2>1. AfterErr[g.pc] \in After(g) /\ \E kind : Finish(t, AfterErr[g.pc], kind, << >>)
    BY <1>7 DEF ResolveNxDomain, ResolveBogus, ResolveFail, After
  <2> QED
    BY <1>5, <2>1
<1> QED
  BY <1>4, <1>6, <1>7 DEF Resolve

\* The counters that a step of a call adds one to.
LEMMA CountersMove ==
    ASSUME Counters,
           \/ seen' = seen /\ \/ stats' = stats
                              \/ stats' = [stats EXCEPT !.cache_misses = @ + 1]
                              \/ stats' = [stats EXCEPT !.served_stale = @ + 1]
                              \/ stats' = [stats EXCEPT !.total_queries = @ + 1]
                              \/ stats' = [stats EXCEPT !.failed_queries = @ + 1]
           \/ stats' = stats /\ \/ seen' = [seen EXCEPT !.refreshed = @ + 1]
                                \/ seen' = [seen EXCEPT !.early = @ + 1]
                                \/ seen' = [seen EXCEPT !.late = @ + 1]
    PROVE  Counters'
<1>1. stats' \in [total_queries : Nat, cache_hits : Nat, cache_misses : Nat,
                  failed_queries : Nat, served_stale : Nat]
  BY DEF Counters
<1>2. CASE seen' = seen
  BY <1>1, <1>2 DEF Counters
<1>3. CASE seen' = [seen EXCEPT !.refreshed = @ + 1]
  <2>1. /\ seen' = [asked |-> seen.asked, refreshed |-> seen.refreshed + 1,
                    early |-> seen.early, late |-> seen.late, rejected |-> seen.rejected]
        /\ {seen.asked, seen.refreshed + 1, seen.early, seen.late} \subseteq Nat
    BY <1>3 DEF Counters
  <2> QED
    BY <1>1, <2>1 DEF Counters
<1>4. CASE seen' = [seen EXCEPT !.early = @ + 1]
  <2>1. /\ seen' = [asked |-> seen.asked, refreshed |-> seen.refreshed,
                    early |-> seen.early + 1, late |-> seen.late, rejected |-> seen.rejected]
        /\ {seen.asked, seen.refreshed, seen.early + 1, seen.late} \subseteq Nat
    BY <1>4 DEF Counters
  <2> QED
    BY <1>1, <2>1 DEF Counters
<1>5. CASE seen' = [seen EXCEPT !.late = @ + 1]
  <2>1. /\ seen' = [asked |-> seen.asked, refreshed |-> seen.refreshed,
                    early |-> seen.early, late |-> seen.late + 1, rejected |-> seen.rejected]
        /\ {seen.asked, seen.refreshed, seen.early, seen.late + 1} \subseteq Nat
    BY <1>5 DEF Counters
  <2> QED
    BY <1>1, <2>1 DEF Counters
<1> QED
  BY <1>2, <1>3, <1>4, <1>5

\* A step of a call in progress other than its resolution.
LEMMA ProceedStats ==
    ASSUME IInv, NEW c \in Client, Proceed(c)
    PROVE  Counters' /\ StatsConservation'
<1>0. /\ Counters /\ StatsConservation /\ Tasks /\ task \in [Task -> TaskState]
      /\ c \in Task /\ \A d \in Client : d \in Task
  BY DEF IInv, Tasks, Task
<1>1. ASSUME NEW pc, Become(c, pc)
      PROVE  PcMoves(c, task[c].pc, pc)
  <2>1. task'[c] = [task[c] EXCEPT !.pc = pc] /\ \A d \in Client \ {c} : task'[d] = task[d]
    BY <1>0, <1>1 DEF Become
  <2>2. task'[c].pc = pc
    BY <1>0, <2>1 DEF TaskState
  <2> QED
    BY <2>1, <2>2 DEF PcMoves
<1>2. CASE CountMiss(c)
  <2>1. stats' = [stats EXCEPT !.cache_misses = @ + 1] /\ seen' = seen
    BY <1>2 DEF CountMiss
  <2>2. PcMoves(c, "missed", "check")
    BY <1>1, <1>2 DEF CountMiss, At
  <2>3. Looked' = Looked - 1 /\ Unsettled' = Unsettled + 1 /\ Unfailed' = Unfailed
    BY <1>0, <2>1 DEF Counters, Looked, Unsettled, Unfailed
  <2> QED
    BY <1>0, <2>1, <2>2, <2>3, CountersMove, CallStats
<1>3. CASE CheckStale(c)
  <2>1. stats' = stats /\ seen' = seen
    BY <1>3 DEF CheckStale
  <2>2. \E qc \in {"refresh", "recurse"} : PcMoves(c, "check", qc)
    <3> DEFINE g == task[c]
               stale == {e \in Records(cache.stale, g.key) : usable(e, now)}
               r == IF stale # {} THEN [g EXCEPT !.pc = "refresh", !.stale = stale]
                    ELSE [Idle EXCEPT !.pc = "recurse", !.key = g.key]
    <3>1. task' = [task EXCEPT ![c] = r]
      BY <1>3 DEF CheckStale
    <3>2. g \in TaskState /\ g.pc = "check"
      BY <1>0, <1>3 DEF CheckStale, At
    <3> HIDE DEF stale
    <3>3. r.pc \in {"refresh", "recurse"}
      BY <3>2 DEF TaskState, Idle
    <3> HIDE DEF r
    <3>4. PcMoves(c, "check", r.pc)
      BY <1>0, <3>1, <3>2, <3>3 DEF PcMoves
    <3> QED
      BY <3>3, <3>4
  <2>3. Looked' = Looked /\ Unsettled' = Unsettled /\ Unfailed' = Unfailed
    BY <1>0, <2>1, BalancesMove
  <2>4. "check" \in Open /\ "refresh" \in Open /\ "recurse" \in Open
    BY DEF Open
  <2> QED
    BY <1>0, <2>1, <2>2, <2>3, <2>4, CountersMove, CallStats
<1>4. CASE Resolve(c)
  BY <1>0, <1>4, ResolveStats
<1>5. CASE StoreRefreshed(c)
  <2>1. stats' = stats /\ seen' = [seen EXCEPT !.refreshed = @ + 1]
    BY <1>5 DEF StoreRefreshed
  <2>2. PcMoves(c, "refreshed", "idle")
    BY <1>0, <1>5, ReturnMoves DEF StoreRefreshed, At
  <2>3. Looked' = Looked /\ Unsettled' = Unsettled - 1 /\ Unfailed' = Unfailed
    BY <1>0, <2>1 DEF Counters, Looked, Unsettled, Unfailed
  <2>4. "refreshed" \in Open
    BY DEF Open
  <2> QED
    BY <1>0, <2>1, <2>2, <2>3, <2>4, CountersMove, CallStats
<1>6. CASE ServeStale(c)
  <2>1. stats' = [stats EXCEPT !.served_stale = @ + 1] /\ seen' = seen
    BY <1>6 DEF ServeStale
  <2>2. PcMoves(c, "unrefreshed", "idle")
    BY <1>0, <1>6, ReturnMoves DEF ServeStale, At
  <2>3. Looked' = Looked /\ Unsettled' = Unsettled - 1 /\ Unfailed' = Unfailed
    BY <1>0, <2>1 DEF Counters, Looked, Unsettled, Unfailed
  <2>4. "unrefreshed" \in Open
    BY DEF Open
  <2> QED
    BY <1>0, <2>1, <2>2, <2>3, <2>4, CountersMove, CallStats
<1>7. CASE Count(c)
  <2>1. stats' = [stats EXCEPT !.total_queries = @ + 1] /\ seen' = seen
    BY <1>7 DEF Count
  <2>2. \E qc \in {"store", "fail"} : PcMoves(c, "count", qc)
    BY <1>1, <1>7 DEF Count, At
  <2>3. Looked' = Looked /\ Unsettled' = Unsettled - 1 /\ Unfailed' = Unfailed + 1
    BY <1>0, <2>1 DEF Counters, Looked, Unsettled, Unfailed
  <2> QED
    BY <1>0, <2>1, <2>2, <2>3, CountersMove, CallStats
<1>8. CASE StoreResult(c)
  <2>1. stats' = stats /\ seen' = seen
    BY <1>8 DEF StoreResult
  <2>2. PcMoves(c, "store", "idle")
    BY <1>0, <1>8, ReturnMoves DEF StoreResult, At
  <2>3. Looked' = Looked /\ Unsettled' = Unsettled /\ Unfailed' = Unfailed
    BY <1>0, <2>1, BalancesMove
  <2> QED
    BY <1>0, <2>1, <2>2, <2>3, CountersMove, CallStats
<1>9. CASE CountFailure(c)
  <2>1. stats' = [stats EXCEPT !.failed_queries = @ + 1] /\ seen' = seen
    BY <1>9 DEF CountFailure
  <2>2. PcMoves(c, "fail", "idle")
    BY <1>0, <1>9, ReturnMoves DEF CountFailure, At
  <2>3. Looked' = Looked /\ Unsettled' = Unsettled /\ Unfailed' = Unfailed - 1
    BY <1>0, <2>1 DEF Counters, Looked, Unsettled, Unfailed
  <2> QED
    BY <1>0, <2>1, <2>2, <2>3, CountersMove, CallStats
<1> QED
  BY <1>2, <1>3, <1>4, <1>5, <1>6, <1>7, <1>8, <1>9 DEF Proceed

\* A call is dropped at one of its awaits: before its miss is counted, once its
\* query is counted, or between the two.
LEMMA CancelStats ==
    ASSUME IInv, NEW c \in Client, Cancel(c)
    PROVE  Counters' /\ StatsConservation'
<1>0. /\ Counters /\ StatsConservation /\ Tasks /\ TaskInv(c, task[c])
      /\ stats' = stats /\ Return(c)
  BY DEF IInv, Tasks, Task, Cancel
<1> DEFINE pc == task[c].pc
<1>1. pc \in ClientPc \ {"idle"} /\ PcMoves(c, pc, "idle")
  BY <1>0, ReturnMoves DEF TaskInv, Cancel, At
<1>2. pc = "missed" \/ pc \in {"store", "fail"} \/ pc \in Open
  BY <1>1 DEF ClientPc, Open
<1>3. (seen' = CASE pc = "missed" -> [seen EXCEPT !.early = @ + 1]
                 [] pc \in {"store", "fail"} -> seen
                 [] OTHER -> [seen EXCEPT !.late = @ + 1])
  BY DEF Cancel, At
<1> HIDE DEF pc
<1>4. CASE pc = "missed"
  <2>1. seen' = [seen EXCEPT !.early = @ + 1]
    BY <1>3, <1>4
  <2>2. Looked' = Looked - 1 /\ Unsettled' = Unsettled /\ Unfailed' = Unfailed
    BY <1>0, <2>1 DEF Counters, Looked, Unsettled, Unfailed
  <2> QED
    BY <1>0, <1>1, <1>4, <2>1, <2>2, CountersMove, CallStats
<1>5. CASE pc \in {"store", "fail"}
  <2>1. seen' = seen
    BY <1>3, <1>5
  <2>2. Looked' = Looked /\ Unsettled' = Unsettled /\ Unfailed' = Unfailed
    BY <1>0, <2>1, BalancesMove
  <2> QED
    BY <1>0, <1>1, <1>5, <2>1, <2>2, CountersMove, CallStats
<1>6. CASE pc \in Open
  <2>1. seen' = [seen EXCEPT !.late = @ + 1]
    BY <1>3, <1>6 DEF Open
  <2>2. Looked' = Looked /\ Unsettled' = Unsettled - 1 /\ Unfailed' = Unfailed
    BY <1>0, <2>1 DEF Counters, Looked, Unsettled, Unfailed
  <2> QED
    BY <1>0, <1>1, <1>6, <2>1, <2>2, CountersMove, CallStats
<1> QED
  BY <1>2, <1>4, <1>5, <1>6

\* Every step.
LEMMA StatsStep ==
    ASSUME IInv, [Next]_vars
    PROVE  Counters' /\ StatsConservation'
<1>0. Counters /\ StatsConservation
  BY DEF IInv
<1>1. CASE \E c \in Client, k \in Key :
              \/ Hit(c, k) \/ Miss(c, k) \/ CancelHit(c, k)
              \/ \E p \in Prefetcher : HitAndPrefetch(c, k, p)
  BY <1>1, AskStats
<1>2. CASE \E c \in Client : Proceed(c)
  BY <1>2, ProceedStats
<1>3. CASE \E c \in Client : Cancel(c)
  BY <1>3, CancelStats
<1>4. CASE \E p \in Prefetcher : Resolve(p)
  BY <1>4, ResolveStats DEF Task
<1>5. CASE UNCHANGED <<stats, task, seen>>
  BY <1>0, <1>5, StatsStay
<1> QED
  BY <1>1, <1>2, <1>3, <1>4, <1>5
     DEF Next, vars, ValidateLookup, PurgeTask, flush_cache, Tick

-----------------------------------------------------------------------------
(***************************************************************************)
(* The invariant, and what follows from it.                                *)
(***************************************************************************)
\* The resolver starts with an empty cache, no call and no statistics.
LEMMA InitInv ==
    ASSUME Init
    PROVE  IInv
<1>1. now \in Nat /\ CacheInv(cache, now)
  BY NewCacheInv DEF Init
<1>2. Tasks
  <2>1. \A t \in Task : TaskInv(t, Idle) /\ Idle \in TaskState
    BY IdleInv DEF TaskInv
  <2> QED
    BY <2>1 DEF Init, Tasks
<1>3. Counters
  BY DEF Init, Counters
<1>4. StatsConservation
  <2>1. Idle.pc = "idle" /\ \A c \in Client : task[c] = Idle
    BY DEF Init, Idle, Task
  <2>2. ASSUME NEW pcs, "idle" \notin pcs
        PROVE  In(pcs) = 0
    <3>1. {c \in Client : task[c].pc \in pcs} = {}
      BY <2>1, <2>2
    <3> QED
      BY <3>1, FS_EmptySet DEF In
  <2>3. /\ In({"missed"}) = 0 /\ In({"fail"}) = 0
        /\ In({"check", "refresh", "recurse", "refreshed", "unrefreshed", "count"}) = 0
    BY <2>2
  <2> QED
    BY <2>3 DEF Init, StatsConservation
<1>5. OnlyNews
  <2>1. Idle.pc \notin Held /\ \A c \in Client : task[c] = Idle
    BY DEF Init, Idle, Task, Held
  <2> QED
    BY <2>1 DEF OnlyNews, News
<1> QED
  BY <1>1, <1>2, <1>3, <1>4, <1>5 DEF IInv

\* The invariant holds in every state of resolve_with_ad and its companions, for
\* every number of callers and prefetches and every interleaving.
THEOREM Inductive == Spec => []IInv
<1>1. Init => IInv
  BY InitInv
<1>2. IInv /\ [Next]_vars => IInv'
  BY TasksStep, CacheStep, NewsStep, StatsStep DEF IInv
<1> QED
  BY <1>1, <1>2, PTL DEF Spec

\* What the invariant says of the shared cache.
LEMMA CacheShape ==
    ASSUME IInv
    PROVE  CacheTypeOK /\ SharedCacheSound /\ ServedWithinLifetime
<1>1. CacheKept
  BY DEF IInv, CacheKept
<1> QED
  BY <1>1, KeptTyped, KeptBounded, KeptExpired, KeptServed DEF SharedCacheSound

\* The cache and every task have their declared shape, the budget of iterations is
\* respected, and only a refresh holds stale records.
THEOREM TypeCorrect == Spec => []TypeOK
<1>1. IInv => TypeOK
  <2>1. SUFFICES ASSUME IInv
                 PROVE  TypeOK
    OBVIOUS
  <2>2. \A t \in Task : TaskInv(t, task[t])
    BY <2>1 DEF IInv, Tasks
  <2>3. \A t \in Task : task[t].n \in 0 .. MaxIterations
    BY <2>2 DEF TaskInv, TaskState
  <2> QED
    BY <2>1, <2>2, <2>3, CacheShape DEF TypeOK, TaskInv, Task
<1> QED
  BY <1>1, Inductive, PTL

\* ResolverStats adds up at every instant, for every number of callers: every
\* lookup is a hit or a miss, every miss is settled exactly once, and no more
\* queries fail than are resolved, whichever calls a timeout drops.
THEOREM StatsCorrect == Spec => []StatsConservation
<1>1. IInv => StatsConservation
  BY DEF IInv
<1> QED
  BY <1>1, Inductive, PTL

\* The bounds of the cache and the expiry of its stale store survive every
\* interleaving of lookups, insertions, purges, flushes and the clock.
THEOREM SharedCacheCorrect == Spec => []SharedCacheSound
<1>1. IInv => SharedCacheSound
  BY CacheShape
<1> QED
  BY <1>1, Inductive, PTL

\* Whatever the tasks do to the shared cache meanwhile, a lookup answers only live
\* records, with TTLs that reach neither past their expiry nor past the clamp.
THEOREM SharedCacheServes == Spec => []ServedWithinLifetime
<1>1. IInv => ServedWithinLifetime
  BY CacheShape
<1> QED
  BY <1>1, Inductive, PTL

\* A stale answer hides only news, for every number of callers and however long a
\* refresh lasts: the records it falls back on have expired, and those of the question
\* that other calls left in the main store came in after the call began.
THEOREM StaleHidesCorrect == Spec => []StaleHidesOnlyNews
<1>1. IInv => StaleHidesOnlyNews
  <2>1. SUFFICES ASSUME IInv, NEW c \in Client, NEW e \in task[c].stale
                 PROVE  /\ is_expired(e, now)
                        /\ \A f \in Records(cache.entries, task[c].asked) :
                               Inserted(f) >= task[c].start /\ e.exp < f.exp
    BY DEF StaleHidesOnlyNews
  <2>2. TaskInv(c, task[c]) /\ now \in Nat
    BY <2>1 DEF IInv, Tasks, Task
  <2>3. e \in Entry /\ e.exp <= now
    BY <2>1, <2>2 DEF TaskInv, TaskState
  <2>4. is_expired(e, now)
    BY <2>2, <2>3 DEF Entry, is_expired
  <2>5. task[c].pc \in Held
    BY <2>1, <2>2 DEF TaskInv, Held
  <2>6. News(task[c], cache.entries, now)
    BY <2>1 DEF IInv, OnlyNews
  <2> QED
    BY <2>1, <2>4, <2>5, <2>6 DEF News
<1> QED
  BY <1>1, Inductive, PTL
=============================================================================
