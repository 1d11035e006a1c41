----------------------------- MODULE ServerRace -----------------------------
(***************************************************************************)
(* RecursiveResolver::query_servers_concurrent and query_via_tcp_pool      *)
(* (resolver/recursive.rs): one task per server of every call, the         *)
(* truncation cache, the pool of TCP connections, and the mutexes of the   *)
(* two, which a task may hold while it waits for the network.              *)
(*                                                                         *)
(* The tasks are detached: they go on when their call has returned, or was *)
(* dropped by a timeout.  Every server is asked whatever its RTT, so that  *)
(* the RTT averages and the order they give are left out.                  *)
(***************************************************************************)
EXTENDS Integers, Sequences, FiniteSets

CONSTANTS
    Call,            \* calls of query_servers_concurrent, made once each
    Server,
    Truncating,      \* servers whose answers may not fit a datagram
    PerServer,       \* TCP_POOL_PER_SERVER
    IdleTimeout,     \* TCP_POOL_IDLE_TIMEOUT
    TruncationTtl,   \* TRUNCATION_CACHE_TTL
    MaxTime          \* bound: ticks

ASSUME ServerRaceAssumption ==
    /\ Truncating \subseteq Server
    /\ PerServer \in Nat
    /\ IdleTimeout \in Nat
    /\ TruncationTtl \in Nat
    /\ MaxTime \in Nat

VARIABLES
    asked, status, result,  \* of every call, as in Exchange
    task,        \* of every call and server: the spawned task
    truncation,  \* truncation_cache: the expiry of the servers in it
    truncLock,   \* the task that holds its mutex while it waits, as a set
    pool,        \* of every server: its idle connections and their last use
    poolLock,    \* the task that holds the pool's mutex while it waits, as a set
    now

callVars == <<asked, status, result>>
vars == <<callVars, task, truncation, truncLock, pool, poolLock, now>>

(***************************************************************************)
(* A task's program counter:                                               *)
(*   "start"    before it takes the truncation cache's mutex               *)
(*   "udp"      waits for the UDP answer                                   *)
(*   "insert"   has a truncated answer, before it takes that mutex again   *)
(*   "pool"     before it takes the pool's mutex to get a connection       *)
(*   "connect"  waits for a new connection                                 *)
(*   "tcp"      writes its query to a connection and waits for the answer  *)
(*   "release"  before it takes the pool's mutex to give it back           *)
(*   "measure"  waits for measure_tcp_rtt                                  *)
(*   "done"     has returned                                               *)
(* conn is its connection: the queries sent on it whose answers are unread.*)
(* msg is what the task returns if nothing better comes.                   *)
(***************************************************************************)
Task == Call \X Server

Unspawned == [pc |-> "none", conn |-> << >>, msg |-> {}]

Init ==
    /\ asked = [c \in Call |-> {}]
    /\ status = [c \in Call |-> "idle"]
    /\ result = [c \in Call |-> {}]
    /\ task = [t \in Task |-> Unspawned]
    /\ truncation = << >>
    /\ truncLock = {}
    /\ pool = [s \in Server |-> << >>]
    /\ poolLock = {}
    /\ now = 0

At(t, pc) == task[t].pc = pc
Goto(t, pc) == task' = [task EXCEPT ![t].pc = pc]

\* The task returns; its connection, if it has one, is dropped with it.
Done(t, msgs) ==
    task' = [task EXCEPT ![t] = [pc |-> "done", conn |-> << >>, msg |-> msgs]]

Message(s, query, tc) == [from |-> s, query |-> query, tc |-> tc]

(***************************************************************************)
(* The call: it spawns the tasks, and returns the first message (select_all). *)
(***************************************************************************)
query_servers_concurrent(c, servers) ==
    /\ status[c] = "idle"
    /\ servers # {}
    /\ asked' = [asked EXCEPT ![c] = servers]
    /\ status' = [status EXCEPT ![c] = "waiting"]
    /\ task' = [t \in Task |-> IF t[1] = c /\ t[2] \in servers
                               THEN [task[t] EXCEPT !.pc = "start"] ELSE task[t]]
    /\ UNCHANGED <<result, truncation, truncLock, pool, poolLock, now>>

Return(c, msgs) ==
    /\ status[c] = "waiting"
    /\ status' = [status EXCEPT ![c] = "returned"]
    /\ result' = [result EXCEPT ![c] = msgs]
    /\ UNCHANGED <<asked, task, truncation, truncLock, pool, poolLock, now>>

FirstMessage(c) ==
    \E s \in asked[c] :
        /\ At(<<c, s>>, "done")
        /\ task[<<c, s>>].msg # {}
        /\ Return(c, task[<<c, s>>].msg)

AllFailed(c) ==
    /\ \A s \in asked[c] : At(<<c, s>>, "done") /\ task[<<c, s>>].msg = {}
    /\ Return(c, {})

\* The caller's future is dropped, by the timeout of a refresh or of the startup
\* prefetch.
Abandon(c) == Return(c, {})

(***************************************************************************)
(* A task: first the truncation cache, whose mutex is kept if the server   *)
(* is in it.  The expiry is not looked at.                                 *)
(***************************************************************************)
CheckTruncation(t) ==
    /\ At(t, "start")
    /\ truncLock = {}
    /\ IF t[2] \in DOMAIN truncation
       THEN Goto(t, "pool") /\ truncLock' = {t}
       ELSE Goto(t, "udp") /\ UNCHANGED truncLock
    /\ UNCHANGED <<callVars, truncation, pool, poolLock, now>>

\* Messages with another id are skipped.
UdpAnswer(t) ==
    /\ At(t, "udp")
    /\ Done(t, {Message(t[2], t[1], FALSE)})
    /\ UNCHANGED <<callVars, truncation, truncLock, pool, poolLock, now>>

UdpTruncated(t) ==
    /\ At(t, "udp")
    /\ t[2] \in Truncating
    /\ task' = [task EXCEPT ![t].pc = "insert", ![t].msg = {Message(t[2], t[1], TRUE)}]
    /\ UNCHANGED <<callVars, truncation, truncLock, pool, poolLock, now>>

\* No socket, no answer in time, or one that does not decode.
UdpFails(t) ==
    /\ At(t, "udp")
    /\ Done(t, {})
    /\ UNCHANGED <<callVars, truncation, truncLock, pool, poolLock, now>>

InsertTruncation(t) ==
    /\ At(t, "insert")
    /\ truncLock = {}
    /\ truncation' = [s \in DOMAIN truncation \cup {t[2]} |->
                        IF s = t[2] THEN now + TruncationTtl ELSE truncation[s]]
    /\ Goto(t, "pool")
    /\ UNCHANGED <<callVars, truncLock, pool, poolLock, now>>

(***************************************************************************)
(* query_via_tcp_pool.                                                     *)
(***************************************************************************)
Idle(x) == now - x.last < IdleTimeout

\* TcpPool::acquire: pop from the end, drop what has been idle for too long.
Acquirable(s) == {i \in DOMAIN pool[s] : Idle(pool[s][i])}

\* The query is written to connection conn.
Exchanging(t, conn) ==
    task' = [task EXCEPT ![t].pc = "tcp", ![t].conn = Append(conn, t[1])]

Acquire(t) ==
    /\ At(t, "pool")
    /\ poolLock = {}
    /\ \E i \in Acquirable(t[2]) :
           /\ \A j \in Acquirable(t[2]) : j <= i
           /\ Exchanging(t, pool[t[2]][i].conn)
           /\ pool' = [pool EXCEPT ![t[2]] = SubSeq(@, 1, i - 1)]
    /\ UNCHANGED <<callVars, truncation, truncLock, poolLock, now>>

\* No idle connection: the mutex is kept while the task connects.
AcquireNone(t) ==
    /\ At(t, "pool")
    /\ poolLock = {}
    /\ Acquirable(t[2]) = {}
    /\ pool' = [pool EXCEPT ![t[2]] = << >>]
    /\ poolLock' = {t}
    /\ Goto(t, "connect")
    /\ UNCHANGED <<callVars, truncation, truncLock, now>>

Connect(t) ==
    /\ At(t, "connect")
    /\ Exchanging(t, << >>)
    /\ poolLock' = {}
    /\ UNCHANGED <<callVars, truncation, truncLock, pool, now>>

\* The answer is the one to the first query on the connection; its id is not
\* compared.
Read(t) ==
    /\ At(t, "tcp")
    /\ task' = [task EXCEPT ![t].pc = "release",
                            ![t].conn = Tail(@),
                            ![t].msg = {Message(t[2], Head(task[t].conn), FALSE)}]
    /\ UNCHANGED <<callVars, truncation, truncLock, pool, poolLock, now>>

\* What the task does with None: inside the truncation cache's guard it
\* returns, otherwise it falls back on the truncated UDP answer.
NoTcpAnswer(t) ==
    /\ Done(t, IF truncLock = {t} THEN {} ELSE task[t].msg)
    /\ truncLock' = truncLock \ {t}

\* Mutant: the connection goes back to the pool when its answer is late.
TcpFails_pooled(t) ==
    /\ task[t].pc \in {"connect", "tcp"}
    /\ NoTcpAnswer(t)
    /\ poolLock' = poolLock \ {t}
    /\ pool' = IF At(t, "tcp") /\ Len(pool[t[2]]) < PerServer
               THEN [pool EXCEPT ![t[2]] = Append(@, [conn |-> task[t].conn, last |-> now])]
               ELSE pool
    /\ UNCHANGED <<callVars, truncation, now>>

\* Connecting, writing or reading fails or times out.  The connection is dropped.
TcpFails(t) ==
    /\ task[t].pc \in {"connect", "tcp"}
    /\ NoTcpAnswer(t)
    /\ poolLock' = poolLock \ {t}
    /\ UNCHANGED <<callVars, truncation, pool, now>>

\* retain: a connection is pushed with the time of its release, so that those
\* idle for too long come first (TypeOK).
Retained(s) ==
    SubSeq(pool[s], Cardinality(DOMAIN pool[s] \ Acquirable(s)) + 1, Len(pool[s]))

\* Mutant: a full pool takes one more.
Kept_more(s, x) ==
    LET idle == Retained(s)
    IN  IF Len(idle) <= PerServer THEN Append(idle, [conn |-> x, last |-> now]) ELSE idle

\* TcpPool::release
Kept(s, x) ==
    LET idle == Retained(s)
    IN  IF Len(idle) < PerServer THEN Append(idle, [conn |-> x, last |-> now]) ELSE idle

\* The connection goes back; a decoded answer is returned, after a measurement
\* if the truncation cache sent the task here.
Release(t) ==
    /\ At(t, "release")
    /\ poolLock = {}
    /\ pool' = [pool EXCEPT ![t[2]] = Kept(t[2], task[t].conn)]
    /\ \/ /\ truncLock = {t}
          /\ task' = [task EXCEPT ![t].pc = "measure", ![t].conn = << >>]
          /\ UNCHANGED truncLock
       \/ /\ truncLock # {t}
          /\ Done(t, task[t].msg)
          /\ UNCHANGED truncLock
       \/ /\ Done(t, {})  \* the answer does not decode
          /\ truncLock' = truncLock \ {t}
    /\ UNCHANGED <<callVars, truncation, poolLock, now>>

\* Mutant: the guard of the truncation cache is kept.
Measure_locked(t) ==
    /\ At(t, "measure")
    /\ Done(t, task[t].msg)
    /\ UNCHANGED <<callVars, truncation, truncLock, pool, poolLock, now>>

\* A second connection, whose time is recorded if it succeeds; then the guard of
\* the truncation cache goes.
Measure(t) ==
    /\ At(t, "measure")
    /\ Done(t, task[t].msg)
    /\ truncLock' = truncLock \ {t}
    /\ UNCHANGED <<callVars, truncation, pool, poolLock, now>>

(***************************************************************************)
(* The cleaners, and time.                                                 *)
(***************************************************************************)
\* TcpPool::cleanup
cleanup == [s \in Server |-> Retained(s)]

CleanPool ==
    /\ poolLock = {}
    /\ pool' = cleanup
    /\ UNCHANGED <<callVars, task, truncation, truncLock, poolLock, now>>

\* The clock is read before the cleaner waits for the mutex.
CleanTruncation ==
    /\ truncLock = {}
    /\ \E read \in 0..now :
           truncation' = [s \in {r \in DOMAIN truncation : truncation[r] > read} |->
                             truncation[s]]
    /\ UNCHANGED <<callVars, task, truncLock, pool, poolLock, now>>

Tick ==
    /\ now < MaxTime
    /\ now' = now + 1
    /\ UNCHANGED <<callVars, task, truncation, truncLock, pool, poolLock>>

Work(t) ==
    \/ CheckTruncation(t)
    \/ UdpAnswer(t)
    \/ UdpTruncated(t)
    \/ UdpFails(t)
    \/ InsertTruncation(t)
    \/ Acquire(t)
    \/ AcquireNone(t)
    \/ Connect(t)
    \/ Read(t)
    \/ TcpFails(t)
    \/ Release(t)
    \/ Measure(t)

Finish(c) == FirstMessage(c) \/ AllFailed(c)

Next ==
    \/ \E c \in Call, servers \in SUBSET Server : query_servers_concurrent(c, servers)
    \/ \E c \in Call : Finish(c) \/ Abandon(c)
    \/ \E t \in Task : Work(t)
    \/ CleanPool
    \/ CleanTruncation
    \/ Tick

\* Every wait of a task for the network has a timeout, and tokio's mutexes are
\* handed over in the order of the requests.
Fairness ==
    /\ \A t \in Task : WF_vars(Work(t))
    /\ \A c \in Call : WF_vars(Finish(c))

Spec == Init /\ [][Next]_vars /\ Fairness

-----------------------------------------------------------------------------
\* Every task is at one of its awaits, and holds the mutexes that its guards
\* there are: the pool's exactly while it connects, the truncation cache's until
\* it returns on every path.  The connections of a server lie in the order of
\* their release.
TypeOK ==
    /\ \A t \in Task :
           /\ task[t].pc \in {"none", "start", "udp", "insert", "pool", "connect", "tcp",
                              "release", "measure", "done"}
           /\ task[t].msg \subseteq [from : Server, query : Call, tc : BOOLEAN]
    /\ poolLock = {t \in Task : At(t, "connect")}
    /\ Cardinality(truncLock) <= 1
    /\ \A t \in truncLock :
           task[t].pc \in {"pool", "connect", "tcp", "release", "measure"}
    /\ DOMAIN truncation \subseteq Server
    /\ \A s \in Server : \A i, j \in DOMAIN pool[s] :
           i <= j => pool[s][i].last <= pool[s][j].last

\* An idle connection has no answer left to read: recursive.rs:2337 "stream is
\* clean for reuse".  The answers on it are not compared with the query's id, so
\* that the next task would take a late one for its own.
ConnectionsClean ==
    \A s \in Server : \A i \in DOMAIN pool[s] : pool[s][i].conn = << >>

\* The pool holds at most TCP_POOL_PER_SERVER connections of a server.
PoolBounds == \A s \in Server : Len(pool[s]) <= PerServer

Abstract == INSTANCE Exchange

\* The race does what Exchange says: every call returns, at most one message,
\* from a server it asked and in answer to its own query, whatever the tasks of
\* other calls do to the connections and the mutexes it shares with them.
RaceReturnsAnAnswer == Abstract!Spec

(***************************************************************************)
(* What a comment says.                                                    *)
(***************************************************************************)
\* recursive.rs:1401-1402 says "Each server gets its own tokio task with its own
\* UDP socket, so TCP fallback for one server never blocks other UDP responses":
\* a task that is not waiting for its server is not kept from going on by
\* the exchange of another server's task over TCP.
TcpNeverBlocksUdp ==
    \A t, u \in Task :
        (At(t, "start") /\ t[2] \notin DOMAIN truncation /\ t[2] # u[2]) => truncLock # {u}
=============================================================================
