------------------------------- MODULE Server -------------------------------
(***************************************************************************)
(* The process around the resolver: the UDP server (server/udp.rs), the    *)
(* TCP server (server/tcp.rs), and the start and shutdown of main.rs, as a *)
(* normal process and as a Windows service.                                *)
(*                                                                         *)
(* A resolution is an await that ends with any outcome (its own behaviour  *)
(* is the subject of Resolver and Iteration).  Time passes in ticks; a     *)
(* resolution takes as many as the work its request was given.  A message  *)
(* is its size: bytes are left out.                                        *)
(***************************************************************************)
EXTENDS Integers, FiniteSets

CONSTANTS
    UdpQuery,             \* datagrams that clients send
    TcpConn,              \* connections that clients open
    MaxConcurrentQueries, \* MAX_CONCURRENT_QUERIES
    MaxConnections,       \* MAX_CONNECTIONS
    Work,                 \* ticks a resolution may take
    Grace,                \* SHUTDOWN_GRACE_PERIOD, in ticks
    Sizes,                \* sizes of an answer, and of the keys added to it
    MaxUdpPayload,        \* MAX_UDP_PAYLOAD
    MaxMessage            \* MAX_DNS_MESSAGE_SIZE, the buffer of encode_message

ASSUME ServerAssumption ==
    /\ IsFiniteSet(UdpQuery) /\ IsFiniteSet(TcpConn)
    /\ UdpQuery \cap TcpConn = {}
    /\ MaxConcurrentQueries \in Nat /\ MaxConnections \in Nat
    /\ Work \subseteq Nat \ {0} /\ Sizes \subseteq Nat
    /\ Grace \in Nat
    /\ MaxUdpPayload \in Nat /\ MaxMessage \in Nat

VARIABLES
    mode,     \* "process", or "service": run_as_service, without a TCP server
    stop,     \* SIGINT, SIGTERM or the service control's stop was received
    cancel,   \* cancel_flag, the stop_signal of run_server
    main,     \* block_on of main: "running", "grace", "exited"
    grace,    \* ticks left of the grace period
    udp,      \* run_server: "bind", "serving", "stopped", "failed"
    tcp,      \* run_tcp_server: "bind", "serving", "failed", "none"
    task,     \* the task of every request
    permits   \* free permits of both semaphores

vars == <<mode, stop, cancel, main, grace, udp, tcp, task, permits>>

Request == UdpQuery \cup TcpConn

\* What was sent: "TC" is NOERROR with the TC flag and empty sections.
\* Nothing is sent for a message that is no query ("ignored") and for an answer
\* that encode_message has no room for ("unencodable").
Sent == {"NOERROR", "TC", "FORMERR", "SERVFAIL", "NXDOMAIN"}
Reply == Sent \cup {"ignored", "unencodable", "none"}

(***************************************************************************)
(* pc    "idle", "queued" in the socket's buffer or the accept backlog,    *)
(*       "refused", "reading", "spawned", "resolving", "keys", "done",     *)
(*       "lost"                                                            *)
(* work  ticks its resolution takes at most, 0 before it is admitted       *)
(* left  ticks of work that are left                                       *)
(* reply what the client of a datagram got                                 *)
(***************************************************************************)
Fresh == [pc |-> "idle", work |-> 0, left |-> 0, reply |-> "none"]

\* main: both servers are spawned.
ProcessStart ==
    /\ mode = "process"
    /\ udp = "bind" /\ tcp = "bind"

\* my_service_main: block_on of the UDP server alone.
ServiceStart ==
    /\ mode = "service"
    /\ udp = "bind" /\ tcp = "none"

Init ==
    /\ ProcessStart \/ ServiceStart
    /\ stop = FALSE
    /\ cancel = FALSE
    /\ main = "running"
    /\ grace = Grace
    /\ task = [q \in Request |-> Fresh]
    /\ permits = [udp |-> MaxConcurrentQueries, tcp |-> MaxConnections]

At(q, pc) == task[q].pc = pc
Up == main # "exited"
process == <<mode, stop, cancel, main, grace, udp, tcp>>

(***************************************************************************)
(* Clients.                                                                *)
(***************************************************************************)
Send(q) ==
    /\ At(q, "idle")
    /\ \/ q \in UdpQuery /\ udp = "serving"
       \/ q \in TcpConn /\ tcp = "serving"
    /\ Up
    /\ task' = [task EXCEPT ![q].pc = "queued"]
    /\ UNCHANGED <<process, permits>>

(***************************************************************************)
(* Admission.  try_acquire_owned never waits: a request gets a permit and  *)
(* a task, or is refused on the spot.                                      *)
(***************************************************************************)
Pool(q) == IF q \in UdpQuery THEN "udp" ELSE "tcp"

\* Mutant: the permit is taken without a look at the semaphore.
Acquire_unchecked(q) ==
    permits' = [permits EXCEPT ![Pool(q)] = @ - 1]

Acquire(q) ==
    /\ permits[Pool(q)] > 0
    /\ permits' = [permits EXCEPT ![Pool(q)] = @ - 1]

handle_recv(q) ==
    /\ Up /\ udp = "serving"
    /\ q \in UdpQuery /\ At(q, "queued")
    /\ Acquire(q)
    /\ \E w \in Work :
          task' = [task EXCEPT ![q].pc = "spawned", ![q].work = w, ![q].left = w]
    /\ UNCHANGED process

Ended(q, r) == IF q \in UdpQuery THEN [Fresh EXCEPT !.pc = "done", !.reply = r] ELSE Fresh

\* Mutant: without a permit the datagram is dropped.
AtCapacity_drop(q) ==
    /\ Up /\ udp = "serving"
    /\ q \in UdpQuery /\ At(q, "queued")
    /\ permits.udp = 0
    /\ task' = [task EXCEPT ![q] = Ended(q, "none")]
    /\ UNCHANGED <<process, permits>>

\* A datagram too short to hold an id is ignored.
AtCapacity(q) ==
    /\ Up /\ udp = "serving"
    /\ q \in UdpQuery /\ At(q, "queued")
    /\ permits.udp = 0
    /\ \/ task' = [task EXCEPT ![q].pc = "refused"]
       \/ task' = [task EXCEPT ![q] = Ended(q, "ignored")]
    /\ UNCHANGED <<process, permits>>

SendRefusal(q) ==
    /\ Up /\ At(q, "refused")
    /\ task' = [task EXCEPT ![q] = Ended(q, "SERVFAIL")]
    /\ UNCHANGED <<process, permits>>

Accept(q) ==
    /\ Up /\ tcp = "serving"
    /\ q \in TcpConn /\ At(q, "queued")
    /\ Acquire(q)
    /\ task' = [task EXCEPT ![q].pc = "reading"]
    /\ UNCHANGED process

\* The connection is closed at once.
Reject(q) ==
    /\ Up /\ tcp = "serving"
    /\ q \in TcpConn /\ At(q, "queued")
    /\ permits.tcp = 0
    /\ task' = [task EXCEPT ![q] = Fresh]
    /\ UNCHANGED <<process, permits>>

(***************************************************************************)
(* handle_query and handle_tcp_connection.  The end of the task, whatever  *)
(* its reply, drops its permit.  A TCP client may connect again.           *)
(***************************************************************************)
\* Mutant: a task that sends nothing keeps its permit.
Finish_leak(q, r) ==
    /\ permits' = [permits EXCEPT ![Pool(q)] = IF r \in Sent THEN @ + 1 ELSE @]
    /\ task' = [task EXCEPT ![q] = Ended(q, r)]
    /\ UNCHANGED process

Finish(q, r) ==
    /\ permits' = [permits EXCEPT ![Pool(q)] = @ + 1]
    /\ task' = [task EXCEPT ![q] = Ended(q, r)]
    /\ UNCHANGED process

Goto(q, pc) ==
    /\ task' = [task EXCEPT ![q].pc = pc]
    /\ UNCHANGED <<process, permits>>

\* A message that does not parse is answered FORMERR; a response, a message
\* without question and one too short for an id are ignored.
Decoded(q) == Goto(q, "resolving") \/ Finish(q, "FORMERR") \/ Finish(q, "ignored")

Decode(q) == Up /\ At(q, "spawned") /\ Decoded(q)

\* A TCP client sends its message, or closes: nothing limits how long it takes.
Read(q) == Up /\ At(q, "reading") /\ Decoded(q)
ReadFails(q) == Up /\ At(q, "reading") /\ Finish(q, "none")

\* build_response, encode_message and, over UDP only, truncation.
Respond(q, size) ==
    CASE size > MaxMessage -> "unencodable"
      [] size \in MaxUdpPayload + 1 .. MaxMessage /\ q \in UdpQuery -> "TC"
      [] OTHER -> "NOERROR"

ResolveOk(q, size) ==
    /\ Up /\ At(q, "resolving")
    /\ Finish(q, Respond(q, size))

\* The client set DO: the DNSKEYs of the zone come from a second resolution, the
\* RRSIGs from the cache.
ResolveKeys(q) ==
    /\ Up /\ At(q, "resolving")
    /\ Goto(q, "keys")

AddKeys(q, size) ==
    /\ Up /\ At(q, "keys")
    /\ Finish(q, Respond(q, size))

\* NXDOMAIN with the zone's SOA, if that can be encoded, or SERVFAIL.
ResolveFails(q) ==
    /\ q \in UdpQuery
    /\ Up /\ At(q, "resolving")
    /\ Finish(q, "NXDOMAIN") \/ Finish(q, "unencodable") \/ Finish(q, "SERVFAIL")

TcpResolveFails(q) ==
    /\ q \in TcpConn
    /\ Up /\ At(q, "resolving")
    /\ Finish(q, "NXDOMAIN") \/ Finish(q, "unencodable") \/ Finish(q, "SERVFAIL")

\* write_tcp_response: the client has closed, whatever was to be sent.
TcpWriteFails(q) ==
    /\ q \in TcpConn
    /\ Up /\ task[q].pc \in {"resolving", "keys"}
    /\ Finish(q, "none")

(***************************************************************************)
(* Start and shutdown.                                                     *)
(***************************************************************************)
UdpBind ==
    /\ Up /\ udp = "bind"
    /\ udp' \in {"serving", "failed"}
    /\ UNCHANGED <<mode, stop, cancel, main, grace, tcp, task, permits>>

TcpBind ==
    /\ Up /\ tcp = "bind"
    /\ tcp' \in {"serving", "failed"}
    /\ UNCHANGED <<mode, stop, cancel, main, grace, udp, task, permits>>

Stopping == ~ stop /\ stop' = TRUE
            /\ UNCHANGED <<mode, cancel, main, grace, udp, tcp, task, permits>>

Cancelling == Up /\ stop /\ ~ cancel /\ cancel' = TRUE
              /\ UNCHANGED <<mode, stop, main, grace, udp, tcp, task, permits>>

Signal == mode = "process" /\ Stopping

\* The service control handler clears RUNNING.
ServiceStop == mode = "service" /\ Stopping

\* The signal task.
SetCancel == mode = "process" /\ Cancelling

\* The task that looks at RUNNING every 500 ms.
RelayStop == mode = "service" /\ Cancelling

UdpStop ==
    /\ Up /\ udp = "serving" /\ cancel
    /\ udp' = "stopped"
    /\ UNCHANGED <<mode, stop, cancel, main, grace, tcp, task, permits>>

\* Mutant: no grace period.
MainSelect_now ==
    /\ main = "running"
    /\ udp \in {"stopped", "failed"} \/ tcp = "failed"
    /\ main' = "grace"
    /\ grace' = 0
    /\ UNCHANGED <<mode, stop, cancel, udp, tcp, task, permits>>

\* Mutant: main waits for both servers.
MainSelect_both ==
    /\ main = "running"
    /\ udp \in {"stopped", "failed"} /\ tcp = "failed"
    /\ main' = "grace"
    /\ grace' = IF mode = "service" THEN 0 ELSE Grace
    /\ UNCHANGED <<mode, stop, cancel, udp, tcp, task, permits>>

\* Either server's end ends the select; a service has no grace period.
MainSelect ==
    /\ main = "running"
    /\ udp \in {"stopped", "failed"} \/ tcp = "failed"
    /\ main' = "grace"
    /\ grace' = IF mode = "service" THEN 0 ELSE Grace
    /\ UNCHANGED <<mode, stop, cancel, udp, tcp, task, permits>>

\* The runtime is dropped, and with it every task.
Exit ==
    /\ main = "grace" /\ grace = 0
    /\ main' = "exited"
    /\ task' = [q \in Request |->
                  CASE At(q, "done") -> task[q]
                    [] q \in UdpQuery /\ ~ At(q, "done") -> [task[q] EXCEPT !.pc = "lost"]
                    [] OTHER -> Fresh]
    /\ UNCHANGED <<mode, stop, cancel, grace, udp, tcp, permits>>

\* A request at work ends before its last tick passes.
Working(q) == task[q].pc \in {"spawned", "resolving", "keys"}

Tick ==
    /\ Up
    /\ main = "grace" \/ \E q \in UdpQuery : Working(q)
    /\ \A q \in UdpQuery : Working(q) => task[q].left > 0
    /\ main = "grace" => grace > 0
    /\ task' = [q \in Request |->
                  IF q \in UdpQuery /\ Working(q) THEN [task[q] EXCEPT !.left = @ - 1] ELSE task[q]]
    /\ grace' = IF main = "grace" THEN grace - 1 ELSE grace
    /\ UNCHANGED <<mode, stop, cancel, main, udp, tcp, permits>>

\* What the runtime and main do by themselves.
Run(q) ==
    \/ handle_recv(q) \/ AtCapacity(q) \/ SendRefusal(q)
    \/ Accept(q) \/ Reject(q)
    \/ Decode(q)
    \/ ResolveKeys(q) \/ ResolveFails(q) \/ TcpResolveFails(q) \/ TcpWriteFails(q)
    \/ \E size \in Sizes : ResolveOk(q, size) \/ AddKeys(q, size)

Lifecycle == UdpBind \/ TcpBind \/ SetCancel \/ RelayStop \/ MainSelect \/ Exit

Next ==
    \/ \E q \in Request : Run(q) \/ Send(q) \/ Read(q) \/ ReadFails(q)
    \/ Lifecycle
    \/ UdpStop
    \/ Signal \/ ServiceStop
    \/ Tick

Spec == Init /\ [][Next]_vars

(***************************************************************************)
(* Tokio polls every task that can go on, a resolution ends, and time      *)
(* passes.  select! starts at a random branch, so that a set cancel flag   *)
(* is noticed while datagrams keep arriving.  Nothing is assumed of        *)
(* clients.  That a resolution ends is ResolutionEnds of Iteration, which  *)
(* is without DNSSEC; with it, a zone whose servers deny its DNSKEY set    *)
(* over and over can keep one from ending (CallsReturn of Validation).     *)
(***************************************************************************)
FairSpec ==
    /\ Spec
    /\ \A q \in Request : WF_vars(Run(q))
    /\ WF_vars(UdpBind) /\ WF_vars(TcpBind)
    /\ WF_vars(SetCancel) /\ WF_vars(RelayStop)
    /\ WF_vars(UdpStop) /\ WF_vars(MainSelect) /\ WF_vars(Exit)
    /\ WF_vars(Tick)

-----------------------------------------------------------------------------
\* Every variable has its type; requests only hold work while they are at it.
TypeOK ==
    /\ mode \in {"process", "service"}
    /\ stop \in BOOLEAN /\ cancel \in BOOLEAN
    /\ main \in {"running", "grace", "exited"}
    /\ grace \in 0 .. Grace
    /\ udp \in {"bind", "serving", "stopped", "failed"}
    /\ tcp \in {"bind", "serving", "failed", "none"}
    /\ task \in [Request -> [pc : {"idle", "queued", "refused", "reading", "spawned",
                                   "resolving", "keys", "done", "lost"},
                             work : Work \cup {0}, left : Nat, reply : Reply]]
    /\ permits \in [{"udp", "tcp"} -> Nat]

Holding(q) == task[q].pc \in {"reading", "spawned", "resolving", "keys"}
InUse(S) == Cardinality({q \in S : Holding(q)})

(***************************************************************************)
(* handle_recv, run_tcp_server: whatever way a task ends (a reply, no      *)
(* reply, an error of encode_message, a client that closes), its permit    *)
(* comes back, and never twice: the free permits and the tasks at work are *)
(* always the capacity, so that no sequence of requests shrinks a server   *)
(* or lets it exceed its limit.                                            *)
(***************************************************************************)
PermitsConserved ==
    Up => /\ permits.udp + InUse(UdpQuery) = MaxConcurrentQueries
          /\ permits.tcp + InUse(TcpConn) = MaxConnections

(***************************************************************************)
(* main: "Give running queries time to finish".  A datagram admitted       *)
(* before the UDP server stopped is not lost at the exit if its resolution *)
(* is shorter than the grace period, whatever arrived since over TCP.      *)
(***************************************************************************)
GraceSuffices ==
    main = "exited" /\ mode = "process" /\ udp = "stopped" /\ tcp # "failed" =>
        \A q \in UdpQuery :
            ~ (At(q, "lost") /\ task[q].work > 0 /\ task[q].work < Grace)

(***************************************************************************)
(* run_server, handle_query: every datagram that reaches the socket is     *)
(* answered while the process serves, with SERVFAIL at capacity; without a *)
(* reply stay only datagrams that are no query and answers that            *)
(* encode_message has no room for.  Resolutions end, by FairSpec.          *)
(***************************************************************************)
Settled(q) == At(q, "done") /\ task[q].reply # "none"

DatagramsSettled ==
    \A q \in UdpQuery : At(q, "queued") ~> Settled(q) \/ main # "running"

(***************************************************************************)
(* main: a signal, and the failure of either server, end the process, even *)
(* with TCP connections open that never send and datagrams still coming.   *)
(***************************************************************************)
ShutdownCompletes ==
    stop \/ udp = "failed" \/ tcp = "failed" ~> main = "exited"
=============================================================================
