----------------------------- MODULE Iteration -----------------------------
(***************************************************************************)
(* RecursiveResolver::resolve_recursive (resolver/recursive.rs): the       *)
(* iterative descent from the root with QNAME minimization, referrals with *)
(* and without glue, CNAME chasing, and the delegation and NS-address      *)
(* caches that concurrent resolutions share.  The name space is a fixed    *)
(* tree of zones whose servers answer truthfully, refuse, or not at all.   *)
(*                                                                         *)
(* A name is the sequence of its labels from the root down, a resource     *)
(* record set is the set of addresses a name has.  query_servers_concurrent *)
(* returns the message of any of the servers, so that the order of the     *)
(* list, and with it rotate_left, does not matter: nameservers is a set.   *)
(* A referral has glue for all of its servers, or names one without glue   *)
(* (the code also takes several names, and glue for some of them), and an  *)
(* answer has no NS records beside it.                                     *)
(* DNSSEC is off, and the two caches forget entries at any time (expiry    *)
(* and LRU eviction).  An iteration is one step from the arrival of the    *)
(* message on: what it does to the caches happens under one lock after     *)
(* another, but no other step reads both caches.                           *)
(***************************************************************************)
EXTENDS Integers, Sequences

CONSTANTS
    Label,           \* the labels that names are made of
    Zone,            \* apexes of the zones, the root << >> among them
    Address,         \* addresses, of servers and of hosts
    ServersOf,       \* [Zone -> SUBSET Address]
    Glueless,        \* [SUBSET Zone -> names]: the name server, for zones
                     \* whose referral has no glue
    Data,            \* [names -> SUBSET Address]: the A records
    Alias,           \* [names -> names]: the CNAME records
    Lame,            \* servers that refuse every query
    Unreliable,      \* BOOLEAN: a query may stay without answer
    Question,        \* the names asked for
    Caller,          \* concurrent top-level resolutions
    MaxIterations,   \* MAX_ITERATIONS
    MaxDepth,        \* MAX_CNAME_DEPTH
    Resolvable,      \* names that the two limits are enough for,
    Nesting,         \* [Resolvable -> Nat]: the calls that nest below one for the name,
    Level            \* [Zone -> Nat]: the delegations above a zone: see Provisioned

Name == Seq(Label)

\* z is the name n or one that n is below.
Above(z, n) == Len(z) <= Len(n) /\ SubSeq(n, 1, Len(z)) = z

ASSUME IterationAssumption ==
    /\ << >> \in Zone
    /\ Zone \cup DOMAIN Data \cup DOMAIN Alias \cup Question \subseteq Name
    /\ ServersOf \in [Zone -> SUBSET Address]
    /\ DOMAIN Glueless \subseteq Zone
    /\ \A z \in DOMAIN Glueless : Glueless[z] \in Name
    /\ \A n \in DOMAIN Data : Data[n] \subseteq Address
    /\ \A n \in DOMAIN Alias : Alias[n] \in Name
    /\ Lame \subseteq Address
    /\ Unreliable \in BOOLEAN
    /\ MaxIterations \in Nat
    /\ MaxDepth \in Nat

VARIABLES
    delegation,  \* delegation_cache: names -> addresses
    ns_cache,    \* names of servers -> addresses
    stack,       \* of every caller: the nested calls of resolve_recursive
    result       \* of every caller: the name asked for, and the value returned

vars == <<delegation, ns_cache, stack, result>>

-----------------------------------------------------------------------------
(***************************************************************************)
(* The name space (external): what a server that is up and not lame says.  *)
(***************************************************************************)
Exists(q) == \E n \in DOMAIN Data \cup DOMAIN Alias \cup Zone : Above(q, n)

\* The zone of server s that q falls into, and the cut below it on the way to q.
Apex(s, q) ==
    LET zs == {z \in Zone : s \in ServersOf[z] /\ Above(z, q)}
    IN  IF zs = {} THEN {} ELSE {CHOOSE z \in zs : \A y \in zs : Len(y) <= Len(z)}

Cut(z, q) ==
    LET cs == {c \in Zone : z # c /\ Above(z, c) /\ Above(c, q)}
    IN  IF cs = {} THEN {} ELSE {CHOOSE c \in cs : \A d \in cs : Len(c) <= Len(d)}

Respond(s, q) ==
    IF s \in Lame \/ Apex(s, q) = {} THEN [kind |-> "refused"]
    ELSE LET z == CHOOSE z \in Apex(s, q) : TRUE
         IN  IF Cut(z, q) # {} THEN
                 [kind |-> "referral", zone |-> CHOOSE c \in Cut(z, q) : TRUE]
             ELSE IF q \in DOMAIN Alias THEN [kind |-> "cname", target |-> Alias[q]]
             ELSE IF q \in DOMAIN Data THEN [kind |-> "data", data |-> Data[q]]
             ELSE IF Exists(q) THEN [kind |-> "nodata"]
             ELSE [kind |-> "nxdomain"]

-----------------------------------------------------------------------------
(***************************************************************************)
(* The resolver.  A frame is one call of resolve_recursive:                *)
(*   pc           "enter", "loop", "return", or what the nested call       *)
(*                above it is for: "cname" or "ns"                         *)
(*   name, depth  the arguments                                            *)
(*   servers      nameservers                                              *)
(*   revealed     revealed_labels                                          *)
(*   n            iterations done                                          *)
(*   zone         the referral being followed when pc = "ns"               *)
(*   ret          [kind, data], the value returned when pc = "return"      *)
(***************************************************************************)
NoResult == [kind |-> "none", data |-> {}]
Ok(addrs) == [kind |-> "ok", data |-> addrs]
Err(kind) == [kind |-> kind, data |-> {}]

initial_root_addrs == ServersOf[<< >>]

Call(name, depth, minimize) ==
    [pc |-> "enter", name |-> name, depth |-> depth,
     servers |-> initial_root_addrs,
     revealed |-> IF minimize THEN 1 ELSE Len(name), n |-> 0, zone |-> << >>,
     ret |-> NoResult]

Empty == [x \in {} |-> {}]

Init ==
    /\ delegation = Empty
    /\ ns_cache = Empty
    /\ stack = [t \in Caller |-> << >>]
    /\ result = [t \in Caller |-> [name |-> << >>, ret |-> NoResult]]

\* Of nested calls, the one that runs and the ones that wait.
Innermost(calls) == calls[Len(calls)]
Outer(calls) == SubSeq(calls, 1, Len(calls) - 1)

Top(t) == Innermost(stack[t])
Below(t) == Outer(stack[t])
Running(t, pc) == stack[t] # << >> /\ Top(t).pc = pc

\* The innermost call goes on as frame f.
Continue(t, f) == stack' = [stack EXCEPT ![t] = Append(Below(t), f)]

\* The innermost call waits for a nested one.
Nest(t, f, g) == stack' = [stack EXCEPT ![t] = Below(t) \o <<f, g>>]

ReturnValue(f, ret) == [f EXCEPT !.pc = "return", !.ret = ret]

\* Mutant: an iteration without result is not counted.
Retry_uncounted(f) == [f EXCEPT !.pc = "loop"]

\* Nothing came of the message: the next iteration.
Retry(f) == [f EXCEPT !.pc = "loop", !.n = @ + 1]

\* Mutant: a referral is no iteration.
Follow_uncounted(f, servers) ==
    [f EXCEPT !.pc = "loop", !.servers = servers,
              !.revealed = IF @ < Len(f.name) THEN @ + 1 ELSE @]

\* A referral is followed: its servers are asked for one more label.
Follow(f, servers) ==
    [f EXCEPT !.pc = "loop", !.n = @ + 1, !.servers = servers,
              !.revealed = IF @ < Len(f.name) THEN @ + 1 ELSE @]

(***************************************************************************)
(* The two caches.                                                         *)
(***************************************************************************)
With(cache, n, v) == [m \in DOMAIN cache \cup {n} |-> IF m = n THEN v ELSE cache[m]]

cache_delegation(zone, servers) == With(delegation, zone, servers)

\* cache_response, as far as it fills the NS cache.
Learn(n, addrs) ==
    With(ns_cache, n, addrs \cup (IF n \in DOMAIN ns_cache THEN ns_cache[n] ELSE {}))

\* find_cached_delegation: the longest cached suffix of the name but the root.
Cached(name) == {n \in DOMAIN delegation : n # << >> /\ Above(n, name)}

find_cached_delegation(name) ==
    delegation[CHOOSE n \in Cached(name) : \A m \in Cached(name) : Len(m) <= Len(n)]

(***************************************************************************)
(* The outermost call, and the entry of every call.                        *)
(***************************************************************************)
Ask(t, q) ==
    /\ stack[t] = << >>
    /\ stack' = [stack EXCEPT ![t] = <<Call(q, 0, TRUE)>>]
    /\ result' = [result EXCEPT ![t] = [name |-> q, ret |-> NoResult]]
    /\ UNCHANGED <<delegation, ns_cache>>

\* Mutant: one call too many.
DepthExceeded_late(f) == f.depth > MaxDepth + 1

DepthExceeded(f) == f.depth > MaxDepth

TooDeep(t) ==
    /\ Running(t, "enter")
    /\ DepthExceeded(Top(t))
    /\ Continue(t, ReturnValue(Top(t), Err("error")))
    /\ UNCHANGED <<delegation, ns_cache, result>>

\* Mutant: the servers of a cached delegation are asked for the shortened name.
Enter_minimized(t) ==
    /\ Running(t, "enter")
    /\ ~ DepthExceeded(Top(t))
    /\ Continue(t, IF Cached(Top(t).name) = {}
                   THEN [Top(t) EXCEPT !.pc = "loop"]
                   ELSE [Top(t) EXCEPT !.pc = "loop",
                                       !.servers = find_cached_delegation(Top(t).name)])
    /\ UNCHANGED <<delegation, ns_cache, result>>

\* A cached delegation is used, whatever zone it is for, with the full name.
Enter(t) ==
    /\ Running(t, "enter")
    /\ ~ DepthExceeded(Top(t))
    /\ Continue(t, IF Cached(Top(t).name) = {}
                   THEN [Top(t) EXCEPT !.pc = "loop"]
                   ELSE [Top(t) EXCEPT !.pc = "loop",
                                       !.servers = find_cached_delegation(Top(t).name),
                                       !.revealed = Len(Top(t).name)])
    /\ UNCHANGED <<delegation, ns_cache, result>>

(***************************************************************************)
(* One iteration: the minimized name is sent to the servers, and the first *)
(* message that comes back decides.                                        *)
(***************************************************************************)
\* The n labels of the name next to the root.
name_prefix(name, n) == IF n >= Len(name) THEN name ELSE SubSeq(name, 1, n)

Qname(f) == IF f.revealed < Len(f.name) THEN name_prefix(f.name, f.revealed) ELSE f.name

FullName(f) == f.revealed >= Len(f.name)

InLoop(t) == Running(t, "loop") /\ Top(t).servers # {} /\ Top(t).n < MaxIterations

Message(t) == {Respond(s, Qname(Top(t))) : s \in Top(t).servers}

Received(t, kind) == {m \in Message(t) : m.kind = kind}

\* "no nameservers to query" or "maximum iterations exceeded"
GiveUp(t) ==
    /\ Running(t, "loop")
    /\ Top(t).servers = {} \/ Top(t).n >= MaxIterations
    /\ Continue(t, ReturnValue(Top(t), Err("error")))
    /\ UNCHANGED <<delegation, ns_cache, result>>

NoResponse(t) ==
    /\ InLoop(t)
    /\ Unreliable
    /\ Continue(t, Retry(Top(t)))
    /\ UNCHANGED <<delegation, ns_cache, result>>

\* Mutant: an error code is taken for the name's absence.
ErrorCode_nxdomain(t) ==
    /\ InLoop(t)
    /\ Received(t, "refused") # {}
    /\ Continue(t, ReturnValue(Top(t), Err("nxdomain")))
    /\ UNCHANGED <<delegation, ns_cache, result>>

ErrorCode(t) ==
    /\ InLoop(t)
    /\ Received(t, "refused") # {}
    /\ Continue(t, Retry(Top(t)))
    /\ UNCHANGED <<delegation, ns_cache, result>>

\* NXDOMAIN ends the call, also when the name asked for was a shortened one.
NxDomain(t) ==
    /\ InLoop(t)
    /\ Received(t, "nxdomain") # {}
    /\ Continue(t, ReturnValue(Top(t), Err("nxdomain")))
    /\ UNCHANGED <<delegation, ns_cache, result>>

\* Mutant: the answer is compared with the shortened name.
DirectAnswer_short(t) ==
    /\ InLoop(t)
    /\ \E m \in Received(t, "data") :
           /\ ns_cache' = Learn(Qname(Top(t)), m.data)
           /\ Continue(t, ReturnValue(Top(t), Ok(m.data)))
    /\ delegation' = cache_delegation(Qname(Top(t)), Top(t).servers)
    /\ UNCHANGED result

DirectAnswer(t) ==
    /\ InLoop(t)
    /\ FullName(Top(t))
    /\ \E m \in Received(t, "data") :
           /\ ns_cache' = Learn(Top(t).name, m.data)
           /\ Continue(t, ReturnValue(Top(t), Ok(m.data)))
    /\ delegation' = cache_delegation(Top(t).name, Top(t).servers)
    /\ UNCHANGED result

ChaseCname(t) ==
    /\ InLoop(t)
    /\ FullName(Top(t))
    /\ \E m \in Received(t, "cname") :
           Nest(t, [Top(t) EXCEPT !.pc = "cname"], Call(m.target, Top(t).depth + 1, TRUE))
    /\ UNCHANGED <<delegation, ns_cache, result>>

\* The addresses of the servers of the referral come with it, or are known.
FollowReferral(t) ==
    /\ InLoop(t)
    /\ \E m \in Received(t, "referral") :
           LET glueless == m.zone \in DOMAIN Glueless
               servers == IF glueless THEN ns_cache[Glueless[m.zone]] ELSE ServersOf[m.zone]
           IN  /\ glueless => Glueless[m.zone] \in DOMAIN ns_cache
               /\ delegation' = cache_delegation(m.zone, servers)
               /\ Continue(t, Follow(Top(t), servers))
    /\ UNCHANGED <<ns_cache, result>>

\* resolve_ns_names_concurrently: neither glue nor a cached address.
ResolveServerName(t) ==
    /\ InLoop(t)
    /\ \E m \in Received(t, "referral") :
           /\ m.zone \in DOMAIN Glueless
           /\ Glueless[m.zone] \notin DOMAIN ns_cache
           /\ Nest(t, [Top(t) EXCEPT !.pc = "ns", !.zone = m.zone],
                      Call(Glueless[m.zone], Top(t).depth + 1, FALSE))
    /\ UNCHANGED <<delegation, ns_cache, result>>

\* NODATA ends the call, also when the name asked for was a shortened one.
NoData(t) ==
    /\ InLoop(t)
    /\ Received(t, "nodata") # {}
    /\ Continue(t, ReturnValue(Top(t), Ok({})))
    /\ UNCHANGED <<delegation, ns_cache, result>>

\* Mutant: the same shortened name is asked for again.
RevealFullName_again(t) ==
    /\ InLoop(t)
    /\ ~ FullName(Top(t))
    /\ Received(t, "data") \cup Received(t, "cname") # {}
    /\ Continue(t, Retry(Top(t)))
    /\ UNCHANGED <<delegation, ns_cache, result>>

\* The shortened name is a host, no zone: the full name is revealed.
RevealFullName(t) ==
    /\ InLoop(t)
    /\ ~ FullName(Top(t))
    /\ \/ \E m \in Received(t, "data") : ns_cache' = Learn(Qname(Top(t)), m.data)
       \/ Received(t, "cname") # {} /\ UNCHANGED ns_cache
    /\ Continue(t, [Retry(Top(t)) EXCEPT !.revealed = Len(Top(t).name)])
    /\ UNCHANGED <<delegation, result>>

(***************************************************************************)
(* The return of a nested call to the one that waits for it.               *)
(***************************************************************************)
Waiter(t) == Innermost(Below(t))

\* The innermost call has returned to one that waits for it with pc.
Returned(t, pc) ==
    /\ Running(t, "return")
    /\ Len(stack[t]) > 1
    /\ Waiter(t).pc = pc

Resume(t, f) == stack' = [stack EXCEPT ![t] = Append(Outer(Below(t)), f)]

ReturnCname(t) ==
    /\ Returned(t, "cname")
    /\ delegation' = IF Top(t).ret.kind = "ok"
                     THEN cache_delegation(Waiter(t).name, Waiter(t).servers)
                     ELSE delegation
    /\ Resume(t, ReturnValue(Waiter(t), Top(t).ret))
    /\ UNCHANGED <<ns_cache, result>>

\* Mutant: the delegation is cached under the name of the server.
ReturnServerName_nsname(t) ==
    /\ Returned(t, "ns")
    /\ Top(t).ret.data # {}
    /\ ns_cache' = With(ns_cache, Glueless[Waiter(t).zone], Top(t).ret.data)
    /\ delegation' = cache_delegation(Glueless[Waiter(t).zone], Top(t).ret.data)
    /\ Resume(t, [Follow(Waiter(t), Top(t).ret.data) EXCEPT !.zone = << >>])
    /\ UNCHANGED result

ReturnServerName(t) ==
    /\ Returned(t, "ns")
    /\ IF Top(t).ret.data # {}
       THEN /\ ns_cache' = With(ns_cache, Glueless[Waiter(t).zone], Top(t).ret.data)
            /\ delegation' = cache_delegation(Waiter(t).zone, Top(t).ret.data)
            /\ Resume(t, [Follow(Waiter(t), Top(t).ret.data) EXCEPT !.zone = << >>])
       ELSE /\ Resume(t, [Retry(Waiter(t)) EXCEPT !.zone = << >>])
            /\ UNCHANGED <<ns_cache, delegation>>
    /\ UNCHANGED result

Deliver(t) ==
    /\ Running(t, "return")
    /\ Len(stack[t]) = 1
    /\ stack' = [stack EXCEPT ![t] = << >>]
    /\ result' = [result EXCEPT ![t].ret = Top(t).ret]
    /\ UNCHANGED <<delegation, ns_cache>>

(***************************************************************************)
(* Expiry of a delegation after two hours, and eviction from either cache. *)
(***************************************************************************)
Without(cache, n) == [m \in DOMAIN cache \ {n} |-> cache[m]]

Forget ==
    /\ \/ \E n \in DOMAIN delegation : delegation' = Without(delegation, n) /\ UNCHANGED ns_cache
       \/ \E n \in DOMAIN ns_cache : ns_cache' = Without(ns_cache, n) /\ UNCHANGED delegation
    /\ UNCHANGED <<stack, result>>

Step(t) ==
    \/ TooDeep(t)
    \/ Enter(t)
    \/ GiveUp(t)
    \/ NoResponse(t)
    \/ ErrorCode(t)
    \/ NxDomain(t)
    \/ DirectAnswer(t)
    \/ ChaseCname(t)
    \/ FollowReferral(t)
    \/ ResolveServerName(t)
    \/ NoData(t)
    \/ RevealFullName(t)
    \/ ReturnCname(t)
    \/ ReturnServerName(t)
    \/ Deliver(t)

Next ==
    \/ \E t \in Caller, q \in Question : Ask(t, q)
    \/ \E t \in Caller : Step(t)
    \/ Forget

Spec == Init /\ [][Next]_vars

\* Every await of a resolution ends: a server's answer or its timeout.
FairSpec == Spec /\ \A t \in Caller : WF_vars(Step(t))

-----------------------------------------------------------------------------
(***************************************************************************)
(* What the name space says: the reference for the answers.                *)
(***************************************************************************)
\* Where the chain of aliases from q ends: the name without alias that is in every
\* set of names that q is in and that holds the target of each of its aliases.
\* A chain that runs into a cycle has no end.
Ends(q) ==
    LET names == {q} \cup {Alias[a] : a \in DOMAIN Alias}
        closed == {s \in SUBSET names : \A a \in s \cap DOMAIN Alias : Alias[a] \in s}
    IN  {n \in names \ DOMAIN Alias : \A s \in closed : q \in s => n \in s}

Truth(q) ==
    LET n == CHOOSE n \in Ends(q) : TRUE
    IN  IF Ends(q) = {} THEN Err("error")
        ELSE IF n \in DOMAIN Data THEN Ok(Data[n])
        ELSE IF Exists(n) THEN Ok({})
        ELSE Err("nxdomain")

\* The name space is consistent: the addresses of a name server's name, where it
\* has any, are addresses of servers of the zone that names it.
ASSUME ServerNamesAssumption ==
    \A z \in DOMAIN Glueless : Truth(Glueless[z]).data \subseteq ServersOf[z]

(***************************************************************************)
(* Properties.                                                             *)
(***************************************************************************)
\* Every call of resolve_recursive stands at a point of its loop and reveals at
\* most its whole name (the root has no labels to reveal), and calls are nested at
\* most MAX_CNAME_DEPTH + 2 deep through CNAMEs and server names together.
TypeOK ==
    /\ \A n \in DOMAIN delegation : delegation[n] \subseteq Address
    /\ \A n \in DOMAIN ns_cache : ns_cache[n] \subseteq Address
    /\ \A t \in Caller :
           /\ Len(stack[t]) <= MaxDepth + 2
           /\ \A i \in DOMAIN stack[t] :
                  LET f == stack[t][i]
                  IN  /\ f.pc \in {"enter", "loop", "cname", "ns", "return"}
                      /\ f.depth = i - 1
                      /\ f.n \in 0 .. MaxIterations
                      /\ f.name # << >> => f.revealed \in 1 .. Len(f.name)

\* The resolver never makes up an answer: addresses it returns are those of the
\* name, at the end of its CNAMEs, and it reports NXDOMAIN only of a name that
\* does not exist, whatever servers refuse or do not answer and whatever other
\* resolutions left in the delegation and NS caches.
AnswersTrue ==
    \A t \in Caller :
        LET r == result[t].ret
        IN  (r.data # {} \/ r.kind = "nxdomain") => r = Truth(result[t].name)

\* The name space is healthy, and MAX_ITERATIONS and MAX_CNAME_DEPTH are enough for
\* the names of Resolvable.  Every server is up and none refuses, zones have servers
\* and names addresses; above a name are at most MAX_ITERATIONS - 1 zones, one for
\* each iteration but that for the full name; what is resolved on the way, aliases and
\* names of servers, nests no deeper than MAX_CNAME_DEPTH, and the name of a server is
\* no alias.
Provisioned ==
    /\ ~ Unreliable /\ Lame = {}
    /\ \A z \in Zone : ServersOf[z] # {}
    /\ \A n \in DOMAIN Data : Data[n] # {}
    /\ Level \in [Zone -> Nat]
    /\ \A z, c \in Zone : z # c /\ Above(z, c) => Level[z] < Level[c]
    /\ Resolvable \subseteq Name
    /\ Nesting \in [Resolvable -> 0 .. MaxDepth]
    /\ \A n \in Resolvable :
           /\ \A z \in Zone : Above(z, n) => Level[z] + 1 < MaxIterations
           /\ n \in DOMAIN Alias => Alias[n] \in Resolvable /\ Nesting[Alias[n]] < Nesting[n]
           /\ \A z \in DOMAIN Glueless : Above(z, n) =>
                  /\ Glueless[z] \in Resolvable /\ Nesting[Glueless[z]] < Nesting[n]
                  /\ Glueless[z] \in DOMAIN Data \ DOMAIN Alias

\* In a healthy name space no resolution fails of a name that the limits are enough
\* for: referrals, minimization and cached delegations, whoever cached them, never
\* send it to servers that cannot help, or on a detour that costs it an iteration or
\* a nested call too many.
HealthyResolves ==
    Provisioned => \A t \in Caller : result[t].name \in Resolvable => result[t].ret.kind # "error"

\* Where no server is lame, none that is asked refuses: referrals, shortened names
\* and cached delegations, however old and whoever cached them, only ever lead to
\* servers of a zone that the name sent to them (Qname) is in.
NoServerRefuses ==
    Lame = {} => \A t \in Caller : InLoop(t) => Received(t, "refused") = {}

\* A delegation is cached only with servers of a zone that the name is in.
DelegationSound ==
    \A n \in DOMAIN delegation : \A s \in delegation[n] :
        \E z \in Zone : s \in ServersOf[z] /\ Above(z, n)

\* What a call has left to do: its iterations, and the nested call it may be at.
Rank(f) ==
    IF f.pc = "return" THEN 0
    ELSE IF f.pc = "enter" THEN 2 * MaxIterations + 3
    ELSE 2 * (MaxIterations - f.n) + (IF f.pc = "loop" THEN 2 ELSE 1)

\* The calls st of a resolution become nx: one of them has less left, or is over,
\* and the calls outside it are as they were.
Spent(st, nx) ==
    \E i \in 1 .. Len(st) :
        /\ Len(nx) >= i - 1
        /\ \A j \in 1 .. i - 1 : nx[j] = st[j]
        /\ Len(nx) >= i => Rank(nx[i]) < Rank(st[i])

\* No step of a resolution gives back what an earlier one has spent: a referral, a
\* shortened name, a CNAME, a server name and a failure all cost an iteration of
\* the call or end it.  As nesting is bounded (TypeOK), a resolution takes finitely
\* many steps, whatever servers answer and other resolutions do to the caches.
BudgetSpent ==
    [][\A t \in Caller : stack[t] # << >> /\ stack'[t] # stack[t] => Spent(stack[t], stack'[t])]_vars

\* Every resolution ends: iterations and nesting are bounded, whatever cycles
\* CNAMEs or glueless delegations form.
ResolutionEnds == \A t \in Caller : stack[t] # << >> ~> stack[t] = << >>

(***************************************************************************)
(* What a comment says.                                                    *)
(***************************************************************************)
\* recursive.rs:1295-1298 says that when a shortened name brings no delegation
\* the resolver will "jump to the full name": an empty answer is returned only
\* for a name that has no data.
EmptyAnswersTrue ==
    \A t \in Caller :
        LET r == result[t].ret
        IN  (r.kind = "ok" /\ r.data = {}) => r = Truth(result[t].name)
=============================================================================
