------------------------------ MODULE Resolver ------------------------------
(***************************************************************************)
(* RecursiveResolver::resolve_with_ad (resolver/recursive.rs): concurrent  *)
(* calls over one shared cache and one set of statistics, with the         *)
(* prefetch spawned by a hit, the serve-stale refresh, the periodic purge  *)
(* and the flush of the REST API.                                          *)
(*                                                                         *)
(* A task is cut into actions where it takes a mutex or waits for the      *)
(* network.  The iterative resolution itself is the subject of Iteration;  *)
(* here it is a loop of at most MaxIterations messages, each stored on     *)
(* arrival (cache_response), that ends with a result.  A name, type and    *)
(* class are one key.                                                      *)
(***************************************************************************)
EXTENDS DnsCacheSpec

CONSTANTS
    Client,         \* callers of resolve_with_ad
    Warmer,         \* the callers a timeout may cancel: the startup prefetch, and
                    \* validation inside a refresh
    Prefetcher,     \* bound: background prefetches in flight
    Section,        \* the record sequences a message may carry
    PrefetchTtl,    \* 120: a hit below this TTL, in seconds, spawns a prefetch
    MaxIterations,  \* MAX_ITERATIONS, for all nested calls of a resolution
    MaxQueries      \* bound: calls of resolve_with_ad

ASSUME ResolverAssumption ==
    /\ Warmer \subseteq Client
    /\ Client \cap Prefetcher = {}
    /\ IsFiniteSet(Client)
    /\ \A recs \in Section : recs \in Seq([key : Key, rdata : RData, ttl : Nat])
    /\ PrefetchTtl \in Nat
    /\ MaxIterations \in Nat \ {0}
    /\ MaxQueries \in Nat

\* cache is the Arc<Mutex<DnsCache>> that the tasks share, now the clock.
VARIABLES
    stats,   \* Arc<Mutex<ResolverStats>>, without the timings
    task,    \* the state of every task
    seen     \* history: calls, outcomes that stats does not count, rejections

vars == <<cache, now, stats, task, seen>>

Task == Client \cup Prefetcher

NoKey == "none"
Nothing == [kind |-> "none", recs |-> << >>]

(***************************************************************************)
(* pc     where the task stands: see the actions                           *)
(* key    what it resolves: the question, then the target of its CNAMEs    *)
(* n      messages its resolution has consumed                             *)
(* chain  the CNAME records it has followed                                *)
(* got    the records of key that end its resolution, then the result      *)
(* stale  the stale records it holds while it refreshes                    *)
(* asked, start   the question and the time of the call, as long as it may *)
(*        hold stale records                                               *)
(***************************************************************************)
Idle == [pc |-> "idle", key |-> NoKey, n |-> 0, chain |-> << >>, got |-> Nothing,
         stale |-> {}, asked |-> NoKey, start |-> 0]

Init ==
    /\ cache = NewCache
    /\ now = 0
    /\ stats = [total_queries |-> 0, cache_hits |-> 0, cache_misses |-> 0,
                failed_queries |-> 0, served_stale |-> 0]
    /\ task = [t \in Task |-> Idle]
    /\ seen = [asked |-> 0, refreshed |-> 0, early |-> 0, late |-> 0, rejected |-> {}]

At(t, pc) == task[t].pc = pc
Become(t, pc) == task' = [task EXCEPT ![t].pc = pc]

\* The call returns and its locals are dropped.
Return(t) == task' = [task EXCEPT ![t] = Idle]

(***************************************************************************)
(* 1. The cache check.  On a hit the statistics are updated under the      *)
(* cache's mutex and a prefetch is spawned when the smallest TTL is low.   *)
(***************************************************************************)
Ask(c, k) ==
    /\ At(c, "idle")
    /\ seen.asked < MaxQueries
    /\ cache' = lookup(cache, now, k)
    /\ UNCHANGED now

Asked == [seen EXCEPT !.asked = @ + 1]

\* Mutant: a hit is not counted as a query.
CountHit_uncounted ==
    stats' = [stats EXCEPT !.cache_hits = @ + 1]

CountHit ==
    stats' = [stats EXCEPT !.cache_hits = @ + 1, !.total_queries = @ + 1]

NeedsPrefetch(k) == \E a \in found(cache, now, k) : a.ttl < PrefetchTtl

Hit(c, k) ==
    /\ Ask(c, k)
    /\ found(cache, now, k) # {}
    /\ ~ NeedsPrefetch(k)
    /\ CountHit
    /\ seen' = Asked
    /\ UNCHANGED task

HitAndPrefetch(c, k, p) ==
    /\ Ask(c, k)
    /\ NeedsPrefetch(k)
    /\ CountHit
    /\ seen' = Asked
    /\ At(p, "idle")
    /\ task' = [task EXCEPT ![p] = [Idle EXCEPT !.pc = "prefetch", !.key = k]]

Miss(c, k) ==
    /\ Ask(c, k)
    /\ found(cache, now, k) = {}
    /\ seen' = Asked
    /\ task' = [task EXCEPT ![c] = [Idle EXCEPT !.pc = "missed", !.key = k, !.asked = k,
                                                !.start = now]]
    /\ UNCHANGED stats

CountMiss(c) ==
    /\ At(c, "missed")
    /\ stats' = [stats EXCEPT !.cache_misses = @ + 1]
    /\ Become(c, "check")
    /\ UNCHANGED <<cache, now, seen>>

(***************************************************************************)
(* 1b. Serve-stale.  The stale records are read under a lock of their own, *)
(* after which the task refreshes them or resolves from scratch.           *)
(***************************************************************************)
CheckStale(c) ==
    /\ At(c, "check")
    /\ cache' = lookup_stale(cache, now, task[c].key)
    /\ LET stale == {e \in Records(cache.stale, task[c].key) : usable(e, now)}
       IN  task' = [task EXCEPT ![c] =
                      IF stale # {} THEN [@ EXCEPT !.pc = "refresh", !.stale = stale]
                      ELSE [Idle EXCEPT !.pc = "recurse", !.key = task[c].key]]
    /\ UNCHANGED <<now, stats, seen>>

StoreRefreshed(c) ==
    /\ At(c, "refreshed")
    /\ cache' = insert_records(cache, now, task[c].got.recs)
    /\ seen' = [seen EXCEPT !.refreshed = @ + 1]
    /\ Return(c)
    /\ UNCHANGED <<now, stats>>

ServeStale(c) ==
    /\ At(c, "unrefreshed")
    /\ stats' = [stats EXCEPT !.served_stale = @ + 1]
    /\ Return(c)
    /\ UNCHANGED <<cache, now, seen>>

(***************************************************************************)
(* 2. resolve_recursive, for a call, a refresh or a prefetch.              *)
(***************************************************************************)
Resolving(t) == task[t].pc \in {"refresh", "recurse", "prefetch"}

Waiting(t) == Resolving(t) /\ task[t].got = Nothing

\* Mutant: the loop is not bounded.
MayReceive_forever(t) == Waiting(t)

MayReceive(t) == Waiting(t) /\ task[t].n < MaxIterations

\* A referral, or an answer to another name: its records are stored and the
\* loop goes on.
ReceiveReferral(t) ==
    /\ MayReceive(t)
    /\ \E recs \in Section : cache' = insert_records(cache, now, recs)
    /\ task' = [task EXCEPT ![t].n = Least(@ + 1, MaxIterations)]
    /\ UNCHANGED <<now, stats, seen>>

\* A CNAME record of the name, whose key has another type: the message is
\* stored, and a nested resolve_recursive goes on with the target.
ReceiveCname(t) ==
    /\ MayReceive(t)
    /\ \E recs \in Section, target \in Key : \E i \in DOMAIN recs :
           /\ recs[i].key \notin {task[t].key, target}
           /\ cache' = insert_records(cache, now, recs)
           /\ task' = [task EXCEPT ![t].n = Least(@ + 1, MaxIterations),
                                   ![t].key = target,
                                   ![t].chain = Append(@, recs[i])]
    /\ UNCHANGED <<now, stats, seen>>

\* The records of a message that answer the question.
Direct(recs, k) ==
    LET direct[n \in 0 .. Len(recs)] ==
            IF n = 0 THEN << >>
            ELSE IF recs[n].key = k THEN Append(direct[n - 1], recs[n]) ELSE direct[n - 1]
    IN  direct[Len(recs)]

\* The message that ends the loop is stored too, before it is validated.
ReceiveFinal(t) ==
    /\ MayReceive(t)
    /\ \E recs \in Section :
           LET direct == Direct(recs, task[t].key)
               answer == IF direct = << >> THEN "nodata" ELSE "answer"
           IN  /\ cache' = insert_records(cache, now, recs)
               /\ \/ task' = [task EXCEPT ![t].got = [kind |-> answer, recs |-> direct]]
                  \/ task' = [task EXCEPT ![t].got = [kind |-> "nxdomain", recs |-> << >>]]
    /\ UNCHANGED <<now, stats, seen>>

\* The task validates an answer or a denial: it may wait for a DNSKEY set, by a call
\* of resolve that is one of another client here, and that the timeout of a refresh
\* cancels with it.
Validates(t) == Resolving(t) /\ task[t].got # Nothing

\* resolve_dnssec: validation looks up DS and RRSIG records in the cache.
ValidateLookup(t) ==
    /\ Validates(t)
    /\ task[t].got.kind = "answer"
    /\ cache.hits + cache.misses < MaxLookups
    /\ \E k \in Key : cache' = lookup(cache, now, k)
    /\ UNCHANGED <<now, stats, task, seen>>

\* Mutant: a prefetch goes on as a call does.
AfterOk_prefetch == [refresh |-> "refreshed", recurse |-> "count", prefetch |-> "count"]

AfterOk == [refresh |-> "refreshed", recurse |-> "count", prefetch |-> "idle"]
AfterErr == [refresh |-> "unrefreshed", recurse |-> "count", prefetch |-> "idle"]

\* The result of a resolution: got keeps the kind and the records returned.
Finish(t, next, kind, recs) ==
    task' = [task EXCEPT ![t] =
               IF next = "idle" THEN Idle
               ELSE [@ EXCEPT !.pc = next, !.n = 0, !.chain = << >>, !.got = [kind |-> kind, recs |-> recs]]]

Contents(recs) == {<<recs[i].key, recs[i].rdata>> : i \in DOMAIN recs}

\* Ok: the CNAMEs followed and the records of a validated answer, or none.
ResolveOk(t) ==
    /\ Resolving(t)
    /\ task[t].got.kind \in {"answer", "nodata"}
    /\ Finish(t, AfterOk[task[t].pc], "ok", task[t].chain \o task[t].got.recs)
    /\ seen' = [seen EXCEPT !.rejected = @ \ Contents(task[t].got.recs)]
    /\ UNCHANGED <<cache, now, stats>>

\* Err(NxDomain)
ResolveNxDomain(t) ==
    /\ Resolving(t)
    /\ task[t].got.kind = "nxdomain"
    /\ Finish(t, AfterErr[task[t].pc], "nxdomain", << >>)
    /\ UNCHANGED <<cache, now, stats, seen>>

\* Err: DNSSEC validation rejects the answer.
ResolveBogus(t) ==
    /\ Resolving(t)
    /\ task[t].got.kind = "answer"
    /\ seen' = [seen EXCEPT !.rejected = @ \cup Contents(task[t].got.recs)]
    /\ Finish(t, AfterErr[task[t].pc], "error", << >>)
    /\ UNCHANGED <<cache, now, stats>>

\* Err: no server answers, the iterations are exhausted, or (for a refresh, at
\* any point of it) resolve_recursive_stale times out.
ResolveFail(t) ==
    /\ Resolving(t)
    /\ Waiting(t) \/ At(t, "refresh")
    /\ Finish(t, AfterErr[task[t].pc], "error", << >>)
    /\ UNCHANGED <<cache, now, stats, seen>>

(***************************************************************************)
(* 3. Statistics, and the second insertion of the records.                 *)
(***************************************************************************)
Count(c) ==
    /\ At(c, "count")
    /\ stats' = [stats EXCEPT !.total_queries = @ + 1]
    /\ Become(c, IF task[c].got.kind = "ok" THEN "store" ELSE "fail")
    /\ UNCHANGED <<cache, now, seen>>

StoreResult(c) ==
    /\ At(c, "store")
    /\ cache' = insert_records(cache, now, task[c].got.recs)
    /\ Return(c)
    /\ UNCHANGED <<now, stats, seen>>

CountFailure(c) ==
    /\ At(c, "fail")
    /\ stats' = [stats EXCEPT !.failed_queries = @ + 1]
    /\ Return(c)
    /\ UNCHANGED <<cache, now, seen>>

(***************************************************************************)
(* A timeout drops the future of a call at one of its awaits.              *)
(***************************************************************************)
Cancel(c) ==
    /\ c \in Warmer
    /\ ~ At(c, "idle")
    /\ seen' = CASE At(c, "missed") -> [seen EXCEPT !.early = @ + 1]
              [] task[c].pc \in {"store", "fail"} -> seen
              [] OTHER -> [seen EXCEPT !.late = @ + 1]
    /\ Return(c)
    /\ UNCHANGED <<cache, now, stats>>

\* Dropped after the lookup, while it waits for the mutex of the statistics.
CancelHit(c, k) ==
    /\ c \in Warmer
    /\ Ask(c, k)
    /\ found(cache, now, k) # {}
    /\ seen' = [Asked EXCEPT !.early = @ + 1]
    /\ UNCHANGED <<stats, task>>

(***************************************************************************)
(* The other users of the cache, and time.                                 *)
(***************************************************************************)
\* The stale cleaner, every 5 minutes.
PurgeTask ==
    /\ cache' = purge_expired(cache, now)
    /\ UNCHANGED <<now, stats, task, seen>>

\* POST /api/cache/flush
flush_cache ==
    /\ cache' = clear(cache)
    /\ UNCHANGED <<now, stats, task, seen>>

Tick ==
    /\ now < MaxTime
    /\ now' = now + 1
    /\ UNCHANGED <<cache, stats, task, seen>>

\* Every step of a resolution but the lookups of validation, which come before
\* one of these.
Resolve(t) ==
    \/ ReceiveReferral(t)
    \/ ReceiveCname(t)
    \/ ReceiveFinal(t)
    \/ ResolveOk(t)
    \/ ResolveNxDomain(t)
    \/ ResolveBogus(t)
    \/ ResolveFail(t)

\* A call in progress.
Proceed(c) ==
    \/ CountMiss(c)
    \/ CheckStale(c)
    \/ Resolve(c)
    \/ StoreRefreshed(c)
    \/ ServeStale(c)
    \/ Count(c)
    \/ StoreResult(c)
    \/ CountFailure(c)

Next ==
    \/ \E c \in Client, k \in Key : Hit(c, k)
    \/ \E c \in Client, k \in Key, p \in Prefetcher : HitAndPrefetch(c, k, p)
    \/ \E c \in Client, k \in Key : Miss(c, k)
    \/ \E c \in Client, k \in Key : CancelHit(c, k)
    \/ \E c \in Client : Proceed(c)
    \/ \E c \in Client : Cancel(c)
    \/ \E p \in Prefetcher : Resolve(p)
    \/ \E t \in Task : ValidateLookup(t)
    \/ PurgeTask
    \/ flush_cache
    \/ Tick

Spec == Init /\ [][Next]_vars

\* A validation that no timeout ends.  The DNSKEY set it awaits is resolved by a call
\* of resolve with a depth of its own, which nothing bounds: a zone that denies its
\* DNSKEY set in signed messages makes each such call begin another.  A refresh runs
\* inside the timeout of resolve_recursive_stale.
Unbounded(t) == Validates(t) /\ ~ At(t, "refresh")

\* The scheduler runs every task that can run, and every wait for a server has a
\* timeout; that a validation ends is not assumed, except in a refresh.
Fairness ==
    /\ \A c \in Client : WF_vars(Proceed(c) /\ ~ Unbounded(c))
    /\ \A p \in Prefetcher : WF_vars(Resolve(p) /\ ~ Unbounded(p))

FairSpec == Spec /\ Fairness

-----------------------------------------------------------------------------
(***************************************************************************)
(* Properties.                                                             *)
(***************************************************************************)
ClientPc == {"idle", "missed", "check", "refresh", "recurse", "refreshed",
             "unrefreshed", "count", "store", "fail"}

\* The shared cache has its declared shape and every task is at one of the
\* await points of its function: only a refresh holds stale records.
TypeOK ==
    /\ CacheTypeOK
    /\ \A c \in Client : task[c].pc \in ClientPc
    /\ \A p \in Prefetcher : task[p].pc \in {"idle", "prefetch"}
    /\ \A t \in Task :
           /\ task[t].n \in 0 .. MaxIterations
           /\ task[t].stale # {} => task[t].pc \in {"refresh", "refreshed", "unrefreshed"}

In(pcs) == Cardinality({c \in Client : task[c].pc \in pcs})

\* Statistics add up at every instant, whatever the interleaving and whichever
\* calls a timeout cancels: a call that looked up the cache is a hit or a miss,
\* a miss is counted as a query, as served stale, or is one of the refreshed,
\* cancelled or running calls, and no more queries fail than were resolved.
StatsConservation ==
    /\ seen.asked = stats.cache_hits + stats.cache_misses + In({"missed"}) + seen.early
    /\ stats.cache_misses =
           (stats.total_queries - stats.cache_hits) + stats.served_stale
           + seen.refreshed + seen.late
           + In({"check", "refresh", "recurse", "refreshed", "unrefreshed", "count"})
    /\ stats.failed_queries + In({"fail"}) <= stats.total_queries - stats.cache_hits

\* The cache's own invariants survive its concurrent users: each of them does
\* its whole batch of insertions under the mutex.
SharedCacheSound == CacheBounds /\ StaleIsExpired

\* The time a record of the main store came in.
Inserted(e) == e.exp - e.ttl * Sec

\* What a stale answer may hide.  A call reads the stale records of its question under
\* one lock, and answers with them after a refresh of seconds without a second look at
\* the main store, which other calls fill meanwhile.  All it can hide is news: the
\* records it holds have expired, and each record of the question in the main store
\* came in after the call began and outlasts them.
StaleHidesOnlyNews ==
    \A c \in Client : \A e \in task[c].stale :
        /\ is_expired(e, now)
        /\ \A f \in Records(cache.entries, task[c].asked) :
               Inserted(f) >= task[c].start /\ e.exp < f.exp

\* A call of resolve_with_ad returns, and a prefetch ends, unless it stays in the
\* validation of its last message for ever: the loop of resolve_recursive is bounded, every
\* wait for a server has a timeout, and a refresh returns even if its validation does
\* not end.
CallsReturn ==
    \A t \in Task : (~ At(t, "idle") ~> At(t, "idle")) \/ <>[]Unbounded(t)

(***************************************************************************)
(* What the documentation says.                                            *)
(***************************************************************************)
\* recursive.rs:596 says of the prefetch spawned by a hit "This warms the cache
\* before the entry fully expires": once the answer to a prefetch has arrived,
\* the cache holds its records for the TTL they came with.
PrefetchWarms ==
    [][\A p \in Prefetcher :
          (task[p].got = Nothing /\ task'[p].got.kind = "answer") =>
              \A i \in DOMAIN task'[p].got.recs :
                  LET r == task'[p].got.recs[i]
                  IN  \E e \in Records(cache'.entries, r.key) :
                          e.rdata = r.rdata /\ e.exp >= CacheEntry(r, now).exp]_vars

\* README.md:160 says that enforcement "rejects bogus responses with SERVFAIL":
\* no lookup answers with a record that validation has rejected.
RejectedNotServed ==
    \A k \in Key : \A a \in found(cache, now, k) : <<k, a.rdata>> \notin seen.rejected
=============================================================================
