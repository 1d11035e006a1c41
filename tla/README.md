# FastDNS in TLA+

A model of the FastDNS recursive resolver: what its record cache, its
resolution front end, its iterative descent, its race of servers, its DNSSEC
validation, its UDP and TCP servers and its blocklist promise.  TLC checks it on
small instances; TLAPS proves every safety property of every component for every
size.  Source paths are relative to the repository; the lines of every definition
are in `PROJECT.json` under `map`.

## The system

FastDNS is one process of tokio tasks around a shared `RecursiveResolver`.

| part | source | what it does | modelled by |
|---|---|---|---|
| record cache, stale store | `src/resolver/cache.rs` | LRU of record sets with expiry; a second LRU of expired ones for serve-stale | `LruCache`, `DnsCache`, `DnsCacheSpec` |
| front end | `src/resolver/recursive.rs` (`resolve_with_ad`) | cache, prefetch, serve-stale, resolution, statistics | `Resolver` |
| iterative resolution | `src/resolver/recursive.rs` (`resolve_recursive`), `root_hints.rs` | descent from the root, minimization, referrals, CNAMEs, delegation and NS caches | `Iteration` |
| racing of servers, truncation cache, TCP pool | `src/resolver/recursive.rs` | one query to several servers, the first message wins; TCP when truncated | `Exchange`, `ServerRace` |
| DNSSEC | `src/dnssec/`, `src/resolver/recursive.rs` | signatures, keys, DS records, chain of trust, AD | `Validation`; its outcome alone in `Resolver` |
| UDP and TCP servers | `src/server/` | admission by semaphore, decoding, reply, truncation | `Server` |
| lifecycle | `src/main.rs` | start, signals, grace period, Windows service | `Server` |
| blocklist | `src/blocklist.rs` | lists, load, refresh, custom records, decision | `Blocklist` |
| REST API | `src/api.rs` | statistics, flush | the flush, in `Resolver` |
| message codec | `src/dns/` | bytes to messages and back | only `name_prefix` and label counts, in `Iteration` and `Validation` |
| health, RTT persistence | `src/resolver/recursive.rs` | background probes, a file of RTTs | no |
| DoH, DoT, TLS | `src/transport/`, `src/dot.rs`, `src/tls.rs` | other transports | no |
| configuration, system DNS | `src/config.rs`, `src/system_dns.rs` | read once; external commands | no |

A query enters through a server task, which calls `resolve_with_ad`.  That
looks in the cache, answers a hit (and spawns a prefetch when little TTL is
left), refreshes stale records, or calls `resolve_recursive`, which stores every
message it receives in the cache, and delegations and server addresses in two
caches of its own.  All of these are behind `Arc<Mutex<..>>`: a task can be
overtaken wherever it takes a lock or waits for the network, and a timeout can
drop it there.

## Modules

**`LruCache`** (external, the `lru` crate).  A store maps each resident key to
its value and a rank; a higher rank was used more recently.  `Put` evicts the
lowest rank of a full store.

**`DnsCache`**.  The methods of `DnsCache` as operators on the state
`[entries, stale, hits, misses]`.  A `Vec<CacheEntry>` is a set of records
`[rdata, ttl, exp, pos]` in which `pos` is the index.  Time is in ticks, `Sec` of
them to a second, so that `ttl_remaining`'s whole seconds and the last, partial
second of a record are told apart.  Name, type and class are one key.

**`DnsCacheSpec`**.  The cache as a state machine, one action per method: each is
called under the mutex, so it is one step.  `clear` is an action as well.

**`Resolver`**.  Clients call `resolve_with_ad`; each task has a program counter
that stands where the function takes a lock or waits:

| pc | stands before | lines |
|---|---|---|
| `missed` | counting the miss | 618-621 |
| `check` | reading stale records | 625-628 |
| `refresh`, `recurse`, `prefetch` | a message, or the end of validation | 632, 654, 603 |
| `refreshed`, `unrefreshed` | storing the refresh, counting the stale answer | 636-649 |
| `count` | counting the query | 661-675 |
| `store`, `fail` | storing the result, counting the failure | 677-693 |

A hit is one step because it holds the cache's mutex while it takes that of the
statistics.  `resolve_recursive` is a loop of messages here: each stores its
records at once (`cache_response`), a CNAME goes on with its target, the last
one is validated only afterwards.  Validation's outcome is open, its cache
lookups are steps of their own, and its call of `resolve` for a key set is a call
by another client, for which it may wait without end (`Unbounded`).  A call keeps
its question and the time it began (`asked`, `start`) while it may come to serve
stale records; `seen` is a history variable: calls made, refreshed and cancelled,
and records that validation rejected.

**`Iteration`**.  Callers resolve names over a fixed tree of zones.  A name is the
sequence of its labels from the root.  The stack of a caller holds the nested
calls of `resolve_recursive`, for CNAMEs and for names of servers without glue.
An iteration is one step from the arrival of the message: one action for each
way the loop body ends.  Any server of the list may be the one whose message
wins.  Both caches may forget any entry at any time, which covers the two-hour
expiry and LRU eviction.  A referral comes with glue for all of its servers or
with one server name and none; DNSSEC is off.

**`Exchange`**.  What a call of `query_servers_concurrent` promises: it returns,
with nothing or with one message, which a server it asked sent in answer to its
own query.  This is the choice that `Iteration` makes (`Message`).

**`ServerRace`**.  How the code does it: one task per server and call, with a
program counter that stands at each lock and network wait (listed in the module).
The tasks are detached and outlive their call.  `truncLock` and `poolLock` name the
task that holds the mutex of the truncation cache or of the TCP pool *across* a
wait; a critical section without a wait is one step.  A connection has one owner
in Rust, so it is a value here: the sequence of the queries on it whose
answers are unread.  An answer over TCP goes to whoever reads next, since only
UDP answers are compared by id.  `retain` is a suffix of the sequence of
connections: they are pushed with the time of their release, so that the expired
ones come first (a conjunct of `TypeOK`, proved).  The RTT averages are left out:
they order the list of servers, but all of them are asked at once.

**`Validation`**.  A validating call from the arrival of the answer to the AD bit:
the CNAMEs it follows; the signatures and keys it collects from the message, from
the RD=1 query and from a resolution of the DNSKEY set; `validate_dnssec`; for an
unsigned answer the walk over cached DS records; negative answers, and the further
resolutions of the DNSKEY set that its own denial nests (`Denied`, `Unwind`); and
the timeout of a refresh, which cuts all of this off.  The zone ends a path of
zones with one label each.  A key is its version and a signature the version of
its key and its inception, so verification is equality: bytes and key tags are
left out, but not that an algorithm may be unknown (`Supported`), nor that
`build_signed_data` cannot rebuild what was signed when an answer comes from a
wildcard or its type has no encoding (`Form`).  Times are counted modulo `Word` as
in `is_rrsig_time_valid`, with our clock and the zone's apart.  The zone rolls its
key over between any two awaits.  The shared cache is not a variable: others fill
it and entries expire, so that a lookup finds a fresh entry, a stale one or none
(`Cached`).  Records from the cache come back unparsed, as in `cache.rs:114`.
`validate_dnssec_chain` is an operator; its caller logs the verdict and returns the
answer whatever it is (`Chain`).

**`Server`**.  Every datagram and connection is a task that takes a permit, reads,
resolves, replies and ends, on every path of `handle_query` and
`handle_tcp_connection`; beside them run the start, the signal handler, the
cancel flag, the grace period and the exit of `main.rs`, as a program and as a
Windows service.  A resolution is an await with any outcome that takes the ticks
it was given (`work`); a message is its size against `MAX_UDP_PAYLOAD` and the
encoder's buffer.

**`Blocklist`**.  The load, which `main.rs` spawns once, and the refresh, which is
public but has no caller, as two tasks cut at their fetches, over sources that
change (`Publish`) and fail; a cycle of the refresh begins at any time or never.
`is_blocked` and `get_custom` are operators on the state between any two steps.  A name is the
sequence of its labels, a line of a list its form and the name in it, an entry of
`custom_dns` a name, a separator and the parts of a value between colons.

`Resolver`, `Iteration` and `Validation` are three views of the same function: what
it does to the record cache, to the descent, and to signatures and keys.
`Resolver` extends `DnsCacheSpec`: its cache is the cache of that module, its steps
use the same operators, and the invariants of its shared cache are the ones stated
there (`Cache` in front of a name tells the specification of the cache alone from
that of the resolver).  `Server` takes from them that a resolution ends, which
*ResolutionEnds* shows without DNSSEC; with it, see *CallsReturn* of `Validation`.

`MCDnsCache`, `MCResolver`, `MCIteration`, `MCValidation` and `MCBlocklist` hold
values of constants; the modules whose names end in `Proofs`, and
`IterationLimits`, the proofs.  `ResolverProofs` extends `DnsCacheProofs` for the
facts about the cache's methods, and `IterationLimits` extends `IterationProofs`.

## Runs

| run | shows |
|---|---|
| `cache` | bounds, expiry, eviction order and accounting of both stores |
| `resolver` | statistics add up; the shared cache stays sound; a stale answer hides only news; every call returns that does not stay in validation, across a CNAME, a cancellation, purges and flushes |
| `server_race` | the race implements `Exchange`, safety and liveness; the TCP pool keeps its bound and only clean connections |
| `iteration` | two callers over shared caches: answers are true, nothing fails and nobody refuses in a healthy name space, delegations are sound |
| `iteration_hard` | answers stay true with lame and silent servers, every step spends budget, and every resolution ends, cycles included |
| `dnssec` | AD only where all signatures verified, no rejection without a cause, every call returns unless the DNSKEY set is denied for ever |
| `server` | permits come back, datagrams are settled, the grace period is enough for short resolutions, the process ends |
| `blocklist` | decisions respect whitelist, parents and records at any moment; a load blocks, and a refresh that begins leaves what the lists say and blocks again |

### Properties

- *CacheBounds*: capacities, records per key, no duplicates, no empty keys.
- *StaleIsExpired*, *ServedWithinLifetime*: the split by expiry.  An answer's TTL
  never reaches past its record's expiry.
- *RecordsAccountedFor*: each step that loses a record of the main store has one of
  the listed reasons (eviction of the least recently used key among them).
- *StaleRecordsKept*: a stale record that can still be served gives way only to
  records of its key that expired later, to the eviction of the least recently used
  key, or to a flush.  Serve-stale never falls back to older data than it had.
- *StatsConservation*: `total_queries`, hits, misses, failures and stale answers
  against the calls made.  A refreshed or stale answer is not in
  `total_queries`: the equation says exactly which misses are.
- *SharedCacheSound*: the cache's invariants, over the locks of concurrent calls.
- *StaleHidesOnlyNews*: the copy of stale records that a call holds during its
  refresh is expired, and whatever the main store has for the same question came in
  after the call began and expires later.  The code does not look again before it
  serves the copy, and TLC reaches states in which it hides fresh records of another
  call: the property says that these are all it can hide.
- *AnswersTrue*, *DelegationSound*: against the name space's own answer (`Truth`).
- *HealthyResolves*: where all servers answer, no resolution fails of a name that the
  limits are enough for (`Provisioned`, under The limits below).
- *NoServerRefuses*: a server is asked only for names it serves; here the name is
  the one that is sent, which minimization has shortened.
- *BudgetSpent*: each step of a resolution leaves one of its calls with less to do
  and does not touch the calls outside it, the safety core of *ResolutionEnds*.
- *ConnectionsClean*, *PoolBounds*: a connection in the pool has no answer left to
  read, and there are at most `TCP_POOL_PER_SERVER` of a server.
- *RaceReturnsAnAnswer*: `ServerRace` implements `Exchange`; the refinement mapping
  is the identity on the three variables they share.
- *AdSound*: what the AD bit of an answer stands for.  Every signature that came
  with the answer verified, with the key set that made it and not one from before or
  after a rollover, over the answer's own records, within its window.  It does not
  say that the answer's records were signed: see below.
- *RejectedForCause*: the list of all reasons for which the code rejects.  Every
  one of them occurs in the run.
- *PermitsConserved*: free permits and tasks at work are always the capacity.
- *GraceSuffices*: an orderly exit loses no datagram whose resolution is shorter
  than the grace period.
- *DatagramsSettled*, *ShutdownCompletes*: liveness of a datagram and of the stop.
- *WhitelistHolds*, *BlockingInherited*: the order of the decision, for a name and
  everything above it.
- *CustomDecides*: `is_blocked` and `get_custom` take the same record for a name, the
  closest at or above it, and part only at the value "none".
- *WithdrawnUnblocked*: after a refresh without a load beside it, what is blocked is
  in a list published since it began, or configured.
- *StatsAgree*: the count of a list that is on is the size of the set whenever neither
  task runs.
- *BlockedAgain*: a name that a dependable source keeps listing is blocked again and
  again, after the load and after each clear of a refresh.
- *ResolutionEnds*: liveness of a resolution without DNSSEC.
- *CallsReturn*, of `Resolver`: a task comes to its end or stays in validation for
  ever.  Of `Validation`: a call with stale records to fall back on returns; any
  other returns unless the zone's servers deny the DNSKEY set again and again.

### Disagreements with comments and documentation

Each of these runs ends in a counterexample; `PROJECT.json` quotes the line.

| run | the text says | the code does |
|---|---|---|
| `prefetch_warms` | the prefetch warms the cache | its answer is dropped as a duplicate |
| `rejected_not_served` | bogus answers are rejected | they are in the cache already |
| `tcp_never_blocks_udp` | TCP fallback for one server never blocks the others' UDP | the mutex that every task takes first is held during TCP from the truncation cache |
| `empty_answers_true` | the full name is tried next | NODATA of the shortened name is the answer |

Read off the code, and most of it visible in the model, but without a run of its
own:

- `cache.rs:273` says that purging happens "on every insert"; only the task that
  runs every five minutes calls it (`PurgeTask`).
- `cache.rs:164-167` moves what expired to the stale store "for serve-stale", but a
  later partial expiry of the key overwrites what is there (`MoveToStale`):
  records of one answer with different TTLs are not served together.
  *StaleRecordsKept* shows that what remains is what expired last.
- `recursive.rs:623-624` serves stale data "instead of SERVFAIL"; it is also served
  instead of fresh records that another call stored during the refresh
  (*StaleHidesOnlyNews*).
- `recursive.rs:579` says that AD means "fully authenticated via DNSSEC".  A
  signature over the DNSKEY set alone suffices, that of a CNAME is not looked at
  (`FollowCname`), a denial needs a key set and any NSEC record
  (`validate_negative_dnssec`), and the chain of trust is not consulted (`Chain`).
- `recursive.rs:2215` resolves the DNSKEY set to validate a denial, at depth 0 and
  without a timeout; the denial of that set is validated the same way.  A zone that
  signs its denials and denies its keys keeps a call there (`Denied`).
- `recursive.rs:595` says a prefetch needs less than 10 % of the TTL; line 597
  tests for 120 s only (`NeedsPrefetch`).
- `README.md:49` says stale records are served "while refreshing in background";
  the call waits for the refresh (`ServeStale`), and serves them instead of
  NXDOMAIN too.
- `README.md:26` says one label at a time is revealed; after any cached
  delegation it is the full name (`Enter`).
- `README.md:159` says that the policy `ad` "serves all responses"; the resolver
  does not read the policy, and an answer found bogus is always an error.
- A DNSKEY set from the cache is unparsed (`cache.rs:114`) and verifies nothing:
  the answer is rejected until the set expires (`Unparsed` in *RejectedForCause*).
- `dnssec/mod.rs:1233` says "use serial number arithmetic for wrap-safe comparison";
  line 1236 compares the clock plus `FUDGE` without it, so that just before the
  wrap an inception ahead of our clock is refused (`FudgeWraps` in
  *RejectedForCause*).
- The signatures of the authority section are checked over the answer's
  records, and so reject it (`"auth"` in *RejectedForCause*).  Rejected as well are
  answers made from a wildcard or of a type that cannot be encoded (`Form`), and all
  answers of a zone whose algorithm is not known (`Supported`).
- `validate_dnssec_chain` passes an empty owner to `verify_ds`, so that no zone
  below the root with a DS record passes (`README.md:32`: "full chain-of-trust"), and
  a lost DS query makes a zone look insecure (line 1893); its outcome is only logged.
- `blocklist.rs:262` says a refresh preserves manual entries; it clears them
  (`refresh`).  The lists are said to be refreshed periodically
  (`blocklist.rs:244-245`); nothing calls `refresh`.  `get_custom` is documented to
  match exactly and falls back on parents (line 369).  A parent's "none" allows a name
  by the comments of `is_blocked`, and leaves it to the lists (*CustomDecides*).  A
  list that is off counts 0 names beside those of the configuration (*StatsAgree*).
  `parse_custom_dns_entry` lists `domain value`, but splits a value with colons after
  a space at its colon.
- `tcp.rs:160` says the "full response always fits"; an answer above the
  encoder's buffer gets no reply, over UDP and TCP (`"unencodable"`).
- `load_rtt_cache` loads "entries less than 1 hour old" (line 236); the test at line
  241 compares the clock itself with an hour, and so loads nothing.

### Bounds

- `cache`: three keys for two places, one place in the stale store, three rdata
  for two places of a key, TTLs 0 and 2 against a clamp of 1, half-second
  ticks.  Every limit is exceeded, the order of eviction matters, and records of
  a key expire apart.  `MaxLookups` bounds the hit and miss counters: two lookups
  let a second key into the full stale store, and a second expiry of a key overwrite
  its first.  `MaxTime` bounds the clock; it is twice the longest life, so that a
  stale record ages out.
- `resolver`: two clients with a call each, one of them cancellable (`Warmer`), one
  prefetch slot, and a question and the target of its CNAME in a cache of one
  place.  Two calls on a key are enough for one to overtake the other between
  any two locks, and for one to store fresh records while the other's refresh
  fails.  The clock lets a record become stale and then too old.  A hit that needs
  a prefetch waits for the slot: `Prefetcher` bounds the prefetches in flight, which
  the code does not.
- `iteration`, `iteration_hard`: the tree has every kind of delegation the code
  tells apart: glue, no glue, and no glue with the name of the server in the zone
  itself; a host with a name below it, an empty non-terminal, an alias, a cycle.
  `MAX_ITERATIONS` is 4, which is the longest healthy descent here.
  `MAX_CNAME_DEPTH` is 1 or 2, and the cycle of aliases exceeds it.  `Resolvable`
  has the names that these limits are enough for: three of them need the one
  nested call there is (`Nesting`); the cycle, and the name whose only server is
  below itself, are not among them.
- `server_race`: two calls, two servers, one of which may truncate (`Truncating`),
  and a pool of one connection per server.  The other server's tasks meet the
  first one's only at the mutexes.  Two tasks of the truncating server fill the
  pool and find it full, and one tick expires connections and truncation entries.
- `dnssec`: one call over a cache that may hold anything, in the root, below it, and
  in a zone of three labels, whose ancestors have labels enough for the walk to look
  at.  Of its two names one is made from a wildcard; one CNAME may be followed, the
  next exceeds `MAX_CNAME_DEPTH`.  Three versions of the key, the second of an unknown
  algorithm, are two rollovers at any moment of the call.  `Word` is 16; one clock
  starts a tick before the wrap, the other two ticks before it and behind the zone's,
  within `FUDGE`.  Two ticks take a signature out of its window.  Calls share only the
  cache, so that one client is enough.
- `server`: two datagrams and two connections for one permit each, so that one is
  refused; answers that fit a datagram, only a TCP message, and neither;
  resolutions shorter than the grace period and as long.
- `blocklist`: names of up to three labels and one below each, a source that fails
  before one that does not, each with two editions, and six configurations,
  among them records under every separator, "none", an empty name, and the list
  switched off.
- Symmetry: keys, rdata and callers are interchangeable in `cache` and `iteration`,
  which have no liveness property; no other run uses it.
- Deadlock is checked everywhere except in `server`, whose process ends.

### Fairness

All liveness is under weak fairness of the program's own steps.

- `iteration_hard`, `server_race`: each task's steps.  The tokio scheduler polls
  every task that is woken; its mutexes are fair; every wait for the network has a
  timeout (`QUERY_TIMEOUT`), after which the step "no response" is taken.
- `resolver`: the same, except where a task waits for validation (`Unbounded`), whose
  end is not assumed.  In a refresh it is: the timeout of `resolve_recursive_stale`
  ends it.
- `dnssec`: each call's steps, and the timeouts of a refresh of the answer and of the
  DNSKEY set (`Timeout`, `KeysTimeout`).  Servers may answer by `Denied` every time.
- `server`: each request's task, the binding of sockets, the signal handler, the
  branches of `main`, and time.  `select!` starts at a random branch, so that the
  cancel flag is seen while datagrams keep coming.  A resolution is assumed to end:
  *ResolutionEnds* shows it without DNSSEC; with `dnssec_ok` a zone that denies its
  DNSKEY set over and over breaks it, and a datagram that asks for a name of that zone
  then keeps its permit.
- `blocklist`: the start of the load, and the steps of a load and a refresh that have
  begun: a fetch has a timeout of 30 s.  Nothing makes a refresh begin.

Nothing is assumed of clients, of cache eviction, of a server's answers, of
signals, of the editions of a list, and, outside `server`, of time.

## Proofs

All for any constants that satisfy the assumptions of the modules they extend: any
number of clients, callers, servers, requests, keys and sources, any sizes and
limits, any name space.

| module | theorem | states |
|---|---|---|
| `DnsCacheProofs` | `CacheTypeCorrect`, `CacheBounded`, `OnlyExpiredIsStale`, `ServedInTime` | *CacheTypeOK*, *CacheBounds*, *StaleIsExpired*, *ServedWithinLifetime* |
| `DnsCacheProofs` | `NothingLost`, `StaleKept` | the action properties *RecordsAccountedFor*, *StaleRecordsKept* |
| `ResolverProofs` | `TypeCorrect`, `StatsCorrect`, `SharedCacheCorrect`, `StaleHidesCorrect` | *TypeOK*, *StatsConservation*, *SharedCacheSound*, *StaleHidesOnlyNews* |
| `ResolverProofs` | `SharedCacheServes` | *ServedWithinLifetime*, of the cache that all calls share |
| `IterationProofs` | `TypeCorrect`, `AnswersCorrect`, `DelegationsCorrect` | *TypeOK*, *AnswersTrue*, *DelegationSound* |
| `IterationProofs` | `NeverRefused`, `BudgetNeverReturned` | *NoServerRefuses*, and the action property *BudgetSpent* |
| `IterationLimits` | `LimitsSuffice` | *HealthyResolves* |
| `ServerRaceProofs` | `TypeCorrect`, `Clean`, `Bounded` | *TypeOK*, *ConnectionsClean*, *PoolBounds* |
| `ServerRaceProofs` | `RaceRefines` | `Spec` implies `Init` and `[][Next]_vars` of `Exchange` |
| `ValidationProofs` | `TypeCorrect`, `AdCorrect`, `RejectionsCaused` | *TypeOK*, *AdSound*, *RejectedForCause* |
| `ValidationProofs` | `ChainStops` | what `validate_dnssec_chain` returns, for a zone of any depth and whatever is lost |
| `ServerProofs` | `TypeCorrect`, `Conserved`, `GraceEnough` | *TypeOK*, *PermitsConserved*, *GraceSuffices* |
| `BlocklistProofs` | `TypeCorrect`, `Whitelisted`, `Inherited`, `CustomFirst`, `Withdrawn`, `Counted` | *TypeOK*, *WhitelistHolds*, *BlockingInherited*, *CustomDecides*, *WithdrawnUnblocked*, *StatsAgree* |

**The cache.**  The bounds need finiteness of each store and of each key's
records, since cardinality says nothing otherwise.  They also need ranks to be
natural numbers, so that a full store has a least recently used key and an
eviction makes room.  *ServedWithinLifetime* needs every expiry in the main store
to be at most `now + MaxTtl * Sec`, and *StaleIsExpired* every one in the stale
store to be at most `now`, which time preserves.  *StaleRecordsKept* needs more: every
record of a key in the main store expires later than every one of the key in the
stale store (`Older`), which an insertion keeps, since what it stores is live, and a
lookup, since it moves all that expired at once.  `CacheKept` is the conjunction:
`GoodStore` of both stores, the two capacities, `ExpiresBy` of both, and `Older`.  There is
one lemma for each operation of the LRU store and of a key's records, then one
for each method (`InsertInv`, `LookupInv`, `LookupStaleInv`, `PurgeInv`, ...).  The
action properties follow step by step: a `Put` either keeps a key, overwrites its
value, or evicts the one of lowest rank; pushing a record keeps the others of its
key or drops the first of a full one; `lookup` moves what expired before it drops
it.

**The front end.**  `IInv` is the cache's invariant `CacheKept`, of a cache that any task may
call at any lock; what each task holds where it stands (`TaskInv`: where it may
stand, the types of what it received, since that ends up in the cache, and a stale
copy that is expired, since the clock does not go back);
*StatsConservation*, which is inductive once the counters are natural numbers; and
`OnlyNews`.  The latter says of a call that holds a stale copy what
*StaleHidesOnlyNews* says, and of one that is still on its way to the stale store that
every record of its question in the main store came in since it began (`News`): its
lookup left nothing there, and `Older` does the rest at the moment the copy is read.
It is kept because every method of the cache only keeps records of the main store or
adds such as are inserted now (`Descends`, `CallDescends`), and because a step of
the task itself keeps its question, its start and its copy or drops all three
(`Follows`).  A batch of records is
inserted under one lock: `InsertRecordsInv` is an induction along the batch, from
the least position at which the invariant fails.  A step moves one task from one
place to another, so the counts in the equation change by one or not at all
(`Accounted`, `Balances`, from the cardinality of a finite set with an element more
or less).  Assumed: finitely many clients, and messages that are sequences of typed
records.

**The descent.**  That an answer is true depends on what every call on every stack
knows: the servers it asks are those of zones that its name is in (`Serves`); a call
that waits for a CNAME's target waits for the alias of its own name, and one that
waits for the address of a server asked for that of a zone on its way (`Waits`);
what a call returns is what the name space says (`Truthful`).  That in turn needs
both caches to hold true entries (`CachesInv`), whoever filled them.  `Truth`
is about the end of a chain of aliases, which is what every set of names that is
closed under aliases has (`Ends`), and nothing if the chain runs into a cycle.  An
alias and its target end alike, cycles included (`EndsOfAlias`): a closed set with
the one has the other.  Assumed: names are sequences of labels, and the addresses
of the name of a server of a zone are servers of that zone
(`ServerNamesAssumption`); without the latter a name space contradicts itself, and
no resolver could find the truth in it.

Two results need more than `IInv` says.  It relates servers to the full name, and
what they are sent is a shortened one: `NeverRefused` rests on a second invariant
(`AskInvariant`), that every call on every stack asks servers of zones that the
name sent is in, and that a call waiting for a server's address was referred to a
zone above that name.  Names sent only grow (`QnameGrows`), a referral is to a zone
above the name sent (`ReferralAbove`), and a cached delegation, which may be far
below, is only ever used with the full name: `Enter_minimized` shows what happens
otherwise.  `BudgetNeverReturned` compares the stack before and after a step:
`Advances` lists the three shapes of a step (a call goes on, it starts another, the
one that waited goes on), and in each the call that goes on has a smaller `Rank`.
One lemma per action shows both at once (`Moves`).

**The limits.**  In a name space that is deeper than `MAX_ITERATIONS`, or that nests
aliases and names of servers deeper than `MAX_CNAME_DEPTH`, a healthy resolution
does fail, so that *HealthyResolves* is about the others.  `Provisioned` says which:
every server answers and every zone has one; each zone has a `Level` that grows from
a zone to the zones below it, and a name in `Resolvable` is only in zones whose
level, with one iteration more, is below `MAX_ITERATIONS`; `Nesting` bounds the nested
calls of such a name, and the alias and the names of servers that its resolution
needs are resolvable with less.  `LimitsSuffice` shows that this much is
enough, for any interleaving and whatever the caches hold.  The invariant
(`Healthy`) says that each call asks servers of one zone above the name sent
(`AtZone`), and has used at most as many iterations as the level of that zone, and
one more for the step to the full name (`RevealFullName`): a referral leads to a
deeper zone, a cached delegation starts at one without an iteration, and an answer
is an address, an alias, NODATA or NXDOMAIN.  A nested call has at least the nesting
left that its name needs (`Affordable`), so no call is refused as too deep, and the
one for the name of a server returns addresses, so that the call around it goes on
with servers of the zone it was referred to.  It holds of every call of every
caller and of both caches at once (`GoodStack`, `GoodDelegations`, `GoodAddresses`).

**Validation.**  `IInv` says what a call has collected (`Collected`: keys and
signatures that the zone has published by now), that AD comes from a verification
of all of them with the right key at the moment it was made (`Verified`), that a
rejected call had a cause (`Caused`), and where a call with these may stand
(`Placed`).  All of it must survive the rollovers and the time that pass between two
awaits (`WorldMoves`).  The arithmetic of a window that wraps is a lemma of its own:
within half a `Word`, serial comparison agrees with time (`TimeValid`).  `Verdict`
says what each outcome of `validate_dnssec` means.  Assumed: the time of a run, the
validity of a signature and `FUDGE` together are less than half a `Word` (2^31
seconds), and clocks are apart by no more than `FUDGE`.  The chain is a recursive
function of the zone's depth; `ChainStops` needs one unfolding of it, because below
the root the first link already fails or ends, whatever the call for the parent
returns (`ChainLinkIs`; see the empty owner of `verify_ds` above).

**The race.**  That a pooled connection is clean depends on the tasks: one that
exchanges has its own query and nothing else on its connection, one that is
about to give it back has read everything (`TaskOK`).  That in turn needs the pool
to be clean.  The same predicate says that what a task holds answers its own
query, which is all the refinement needs.  The mutexes need that at most one
task connects (`LocksOK`), and that a call has no tasks before it is made
(`Unborn`).  The pool's part (`Orderly`) carries the bound and the order of
releases.

**The server.**  `IInv` adds two invariants to *TypeOK*, *PermitsConserved* and
*GraceSuffices*.  `IdleWork`: while the process is up no datagram is lost, and only
one at work has work.  `WorkInv`: what is left of a resolution is at most its
work, the UDP server has stopped before the grace period begins, and during it
`Grace + left <= grace + work`, so that a resolution outlives the grace period
only if it takes as long.  A step of a request takes, keeps or gives back one
permit of its server (`RequestIsTaskStep`), whatever the request.

**The blocklist.**  `Withdrawn` needs that after a clear without a load beside it
no load will run, and that all that is blocked, fetched or published has been
published since (`Fresh`).  `Counted` is inductive with it: a task that ends counts
the set, and the set changes only while a task runs.  The theorems on decisions are about any state: the
closest parent is a minimum (`MinExists`, from well-foundedness), and a suffix of a
suffix is a suffix, so that a name and its parent find the same record unless a
closer one is between them (`ClosestDecides`).  `CustomFirst` also needs that no
record is empty, which `parse_custom_dns_entry` sees to.  `TypeCorrect` needs a
second invariant (`Sizes`): what is blocked or fetched is finite, since lists are, so
that it can be counted, and a task with data is at one of its sources.

Only model-checked: all liveness (*CallsReturn*, *ResolutionEnds*,
*DatagramsSettled*, *ShutdownCompletes*, *BlockedAgain*) and the fairness part of
*RaceReturnsAnAnswer*, which are outside the prover's reach; of *ResolutionEnds*
the safety part is proved (*BudgetSpent* and the depth in *TypeOK*), and that the
steps are taken is left to TLC.

## Not modelled

- **DNSSEC library path**: `validate_response`, `validate_chain`, `validate_denial`
  and the NSEC and NSEC3 proofs of `dnssec/mod.rs` have no caller in the resolver,
  which accepts a denial with any NSEC record and a key set.  Cryptography and
  canonical form are computations on bytes.
- **Health and RTT persistence**: the averages only order a list of servers that
  are all asked at once, no other part reads the health table, and the loaded
  file is always discarded.  A model would have state that nothing depends on.
- **Message codec**: functions of bytes without state; what steers the
  iteration (label counts, prefixes) is modelled where it is used.
- **DoH, DoT, TLS, configuration, system DNS, logging, service installation**: I/O,
  or run once before anything else; they hold no state that other parts share.
- **REST API**: its other handlers only read, and `reload` does nothing.
- **Blocklist in the server**: no handler calls `is_blocked`, so there is nothing to
  compose.
- In `Iteration`, a referral names one server without glue or has glue for all of
  them.  The code collects several names, uses the glue of some, and resolves the
  names without an address together (lines 1185-1230); that one of several fails is
  not exercised.  An answer to a shortened name has no NS records in its authority
  section (the code would follow them as a referral, lines 1178-1252).  Servers fail
  from time to time and not for good, the name space does not change while it is
  resolved in, and DNSSEC is off; in `Validation`, the zone's depth
  and its being signed do not change.
