---------------------------- MODULE DnsCacheSpec ----------------------------
(***************************************************************************)
(* The cache as a state machine: one action per method of DnsCache, each   *)
(* the whole critical section of the mutex around the cache, and a clock.  *)
(***************************************************************************)
EXTENDS DnsCache

CONSTANTS
    Ttl,          \* the TTLs, in seconds, that received records carry
    MaxTime,      \* bound on the clock, in ticks
    MaxLookups    \* bound on hits + misses

ASSUME DnsCacheSpecAssumption ==
    /\ Ttl \subseteq Nat
    /\ MaxTime \in Nat
    /\ MaxLookups \in Nat

VARIABLES cache, now

cache_vars == <<cache, now>>

ResourceRecord == [key : Key, rdata : RData, ttl : Ttl]

CacheInit == cache = NewCache /\ now = 0

Insert(r) == cache' = insert(cache, now, r) /\ UNCHANGED now

Lookup(k) ==
    /\ cache.hits + cache.misses < MaxLookups
    /\ cache' = lookup(cache, now, k)
    /\ UNCHANGED now

LookupStale(k) == cache' = lookup_stale(cache, now, k) /\ UNCHANGED now

PurgeExpired == cache' = purge_expired(cache, now) /\ UNCHANGED now

Clear == cache' = clear(cache) /\ UNCHANGED now

CacheTick == now < MaxTime /\ now' = now + 1 /\ UNCHANGED cache

CacheNext ==
    \/ \E r \in ResourceRecord : Insert(r)
    \/ \E k \in Key : Lookup(k)
    \/ \E k \in Key : LookupStale(k)
    \/ PurgeExpired
    \/ Clear
    \/ CacheTick

CacheSpec == CacheInit /\ [][CacheNext]_cache_vars

-----------------------------------------------------------------------------
\* The cache has its declared shape, and no record is held with a TTL above the
\* 24-hour clamp of insert, or with TTL 0.
CacheTypeOK == IsCache(cache) /\ now \in Nat

(***************************************************************************)
(* Safety.                                                                 *)
(***************************************************************************)
\* A key's records are never empty, at most MaxPerKey, and pairwise different.
WellFormed(store) ==
    \A k \in DOMAIN store :
        /\ store[k].val # {}
        /\ Cardinality(store[k].val) <= MaxPerKey
        /\ \A e, f \in store[k].val : e.rdata = f.rdata => e = f

\* Memory is bounded: whatever the interleaving of insertions, lookups and
\* purges, the stores hold at most max_entries (but at least one) and
\* STALE_MAX_ENTRIES keys, no key holds more than
\* MAX_RECORDS_PER_KEY records or two records with the same rdata, and no key
\* stays resident without records (lookup pops it when it has drained it).
CacheBounds ==
    /\ Cardinality(DOMAIN cache.entries) <= (IF CacheSize = 0 THEN 1 ELSE CacheSize)
    /\ Cardinality(DOMAIN cache.stale) <= StaleMaxEntries
    /\ WellFormed(cache.entries)
    /\ WellFormed(cache.stale)

\* lookup moves a record to the stale store only after its expiry, so that
\* serve-stale never answers, with TTL 0, a record that is still live there.
StaleIsExpired ==
    \A k \in DOMAIN cache.stale :
        \A e \in cache.stale[k].val : is_expired(e, now)

\* What lookup would answer now: only records before their expiry, whose
\* remaining TTL, counted from now, neither passes the expiry nor the clamp.
\* A client that caches the answer for that long never holds it too long.
ServedWithinLifetime ==
    \A k \in Key : \A a \in found(cache, now, k) :
        \E e \in cache.entries[k].val :
            /\ e.rdata = a.rdata
            /\ now < e.exp
            /\ now + a.ttl * Sec <= e.exp
            /\ e.exp <= now + MaxTtl * Sec

(***************************************************************************)
(* Action properties.                                                      *)
(***************************************************************************)
Holds(v, e) == \E f \in v : f.rdata = e.rdata /\ f.exp = e.exp

\* k, the least recently used key of the full store l, makes room for a key
\* that is new in m.
Evicted(l, m, cap, k) ==
    /\ Cardinality(DOMAIN l) = cap
    /\ \A j \in DOMAIN l : l[k].rank <= l[j].rank
    /\ DOMAIN m \ DOMAIN l # {}

\* e, the first of the records v of a full key, makes room for one that is new
\* in w.
Displaced(v, w, e) ==
    /\ Cardinality(v) = MaxPerKey
    /\ \A f \in v : e.pos <= f.pos
    /\ \E f \in w : ~ Holds(v, f)

\* No step loses a record of the main store: it stays, or it has expired and a
\* lookup moves it to the stale store, or its key is the least recently used one
\* of a full cache and another key enters, or it is the first record of a full
\* key and another record enters, or the cache is flushed.
RecordsAccountedFor ==
    [][\A k \in DOMAIN cache.entries : \A e \in cache.entries[k].val :
          \/ Holds(Records(cache'.entries, k), e)
          \/ now >= e.exp /\ Holds(Records(cache'.stale, k), e)
          \/ Evicted(cache.entries, cache'.entries, EntriesCap, k)
          \/ Displaced(cache.entries[k].val, Records(cache'.entries, k), e)
          \/ cache' = NewCache]_cache_vars

\* A record that serve-stale can still answer leaves the stale store only when a
\* lookup overwrites the records of its key, and then all that take their place
\* have expired, and later than it did, though the two sets come from different
\* lookups; or when its key is the least recently used one of a full store that
\* another key enters; or by a flush.  A purge never takes it, nor does serving it.
StaleRecordsKept ==
    [][\A k \in DOMAIN cache.stale : \A e \in cache.stale[k].val :
          usable(e, now) =>
              \/ Holds(Records(cache'.stale, k), e)
              \/ /\ k \in DOMAIN cache'.stale
                 /\ \A f \in cache'.stale[k].val : e.exp < f.exp /\ f.exp <= now
              \/ Evicted(cache.stale, cache'.stale, StaleCap, k)
              \/ cache' = NewCache]_cache_vars
=============================================================================
