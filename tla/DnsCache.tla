------------------------------ MODULE DnsCache ------------------------------
(***************************************************************************)
(* resolver/cache.rs: the record cache and its serve-stale store, as       *)
(* operators on a cache value                                              *)
(*      [entries, stale, hits, misses]                                     *)
(* where both stores are LruCaches from keys (name, type, class) to the    *)
(* records held for the key.                                               *)
(*                                                                         *)
(* A Vec<CacheEntry> is a set of [rdata, ttl, exp, pos]: ttl is the        *)
(* (clamped) TTL the record was inserted with, exp its expires_at in       *)
(* ticks, and pos its place in the Vec.  Sec ticks make a second.          *)
(***************************************************************************)
EXTENDS LruCache, Sequences

CONSTANTS
    Key,              \* (name, type, class) triples
    RData,            \* record contents
    CacheSize,        \* the max of with_max_entries
    StaleMinEntries,  \* 1000, the lower clamp of the stale store's capacity
    StaleMaxEntries,  \* STALE_MAX_ENTRIES
    MaxPerKey,        \* MAX_RECORDS_PER_KEY
    MaxTtl,           \* 86400, the TTL clamp, in seconds
    StaleMaxAge,      \* STALE_MAX_AGE, in ticks
    Sec               \* ticks per second

ASSUME DnsCacheAssumption ==
    /\ CacheSize \in Nat
    /\ StaleMinEntries \in Nat \ {0}
    /\ StaleMaxEntries \in Nat
    /\ StaleMinEntries <= StaleMaxEntries
    /\ MaxPerKey \in Nat \ {0}
    /\ MaxTtl \in Nat \ {0}
    /\ StaleMaxAge \in Nat
    /\ Sec \in Nat \ {0}

Least(a, b) == IF a <= b THEN a ELSE b
Greatest(a, b) == IF a >= b THEN a ELSE b

(***************************************************************************)
(* Capacities (with_max_entries).                                          *)
(***************************************************************************)
\* Mutant: one key more than asked for.
EntriesCap_more == CacheSize + 1

EntriesCap == Greatest(CacheSize, 1)

StaleCap == Least(Greatest(CacheSize \div 5, StaleMinEntries), StaleMaxEntries)

NewCache == [entries |-> EmptyLru, stale |-> EmptyLru, hits |-> 0, misses |-> 0]

(***************************************************************************)
(* One key's records.                                                      *)
(***************************************************************************)
is_expired(e, t) == t >= e.exp

\* Mutant: the remaining lifetime is rounded up.
ttl_remaining_up(e, t) == (e.exp - t + Sec - 1) \div Sec

\* Whole seconds left, rounded down: 0 in an entry's last second.
ttl_remaining(e, t) == (e.exp - t) \div Sec

\* Young enough for serve-stale.
usable(e, t) == t - e.exp < StaleMaxAge

\* The records in v, renumbered in their old order.
Renumber(v) ==
    {[e EXCEPT !.pos = Cardinality({f \in v : f.pos <= e.pos})] : e \in v}

\* Vec::push
Push(v, e) == v \cup {[e EXCEPT !.pos = Cardinality(v) + 1]}

\* Vec::remove(0)
DropFirst(v) ==
    Renumber(v \ {CHOOSE e \in v : \A f \in v : e.pos <= f.pos})

(***************************************************************************)
(* insert, for a record r = [key, rdata, ttl] received at tick t.          *)
(***************************************************************************)
\* Mutant: the TTL is not clamped.
CacheEntry_unclamped(r, t) ==
    [rdata |-> r.rdata, ttl |-> r.ttl, exp |-> t + r.ttl * Sec, pos |-> 1]

CacheEntry(r, t) ==
    LET ttl == Least(r.ttl, MaxTtl)
    IN  [rdata |-> r.rdata, ttl |-> ttl, exp |-> t + ttl * Sec, pos |-> 1]

\* Mutant: the record count is compared after the push.
AddRecord_offbyone(v, e) ==
    IF \E f \in v : f.rdata = e.rdata THEN v
    ELSE Push(IF Cardinality(v) > MaxPerKey THEN DropFirst(v) ELSE v, e)

\* A record whose rdata is already held changes nothing: not even its expiry.
AddRecord(v, e) ==
    IF \E f \in v : f.rdata = e.rdata THEN v
    ELSE Push(IF Cardinality(v) >= MaxPerKey THEN DropFirst(v) ELSE v, e)

insert(c, t, r) ==
    LET e == CacheEntry(r, t)
    IN  IF r.ttl = 0 THEN c
        ELSE [c EXCEPT !.entries =
                 IF r.key \in DOMAIN @
                 THEN Assign(@, r.key, AddRecord(@[r.key].val, e))
                 ELSE Put(@, r.key, {e}, EntriesCap)]

(***************************************************************************)
(* lookup and lookup_stale: the answer, and the cache they leave.          *)
(***************************************************************************)
Records(store, k) == IF k \in DOMAIN store THEN store[k].val ELSE {}

Fresh(c, t, k) == {e \in Records(c.entries, k) : ~ is_expired(e, t)}
Expired(c, t, k) == {e \in Records(c.entries, k) : is_expired(e, t)}

\* The records of a hit, with their remaining TTL; {} is a miss.
found(c, t, k) ==
    {[key |-> k, rdata |-> e.rdata, ttl |-> ttl_remaining(e, t)] :
        e \in Fresh(c, t, k)}

\* Mutant: the expired records are dropped instead of kept for serve-stale.
MoveToStale_drop(c, t, k) == c.stale

\* Mutant: live records go along with the expired ones.
MoveToStale_all(c, t, k) ==
    IF Expired(c, t, k) = {} THEN c.stale
    ELSE Put(c.stale, k, c.entries[k].val, StaleCap)

\* What was stale for the key before is overwritten.
MoveToStale(c, t, k) ==
    IF Expired(c, t, k) = {} THEN c.stale
    ELSE Put(c.stale, k, Renumber(Expired(c, t, k)), StaleCap)

\* Mutant: a key stays resident when all its records have expired.
lookup_undrained(c, t, k) ==
    LET hit == Fresh(c, t, k) # {}
    IN  [entries |-> IF k \in DOMAIN c.entries
                     THEN Assign(c.entries, k, Renumber(Fresh(c, t, k))) ELSE c.entries,
         stale   |-> MoveToStale(c, t, k),
         hits    |-> IF hit THEN c.hits + 1 ELSE c.hits,
         misses  |-> IF hit THEN c.misses ELSE c.misses + 1]

\* Mutant: expired records are copied to the stale store and stay where they were.
lookup_copied(c, t, k) ==
    LET hit == Fresh(c, t, k) # {}
    IN  [entries |-> IF hit THEN Assign(c.entries, k, Renumber(Fresh(c, t, k)))
                            ELSE c.entries,
         stale   |-> MoveToStale(c, t, k),
         hits    |-> IF hit THEN c.hits + 1 ELSE c.hits,
         misses  |-> IF hit THEN c.misses ELSE c.misses + 1]

lookup(c, t, k) ==
    LET hit == Fresh(c, t, k) # {}
    IN  [entries |-> IF hit THEN Assign(c.entries, k, Renumber(Fresh(c, t, k)))
                            ELSE Pop(c.entries, k),
         stale   |-> MoveToStale(c, t, k),
         hits    |-> IF hit THEN c.hits + 1 ELSE c.hits,
         misses  |-> IF hit THEN c.misses ELSE c.misses + 1]

\* The records serve-stale would answer with (their TTL is set to 0); {} is none.
found_stale(c, t, k) ==
    {[key |-> k, rdata |-> e.rdata, ttl |-> 0] :
        e \in {f \in Records(c.stale, k) : usable(f, t)}}

\* Mutant: the stale records are taken out when they are served.
lookup_stale_pop(c, t, k) == [c EXCEPT !.stale = Pop(@, k)]

lookup_stale(c, t, k) ==
    [c EXCEPT !.stale = IF \E e \in Records(@, k) : usable(e, t)
                        THEN Touch(@, k)
                        ELSE Pop(@, k)]

(***************************************************************************)
(* Batch insertion, purge and flush.                                       *)
(***************************************************************************)
\* insert_records: rs is the sequence of records.
insert_records(c, t, rs) ==
    LET after[n \in 0 .. Len(rs)] ==
            IF n = 0 THEN c ELSE insert(after[n - 1], t, rs[n])
    IN  after[Len(rs)]

\* Mutant: a key is purged as soon as one of its records is too old.
purge_expired_any(c, t) ==
    [c EXCEPT !.stale =
        Retain(@, {k \in DOMAIN @ : \A e \in @[k].val : usable(e, t)})]

\* Only the keys all of whose records are too old are dropped.
purge_expired(c, t) ==
    [c EXCEPT !.stale =
        Retain(@, {k \in DOMAIN @ : \E e \in @[k].val : usable(e, t)})]

clear(c) == NewCache

-----------------------------------------------------------------------------
(***************************************************************************)
(* What a cache is: no record is held with TTL 0 or above the clamp.       *)
(***************************************************************************)
Entry == [rdata : RData, ttl : 1 .. MaxTtl, exp : Nat, pos : Nat]

IsStore(l) ==
    /\ l = [k \in DOMAIN l |-> [val |-> l[k].val, rank |-> l[k].rank]]
    /\ DOMAIN l \subseteq Key
    /\ \A k \in DOMAIN l : l[k].val \subseteq Entry /\ l[k].rank \in Nat

IsCache(c) ==
    /\ c = [entries |-> c.entries, stale |-> c.stale, hits |-> c.hits, misses |-> c.misses]
    /\ IsStore(c.entries)
    /\ IsStore(c.stale)
    /\ c.hits \in Nat
    /\ c.misses \in Nat
=============================================================================
