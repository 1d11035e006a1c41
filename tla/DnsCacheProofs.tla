--------------------------- MODULE DnsCacheProofs ---------------------------
(***************************************************************************)
(* What the operations of LruCache and DnsCache keep, for every value of   *)
(* the constants: the facts that the proofs about every user of the cache  *)
(* rest on.  And the theorems about the cache by itself: it keeps its type *)
(* and its bounds, the stale store holds only expired records, and no      *)
(* record is lost.                                                         *)
(***************************************************************************)
EXTENDS DnsCacheSpec, FiniteSetTheorems, WellFoundedInduction, TLAPS

-----------------------------------------------------------------------------
(***************************************************************************)
(* What a store, and what a key's records, keep.                           *)
(***************************************************************************)
FewRecords(v, n) ==
    /\ v \subseteq Entry
    /\ IsFiniteSet(v)
    /\ Cardinality(v) <= n
    /\ \A e, f \in v : e.rdata = f.rdata => e = f

GoodRecords(v) == v # {} /\ FewRecords(v, MaxPerKey)

GoodStore(l) ==
    /\ IsStore(l)
    /\ IsFiniteSet(DOMAIN l)
    /\ \A k \in DOMAIN l : GoodRecords(Records(l, k))

(***************************************************************************)
(* Least elements.                                                         *)
(***************************************************************************)
\* A nonempty set of natural numbers has a least element.
LEMMA LeastNat ==
    ASSUME NEW T, T \subseteq Nat, T # {}
    PROVE  \E x \in T : \A y \in T : x <= y
<1>1. \E x \in T : \A y \in T : ~ (<<y, x>> \in OpToRel(<, Nat))
  BY NatLessThanWellFounded, WFMin
<1>2. ASSUME NEW x \in T, NEW y \in T, ~ (<<y, x>> \in OpToRel(<, Nat))
      PROVE  x <= y
  <2>1. <<y, x>> \in Nat \X Nat
    OBVIOUS
  <2>2. ~ (y < x)
    BY <1>2, <2>1 DEF OpToRel
  <2> QED
    BY <2>2
<1> QED
  BY <1>1, <1>2

\* The victim of an eviction (lru's put) is a resident key, so that an eviction
\* makes room, and the least recently used one.
LEMMA OldestIsOldest ==
    ASSUME NEW l, \A k \in DOMAIN l : l[k].rank \in Nat, DOMAIN l # {}
    PROVE  /\ Oldest(l) \in DOMAIN l
           /\ \A j \in DOMAIN l : l[Oldest(l)].rank <= l[j].rank
<1> DEFINE T == {l[k].rank : k \in DOMAIN l}
<1>1. PICK x \in T : \A y \in T : x <= y
  <2>1. T \subseteq Nat /\ T # {}
    OBVIOUS
  <2> QED
    BY <2>1, LeastNat
<1>2. PICK k \in DOMAIN l : l[k].rank = x
  OBVIOUS
<1>3. \A j \in DOMAIN l : l[k].rank <= l[j].rank
  BY <1>1, <1>2
<1> QED
  BY <1>3 DEF Oldest

(***************************************************************************)
(* The LRU stores.                                                         *)
(***************************************************************************)
\* pop_entry keeps the records of the other keys.
LEMMA RetainRecords ==
    ASSUME NEW l, NEW S, NEW j, S \subseteq DOMAIN l
    PROVE  Records(Retain(l, S), j) = IF j \in S THEN Records(l, j) ELSE {}
BY DEF Records, Retain

\* A write through get_mut is what is read next ...
LEMMA AssignRecords ==
    ASSUME NEW l, NEW k, NEW v
    PROVE  Records(Assign(l, k, v), k) = v
BY DEF Records, Assign

\* ... and leaves the records of the other keys alone.
LEMMA AssignOthers ==
    ASSUME NEW l, NEW k, NEW v, NEW j, j # k
    PROVE  Records(Assign(l, k, v), j) = Records(l, j)
BY DEF Records, Assign, Pop, Retain

\* Forgetting keys keeps a store a store.
LEMMA RetainGood ==
    ASSUME NEW l, GoodStore(l), NEW S, S \subseteq DOMAIN l
    PROVE  GoodStore(Retain(l, S)) /\ DOMAIN Retain(l, S) = S
<1>1. IsFiniteSet(S)
  BY FS_Subset DEF GoodStore
<1>2. \A k \in S : Cardinality({j \in S : l[j].rank <= l[k].rank}) \in Nat
  <2> TAKE k \in S
  <2>1. IsFiniteSet({j \in S : l[j].rank <= l[k].rank})
    BY <1>1, FS_Subset
  <2> QED
    BY <2>1, FS_CardinalityType
<1>3. DOMAIN Retain(l, S) = S
  BY DEF Retain
<1>4. \A k \in S : Records(Retain(l, S), k) = Records(l, k)
  BY RetainRecords
<1>5. IsStore(Retain(l, S))
  BY <1>2 DEF IsStore, GoodStore, Retain
<1> QED
  BY <1>1, <1>3, <1>4, <1>5 DEF GoodStore

\* Writing a key's records keeps a store a store.
LEMMA AssignGood ==
    ASSUME NEW l, GoodStore(l), NEW k \in Key, NEW v, GoodRecords(v)
    PROVE  GoodStore(Assign(l, k, v)) /\ DOMAIN Assign(l, k, v) = DOMAIN l \cup {k}
<1> DEFINE others == Pop(l, k)
           a == Assign(l, k, v)
<1>1. GoodStore(others) /\ DOMAIN others = DOMAIN l \ {k}
  BY RetainGood DEF Pop
<1>2. Cardinality(DOMAIN others) + 1 \in Nat
  BY <1>1, FS_CardinalityType DEF GoodStore
<1>3. /\ DOMAIN a = DOMAIN l \cup {k}
      /\ a[k] = [val |-> v, rank |-> Cardinality(DOMAIN others) + 1]
      /\ \A j \in DOMAIN l \ {k} : a[j] = others[j]
      /\ a = [j \in DOMAIN a |-> a[j]]
  BY DEF Assign
<1>4. IsFiniteSet(DOMAIN a)
  BY <1>3, FS_AddElement DEF GoodStore
<1>5. \A j \in DOMAIN a : GoodRecords(Records(a, j))
  <2>1. GoodRecords(Records(a, k))
    BY AssignRecords
  <2>2. ASSUME NEW j \in DOMAIN l, j # k
        PROVE  GoodRecords(Records(a, j))
    <3>1. Records(a, j) = Records(l, j)
      BY <2>2, AssignOthers
    <3> QED
      BY <3>1 DEF GoodStore
  <2> QED
    BY <1>3, <2>1, <2>2
<1> HIDE DEF others, a
<1>6. IsStore(a)
  <2>1. DOMAIN a \subseteq Key
    BY <1>3 DEF GoodStore, IsStore
  <2>2. \A j \in DOMAIN a : /\ a[j] = [val |-> a[j].val, rank |-> a[j].rank]
                            /\ a[j].val \subseteq Entry
                            /\ a[j].rank \in Nat
    BY <1>1, <1>2, <1>3 DEF GoodStore, IsStore, GoodRecords, FewRecords
  <2> QED
    BY <1>3, <2>1, <2>2 DEF IsStore
<1>7. GoodStore(a)
  BY <1>4, <1>5, <1>6 DEF GoodStore
<1> QED
  BY <1>3, <1>7 DEF a

\* put keeps a store a store and never leaves more keys than the capacity.
LEMMA PutGood ==
    ASSUME NEW l, GoodStore(l), NEW k \in Key, NEW v, GoodRecords(v),
           NEW cap \in Nat \ {0}, Cardinality(DOMAIN l) <= cap
    PROVE  GoodStore(Put(l, k, v, cap)) /\ Cardinality(DOMAIN Put(l, k, v, cap)) <= cap
<1> DEFINE n == Cardinality(DOMAIN l)
<1>1. IsFiniteSet(DOMAIN l) /\ n \in Nat /\ n <= cap
  BY FS_CardinalityType DEF GoodStore
<1>2. CASE k \in DOMAIN l \/ n < cap
  <2>1. Put(l, k, v, cap) = Assign(l, k, v)
    BY <1>2 DEF Put
  <2>2. Cardinality(DOMAIN l \cup {k}) = IF k \in DOMAIN l THEN n ELSE n + 1
    BY <1>1, FS_AddElement
  <2>3. Cardinality(DOMAIN l \cup {k}) <= cap
    <3> HIDE DEF n
    <3> QED
      BY <1>1, <1>2, <2>2
  <2> QED
    BY <2>1, <2>3, AssignGood
<1>3. CASE ~ (k \in DOMAIN l \/ n < cap)
  <2> DEFINE p == Pop(l, Oldest(l))
  <2>1. Put(l, k, v, cap) = Assign(p, k, v)
    BY <1>3 DEF Put
  <2>2. Oldest(l) \in DOMAIN l
    <3>1. DOMAIN l # {}
      BY <1>1, <1>3, FS_EmptySet
    <3> QED
      BY <3>1, OldestIsOldest DEF GoodStore, IsStore
  <2>3. GoodStore(p) /\ DOMAIN p = DOMAIN l \ {Oldest(l)}
    BY RetainGood DEF Pop
  <2> HIDE DEF p
  <2>4. IsFiniteSet(DOMAIN p) /\ Cardinality(DOMAIN p) = n - 1
    BY <1>1, <2>2, <2>3, FS_RemoveElement
  <2>5. Cardinality(DOMAIN p \cup {k}) \in {n - 1, n}
    <3>1. Cardinality(DOMAIN p \cup {k}) =
              IF k \in DOMAIN p THEN Cardinality(DOMAIN p) ELSE Cardinality(DOMAIN p) + 1
      BY <2>4, FS_AddElement
    <3> HIDE DEF n
    <3> QED
      BY <1>1, <2>4, <3>1
  <2>6. Cardinality(DOMAIN p \cup {k}) <= cap
    <3> HIDE DEF n
    <3> QED
      BY <1>1, <2>5
  <2>7. GoodStore(Assign(p, k, v)) /\ DOMAIN Assign(p, k, v) = DOMAIN p \cup {k}
    BY <2>3, AssignGood
  <2> QED
    BY <2>1, <2>6, <2>7
<1> QED
  BY <1>2, <1>3

\* put holds the new records for its key, and for the others what it held, or
\* nothing if the key was evicted.
LEMMA PutRecords ==
    ASSUME NEW l, NEW k, NEW v, NEW cap, NEW j
    PROVE  Records(Put(l, k, v, cap), j) \subseteq (IF j = k THEN v ELSE Records(l, j))
<1>1. CASE j = k
  BY <1>1, AssignRecords DEF Put
<1>2. CASE j # k
  <2>1. Records(Assign(l, k, v), j) = Records(l, j)
    BY <1>2, AssignOthers
  <2>2. Records(Assign(Pop(l, Oldest(l)), k, v), j) = Records(Pop(l, Oldest(l)), j)
    BY <1>2, AssignOthers
  <2>3. Records(Pop(l, Oldest(l)), j) \subseteq Records(l, j)
    BY RetainRecords DEF Pop
  <2> QED
    BY <1>2, <2>1, <2>2, <2>3 DEF Put
<1> QED
  BY <1>1, <1>2

(***************************************************************************)
(* The records of a key.                                                   *)
(***************************************************************************)
\* Two records that differ in their place in the Vec only.
SameRecord(e, f) == e.rdata = f.rdata /\ e.ttl = f.ttl /\ e.exp = f.exp

\* Removing records from a Vec renumbers the others: they stay as they are.
LEMMA RenumberFew ==
    ASSUME NEW n \in Nat, NEW v, FewRecords(v, n)
    PROVE  /\ FewRecords(Renumber(v), n)
           /\ v # {} => Renumber(v) # {}
           /\ \A e \in Renumber(v) : \E f \in v : SameRecord(e, f)
<1> DEFINE place(e) == Cardinality({f \in v : f.pos <= e.pos})
           r == Renumber(v)
           g == [e \in v |-> [e EXCEPT !.pos = place(e)]]
<1> USE DEF FewRecords
<1>1. \A e \in v : place(e) \in Nat
  <2> TAKE e \in v
  <2>1. IsFiniteSet({f \in v : f.pos <= e.pos})
    BY FS_Subset
  <2> QED
    BY <2>1, FS_CardinalityType
<1>2. r = {g[e] : e \in v}
  BY DEF Renumber
<1> HIDE DEF place, r
<1>3. \A e \in v : g[e] \in Entry /\ SameRecord(g[e], e)
  BY <1>1 DEF Entry, SameRecord
<1>4. g \in Surjection(v, r)
  BY <1>2 DEF Surjection
<1> HIDE DEF g
<1>5. IsFiniteSet(r) /\ Cardinality(r) <= Cardinality(v)
  BY <1>4, FS_Surjection
<1>6. Cardinality(r) <= n
  <2>1. Cardinality(v) \in Nat /\ Cardinality(r) \in Nat
    BY <1>5, FS_CardinalityType
  <2> QED
    BY <1>5, <2>1
<1>7. \A e, f \in r : e.rdata = f.rdata => e = f
  <2> TAKE e \in r, f \in r
  <2>1. PICK x \in v : e = g[x]
    BY <1>2
  <2>2. PICK y \in v : f = g[y]
    BY <1>2
  <2> QED
    BY <1>3, <2>1, <2>2 DEF SameRecord
<1>8. /\ r \subseteq Entry
      /\ v # {} => r # {}
      /\ \A e \in r : \E f \in v : SameRecord(e, f)
  BY <1>2, <1>3
<1> QED
  BY <1>5, <1>6, <1>7, <1>8 DEF r

\* Some of a Vec's records are few records.
LEMMA SubsetFew ==
    ASSUME NEW n \in Nat, NEW v, FewRecords(v, n), NEW w, w \subseteq v
    PROVE  FewRecords(w, n)
<1>1. IsFiniteSet(w) /\ Cardinality(w) <= Cardinality(v)
  BY FS_Subset DEF FewRecords
<1>2. Cardinality(v) \in Nat /\ Cardinality(w) \in Nat
  BY <1>1, FS_CardinalityType DEF FewRecords
<1> QED
  BY <1>1, <1>2 DEF FewRecords

\* A Vec with records has a first one.
LEMMA FirstIsFirst ==
    ASSUME NEW v, v \subseteq Entry, v # {}
    PROVE  LET m == CHOOSE e \in v : \A f \in v : e.pos <= f.pos
           IN  m \in v /\ \A f \in v : m.pos <= f.pos
<1> DEFINE T == {e.pos : e \in v}
<1>1. T \subseteq Nat /\ T # {}
  BY DEF Entry
<1>2. PICK x \in T : \A y \in T : x <= y
  BY <1>1, LeastNat
<1>3. PICK e \in v : e.pos = x
  OBVIOUS
<1>4. \A f \in v : e.pos <= f.pos
  BY <1>2, <1>3
<1> QED
  BY <1>4

\* Vec::remove(0) makes room for one record.
LEMMA DropFirstFew ==
    ASSUME NEW n \in Nat, NEW v, FewRecords(v, n + 1), v # {}
    PROVE  /\ FewRecords(DropFirst(v), n)
           /\ \A e \in DropFirst(v) : \E f \in v : SameRecord(e, f)
<1> DEFINE m == CHOOSE e \in v : \A f \in v : e.pos <= f.pos
           w == v \ {m}
<1>1. m \in v
  BY FirstIsFirst DEF FewRecords
<1> HIDE DEF m
<1>2. IsFiniteSet(w) /\ Cardinality(w) = Cardinality(v) - 1
  BY <1>1, FS_RemoveElement DEF FewRecords
<1>3. Cardinality(v) \in Nat /\ Cardinality(v) <= n + 1
  BY FS_CardinalityType DEF FewRecords
<1>4. FewRecords(w, n)
  <2>1. Cardinality(w) <= n
    BY <1>2, <1>3
  <2> QED
    BY <1>2, <2>1 DEF FewRecords
<1>5. DropFirst(v) = Renumber(w)
  BY DEF DropFirst, m
<1> QED
  BY <1>4, <1>5, RenumberFew

\* Vec::push of a record with new rdata.
LEMMA PushFew ==
    ASSUME NEW n \in Nat, NEW v, FewRecords(v, n), NEW e \in Entry,
           \A f \in v : f.rdata # e.rdata
    PROVE  /\ FewRecords(Push(v, e), n + 1)
           /\ Push(v, e) # {}
           /\ \A f \in Push(v, e) : f \in v \/ SameRecord(f, e)
<1> DEFINE d == [e EXCEPT !.pos = Cardinality(v) + 1]
<1>1. IsFiniteSet(v) /\ Cardinality(v) \in Nat /\ Cardinality(v) <= n
  BY FS_CardinalityType DEF FewRecords
<1>2. d \in Entry /\ SameRecord(d, e)
  BY <1>1 DEF Entry, SameRecord
<1>3. Push(v, e) = v \cup {d}
  BY DEF Push
<1> HIDE DEF d
<1>4. IsFiniteSet(v \cup {d}) /\ Cardinality(v \cup {d}) <= n + 1
  <2>1. Cardinality(v \cup {d}) = IF d \in v THEN Cardinality(v) ELSE Cardinality(v) + 1
    BY <1>1, FS_AddElement
  <2>2. IsFiniteSet(v \cup {d})
    BY <1>1, FS_AddElement
  <2> QED
    BY <1>1, <2>1, <2>2
<1>5. \A f, g \in v \cup {d} : f.rdata = g.rdata => f = g
  BY <1>2 DEF FewRecords, SameRecord
<1>6. FewRecords(v \cup {d}, n + 1)
  BY <1>2, <1>4, <1>5 DEF FewRecords
<1> QED
  BY <1>2, <1>3, <1>6

\* insert into a resident key: never more than MAX_RECORDS_PER_KEY records,
\* never two with the same rdata, and no record but those there and the new one.
LEMMA AddRecordGood ==
    ASSUME NEW v, GoodRecords(v), NEW e \in Entry
    PROVE  /\ GoodRecords(AddRecord(v, e))
           /\ \A f \in AddRecord(v, e) : SameRecord(f, e) \/ \E g \in v : SameRecord(f, g)
<1>1. CASE \E f \in v : f.rdata = e.rdata
  BY <1>1 DEF AddRecord, SameRecord
<1>2. CASE ~ \E f \in v : f.rdata = e.rdata
  <2> DEFINE w == IF Cardinality(v) >= MaxPerKey THEN DropFirst(v) ELSE v
             n == MaxPerKey - 1
  <2>1. n \in Nat /\ MaxPerKey = n + 1 /\ Cardinality(v) \in Nat
    BY DnsCacheAssumption, FS_CardinalityType DEF GoodRecords, FewRecords
  <2>2. FewRecords(w, n) /\ \A x \in w : \E f \in v : SameRecord(x, f)
    <3>1. CASE Cardinality(v) >= MaxPerKey
      <4>1. FewRecords(v, n + 1) /\ v # {}
        BY <2>1 DEF GoodRecords
      <4> QED
        BY <2>1, <3>1, <4>1, DropFirstFew
    <3>2. CASE ~ (Cardinality(v) >= MaxPerKey)
      <4>1. Cardinality(v) <= n
        BY <2>1, <3>2
      <4> QED
        BY <3>2, <4>1 DEF GoodRecords, FewRecords, SameRecord
    <3> QED
      BY <3>1, <3>2
  <2>3. AddRecord(v, e) = Push(w, e)
    BY <1>2 DEF AddRecord
  <2> HIDE DEF w, n
  <2>4. \A f \in w : f.rdata # e.rdata
    BY <1>2, <2>2 DEF SameRecord
  <2>5. /\ FewRecords(Push(w, e), n + 1)
        /\ Push(w, e) # {}
        /\ \A f \in Push(w, e) : f \in w \/ SameRecord(f, e)
    BY <2>1, <2>2, <2>4, PushFew
  <2> QED
    BY <2>1, <2>2, <2>3, <2>5 DEF GoodRecords
<1> QED
  BY <1>1, <1>2

\* The record that insert stores has a TTL between 1 s and the clamp, and that long
\* to live.
LEMMA CacheEntryGood ==
    ASSUME NEW r \in [key : Key, rdata : RData, ttl : Nat], r.ttl # 0, NEW t \in Nat
    PROVE  /\ CacheEntry(r, t) \in Entry
           /\ CacheEntry(r, t).exp <= t + MaxTtl * Sec
           /\ CacheEntry(r, t).exp = t + CacheEntry(r, t).ttl * Sec
           /\ CacheEntry(r, t).exp > t
<1> DEFINE ttl == Least(r.ttl, MaxTtl)
<1>1. ttl \in 1 .. MaxTtl /\ MaxTtl \in Nat /\ Sec \in Nat /\ Sec > 0
  BY DnsCacheAssumption DEF Least
<1> HIDE DEF ttl
<1>2. /\ ttl * Sec \in Nat /\ ttl * Sec > 0
      /\ MaxTtl * Sec \in Nat /\ ttl * Sec <= MaxTtl * Sec
  BY <1>1
<1>3. CacheEntry(r, t) = [rdata |-> r.rdata, ttl |-> ttl, exp |-> t + ttl * Sec, pos |-> 1]
  BY DEF CacheEntry, ttl
<1> QED
  BY <1>1, <1>2, <1>3 DEF Entry

\* A single new record is the content of a new key.
LEMMA SingleGood ==
    ASSUME NEW e \in Entry
    PROVE  GoodRecords({e})
BY FS_Singleton, DnsCacheAssumption DEF GoodRecords, FewRecords

-----------------------------------------------------------------------------
(***************************************************************************)
(* The inductive invariant, of a cache c at time t.  The bounds on the     *)
(* expiry times make StaleIsExpired and ServedWithinLifetime inductive;    *)
(* that the stale records of a key expired before its others expire makes  *)
(* an overwrite of them one by later records.                              *)
(***************************************************************************)
ExpiresBy(l, t) == \A k \in Key : \A e \in Records(l, k) : e.exp <= t

Older(stale, entries) ==
    \A k \in Key : \A e \in Records(stale, k), f \in Records(entries, k) : e.exp < f.exp

CacheInv(c, t) ==
    /\ c = [entries |-> c.entries, stale |-> c.stale, hits |-> c.hits, misses |-> c.misses]
    /\ c.hits \in Nat /\ c.misses \in Nat
    /\ GoodStore(c.entries) /\ Cardinality(DOMAIN c.entries) <= EntriesCap
    /\ GoodStore(c.stale) /\ Cardinality(DOMAIN c.stale) <= StaleCap
    /\ ExpiresBy(c.entries, t + MaxTtl * Sec)
    /\ ExpiresBy(c.stale, t)
    /\ Older(c.stale, c.entries)

\* with_max_entries never asks for a store of capacity 0 (NonZeroUsize).
LEMMA Capacities ==
    /\ EntriesCap \in Nat \ {0}
    /\ StaleCap \in Nat \ {0}
    /\ EntriesCap = IF CacheSize = 0 THEN 1 ELSE CacheSize
    /\ StaleCap <= StaleMaxEntries
BY DnsCacheAssumption DEF EntriesCap, StaleCap, Greatest, Least

\* The records of a resident key are its records in the store.
LEMMA StoredRecords ==
    ASSUME NEW l, NEW k
    PROVE  /\ k \in DOMAIN l => Records(l, k) = l[k].val
           /\ k \notin DOMAIN l => Records(l, k) = {}
BY DEF Records

\* A new cache, and a flushed one.
LEMMA NewCacheInv ==
    ASSUME NEW t \in Nat
    PROVE  CacheInv(NewCache, t)
<1>1. DOMAIN EmptyLru = {}
  BY DEF EmptyLru
<1>2. EmptyLru = [k \in DOMAIN EmptyLru |-> [val |-> EmptyLru[k].val, rank |-> EmptyLru[k].rank]]
  BY DEF EmptyLru
<1>3. IsStore(EmptyLru)
  BY <1>1, <1>2 DEF IsStore
<1>4. GoodStore(EmptyLru) /\ Cardinality(DOMAIN EmptyLru) = 0
  BY <1>1, <1>3, FS_EmptySet DEF GoodStore
<1>5. \A s : ExpiresBy(EmptyLru, s)
  BY <1>1, StoredRecords DEF ExpiresBy
<1>6. Older(EmptyLru, EmptyLru)
  BY <1>1, StoredRecords DEF Older
<1> QED
  BY <1>4, <1>5, <1>6, Capacities DEF CacheInv, NewCache

\* Removing keys keeps the bounds on the expiry times.
LEMMA RetainExpires ==
    ASSUME NEW l, NEW S, S \subseteq DOMAIN l, NEW t, ExpiresBy(l, t)
    PROVE  ExpiresBy(Retain(l, S), t)
BY RetainRecords DEF ExpiresBy

\* Writing records that expire by t keeps it, too, whatever put evicts.
LEMMA PutExpires ==
    ASSUME NEW l, NEW k, NEW v, NEW t, ExpiresBy(l, t), \A e \in v : e.exp <= t, NEW cap
    PROVE  /\ ExpiresBy(Put(l, k, v, cap), t)
           /\ ExpiresBy(Assign(l, k, v), t)
<1>1. ASSUME NEW j \in Key, NEW e \in Records(Put(l, k, v, cap), j)
      PROVE  e.exp <= t
  BY PutRecords DEF ExpiresBy
<1>2. ASSUME NEW j \in Key, NEW e \in Records(Assign(l, k, v), j)
      PROVE  e.exp <= t
  <2>1. CASE j = k
    BY <2>1, AssignRecords
  <2>2. CASE j # k
    BY <2>2, AssignOthers DEF ExpiresBy
  <2> QED
    BY <2>1, <2>2
<1> QED
  BY <1>1, <1>2 DEF ExpiresBy

\* The expiry times of stored records are natural numbers.
LEMMA StoredExp ==
    ASSUME NEW l, GoodStore(l), NEW k, NEW e \in Records(l, k)
    PROVE  e \in Entry /\ e.exp \in Nat
<1>1. k \in DOMAIN l
  BY StoredRecords
<1>2. e \in Entry
  BY <1>1 DEF GoodStore, GoodRecords, FewRecords
<1> QED
  BY <1>2 DEF Entry

\* Where a record that insert leaves in the main store comes from.
LEMMA InsertFrom ==
    ASSUME NEW c, NEW t \in Nat, CacheInv(c, t),
           NEW r \in [key : Key, rdata : RData, ttl : Nat],
           NEW j \in Key, NEW f \in Records(insert(c, t, r).entries, j)
    PROVE  \/ \E g \in Records(c.entries, j) : SameRecord(f, g)
           \/ f.exp = t + f.ttl * Sec /\ f.exp > t
<1>1. CASE r.ttl = 0
  BY <1>1 DEF insert, SameRecord
<1>2. CASE r.ttl # 0
  <2> DEFINE e == CacheEntry(r, t)
             k == r.key
             new == IF k \in DOMAIN c.entries
                    THEN Assign(c.entries, k, AddRecord(c.entries[k].val, e))
                    ELSE Put(c.entries, k, {e}, EntriesCap)
  <2>1. insert(c, t, r).entries = new
    BY <1>2 DEF insert, CacheInv
  <2>2. e \in Entry /\ e.exp = t + e.ttl * Sec /\ e.exp > t
    BY <1>2, CacheEntryGood
  <2>3. f \in Records(new, j)
    BY <2>1
  <2> HIDE DEF e, k
  <2>4. CASE k \in DOMAIN c.entries
    <3> DEFINE v == Records(c.entries, k)
    <3>1. new = Assign(c.entries, k, AddRecord(v, e)) /\ GoodRecords(v)
      BY <2>4, StoredRecords DEF CacheInv, GoodStore
    <3>2. \A g \in AddRecord(v, e) : SameRecord(g, e) \/ \E h \in v : SameRecord(g, h)
      BY <2>2, <3>1, AddRecordGood
    <3> HIDE DEF new
    <3>3. CASE j = k
      <4>1. f \in AddRecord(v, e)
        BY <2>3, <3>1, <3>3, AssignRecords
      <4> QED
        BY <2>2, <3>2, <3>3, <4>1 DEF SameRecord
    <3>4. CASE j # k
      <4>1. f \in Records(c.entries, j)
        BY <2>3, <3>1, <3>4, AssignOthers
      <4> QED
        BY <4>1 DEF SameRecord
    <3> QED
      BY <3>3, <3>4
  <2>5. CASE k \notin DOMAIN c.entries
    <3>1. new = Put(c.entries, k, {e}, EntriesCap)
      BY <2>5
    <3>2. f \in (IF j = k THEN {e} ELSE Records(c.entries, j))
      BY <2>3, <3>1, PutRecords
    <3> QED
      BY <2>2, <3>2 DEF SameRecord
  <2> QED
    BY <2>4, <2>5
<1> QED
  BY <1>1, <1>2

\* insert keeps the invariant.
LEMMA InsertInv ==
    ASSUME NEW c, NEW t \in Nat, CacheInv(c, t),
           NEW r \in [key : Key, rdata : RData, ttl : Nat]
    PROVE  CacheInv(insert(c, t, r), t)
<1>1. CASE r.ttl = 0
  BY <1>1 DEF insert
<1>2. CASE r.ttl # 0
  <2> DEFINE e == CacheEntry(r, t)
             k == r.key
             last == t + MaxTtl * Sec
             new == IF k \in DOMAIN c.entries
                    THEN Assign(c.entries, k, AddRecord(c.entries[k].val, e))
                    ELSE Put(c.entries, k, {e}, EntriesCap)
  <2>1. insert(c, t, r) = [c EXCEPT !.entries = new]
    BY <1>2 DEF insert
  <2>2. e \in Entry /\ e.exp <= last /\ k \in Key
    BY <1>2, CacheEntryGood
  <2> HIDE DEF e, k, last
  <2>3. /\ GoodStore(new)
        /\ Cardinality(DOMAIN new) <= EntriesCap
        /\ ExpiresBy(new, last)
    <3>1. CASE k \in DOMAIN c.entries
      <4> DEFINE v == AddRecord(Records(c.entries, k), e)
      <4>1. new = Assign(c.entries, k, v)
        BY <3>1, StoredRecords
      <4>2. GoodRecords(Records(c.entries, k))
        BY <3>1 DEF CacheInv, GoodStore
      <4>3. /\ GoodRecords(v)
            /\ \A f \in v : SameRecord(f, e) \/ \E g \in Records(c.entries, k) : SameRecord(f, g)
        BY <2>2, <4>2, AddRecordGood
      <4>4. \A f \in v : f.exp <= last
        BY <2>2, <4>3 DEF SameRecord, CacheInv, ExpiresBy, last
      <4> HIDE DEF v, new
      <4>5. GoodStore(new) /\ DOMAIN new = DOMAIN c.entries
        <5>1. GoodStore(c.entries) /\ DOMAIN c.entries \cup {k} = DOMAIN c.entries
          BY <3>1 DEF CacheInv
        <5>2. /\ GoodStore(Assign(c.entries, k, v))
              /\ DOMAIN Assign(c.entries, k, v) = DOMAIN c.entries \cup {k}
          BY <2>2, <4>3, <5>1, AssignGood
        <5> QED
          BY <4>1, <5>1, <5>2
      <4>6. ExpiresBy(new, last)
        BY <4>1, <4>4, PutExpires DEF CacheInv, last
      <4> QED
        BY <4>5, <4>6 DEF CacheInv
    <3>2. CASE k \notin DOMAIN c.entries
      <4>1. new = Put(c.entries, k, {e}, EntriesCap)
        BY <3>2
      <4>2. GoodRecords({e})
        BY <2>2, SingleGood
      <4> HIDE DEF new
      <4>3. GoodStore(new) /\ Cardinality(DOMAIN new) <= EntriesCap
        BY <2>2, <4>1, <4>2, PutGood, Capacities DEF CacheInv
      <4>4. ExpiresBy(new, last)
        BY <2>2, <4>1, PutExpires DEF CacheInv, last
      <4> QED
        BY <4>3, <4>4
    <3> QED
      BY <3>1, <3>2
  <2> HIDE DEF new
  <2>4. insert(c, t, r) = [entries |-> new, stale |-> c.stale, hits |-> c.hits, misses |-> c.misses]
    BY <2>1 DEF CacheInv
  <2>5. Older(c.stale, new)
    <3> SUFFICES ASSUME NEW j \in Key, NEW g \in Records(c.stale, j), NEW f \in Records(new, j)
                 PROVE  g.exp < f.exp
      BY DEF Older
    <3>1. g.exp \in Nat /\ g.exp <= t
      BY StoredExp DEF CacheInv, ExpiresBy
    <3>2. \A h \in Records(c.entries, j) : g.exp < h.exp
      BY DEF CacheInv, Older
    <3>3. f \in Records(insert(c, t, r).entries, j)
      BY <2>4
    <3>4. \/ \E h \in Records(c.entries, j) : SameRecord(f, h)
          \/ f.exp > t
      BY <3>3, InsertFrom
    <3>5. f.exp \in Nat
      BY <2>3, StoredExp
    <3> QED
      BY <3>1, <3>2, <3>4, <3>5 DEF SameRecord
  <2> QED
    BY <2>3, <2>4, <2>5 DEF CacheInv, last
<1> QED
  BY <1>1, <1>2

\* lookup leaves in the main store what was there and, of its key, only what has not
\* expired; and in the stale store what was there, or records of its key that have.
LEMMA LookupFrom ==
    ASSUME NEW c, NEW t \in Nat, CacheInv(c, t), NEW k \in Key, NEW j \in Key
    PROVE  /\ \A f \in Records(lookup(c, t, k).entries, j) :
                /\ \E g \in Records(c.entries, j) : SameRecord(f, g)
                /\ j = k => f.exp > t
           /\ \A f \in Records(lookup(c, t, k).stale, j) :
                \/ f \in Records(c.stale, j)
                \/ j = k /\ \E g \in Expired(c, t, k) : SameRecord(f, g)
<1> DEFINE fresh == Fresh(c, t, k)
           gone == Expired(c, t, k)
           d == lookup(c, t, k)
<1>1. /\ d.entries = IF fresh # {} THEN Assign(c.entries, k, Renumber(fresh))
                      ELSE Pop(c.entries, k)
      /\ d.stale = IF gone = {} THEN c.stale ELSE Put(c.stale, k, Renumber(gone), StaleCap)
  BY DEF lookup, MoveToStale
<1>2. \A e \in Records(c.entries, k) : e \in Entry /\ e.exp \in Nat
  BY StoredExp DEF CacheInv
<1>3. /\ fresh \subseteq Records(c.entries, k) /\ gone \subseteq Records(c.entries, k)
      /\ \A e \in fresh : e.exp > t
  BY <1>2 DEF Fresh, Expired, is_expired
<1> HIDE DEF fresh, gone, d
<1>4. ASSUME NEW v, v \subseteq Records(c.entries, k), NEW f \in Renumber(v)
      PROVE  \E g \in v : SameRecord(f, g)
  <2>1. PICK g \in v : f = [g EXCEPT !.pos = Cardinality({h \in v : h.pos <= g.pos})]
    BY <1>4 DEF Renumber
  <2>2. g \in Entry
    BY <1>2, <1>4
  <2> QED
    BY <2>1, <2>2 DEF Entry, SameRecord
<1>5. ASSUME NEW f \in Records(d.entries, j)
      PROVE  /\ \E g \in Records(c.entries, j) : SameRecord(f, g)
             /\ j = k => f.exp > t
  <2>1. CASE fresh # {} /\ j = k
    <3>1. f \in Renumber(fresh)
      BY <1>1, <2>1, AssignRecords
    <3>2. PICK g \in fresh : SameRecord(f, g)
      BY <1>3, <1>4, <3>1
    <3> QED
      BY <1>3, <2>1, <3>2 DEF SameRecord
  <2>2. CASE fresh # {} /\ j # k
    BY <1>1, <2>2, AssignOthers DEF SameRecord
  <2>3. CASE fresh = {}
    <3>1. Records(d.entries, j) = IF j \in DOMAIN c.entries \ {k} THEN Records(c.entries, j) ELSE {}
      BY <1>1, <2>3, RetainRecords DEF Pop
    <3> QED
      BY <3>1 DEF SameRecord
  <2> QED
    BY <2>1, <2>2, <2>3
<1>6. ASSUME NEW f \in Records(d.stale, j)
      PROVE  \/ f \in Records(c.stale, j)
             \/ j = k /\ \E g \in gone : SameRecord(f, g)
  <2>1. CASE gone = {}
    BY <1>1, <2>1
  <2>2. CASE gone # {}
    <3>1. f \in (IF j = k THEN Renumber(gone) ELSE Records(c.stale, j))
      BY <1>1, <2>2, PutRecords
    <3> QED
      BY <1>3, <1>4, <3>1
  <2> QED
    BY <2>1, <2>2
<1> QED
  BY <1>5, <1>6 DEF d, gone

\* lookup keeps the invariant: the expired records go to the stale store.
LEMMA LookupInv ==
    ASSUME NEW c, NEW t \in Nat, CacheInv(c, t), NEW k \in Key
    PROVE  CacheInv(lookup(c, t, k), t)
<1> DEFINE old == Records(c.entries, k)
           fresh == Fresh(c, t, k)
           stale == Expired(c, t, k)
           entries1 == IF fresh # {} THEN Assign(c.entries, k, Renumber(fresh))
                                     ELSE Pop(c.entries, k)
           stale1 == MoveToStale(c, t, k)
           last == t + MaxTtl * Sec
<1>1. FewRecords(old, MaxPerKey)
  <2>1. CASE k \in DOMAIN c.entries
    BY <2>1 DEF CacheInv, GoodStore, GoodRecords
  <2>2. CASE k \notin DOMAIN c.entries
    <3>1. old = {}
      BY <2>2, StoredRecords
    <3> QED
      BY <3>1, FS_EmptySet, DnsCacheAssumption DEF FewRecords
  <2> QED
    BY <2>1, <2>2
<1>2. fresh \subseteq old /\ stale \subseteq old /\ \A e \in stale : e.exp <= t
  <2>1. \A e \in stale : t >= e.exp /\ e.exp \in Nat
    BY <1>1 DEF Expired, is_expired, FewRecords, Entry
  <2> QED
    BY <2>1 DEF Fresh, Expired
<1>3. MaxPerKey \in Nat
  BY DnsCacheAssumption
<1> HIDE DEF old, fresh, stale, last
<1>4. FewRecords(fresh, MaxPerKey) /\ FewRecords(stale, MaxPerKey)
  BY <1>1, <1>2, <1>3, SubsetFew
<1>5. /\ fresh # {} => GoodRecords(Renumber(fresh))
      /\ \A e \in Renumber(fresh) : \E f \in fresh : SameRecord(e, f)
      /\ stale # {} => GoodRecords(Renumber(stale))
      /\ \A e \in Renumber(stale) : \E f \in stale : SameRecord(e, f)
  BY <1>3, <1>4, RenumberFew DEF GoodRecords
<1>6. /\ \A e \in Renumber(fresh) : e.exp <= last
      /\ \A e \in Renumber(stale) : e.exp <= t
  BY <1>2, <1>5 DEF SameRecord, CacheInv, ExpiresBy, old, last
<1>7. /\ GoodStore(entries1)
      /\ Cardinality(DOMAIN entries1) <= EntriesCap
      /\ ExpiresBy(entries1, last)
  <2>1. GoodStore(c.entries) /\ Cardinality(DOMAIN c.entries) <= EntriesCap
    BY DEF CacheInv
  <2>2. ExpiresBy(c.entries, last)
    BY DEF CacheInv, last
  <2>3. CASE fresh # {}
    <3>1. entries1 = Assign(c.entries, k, Renumber(fresh))
      BY <2>3
    <3>2. k \in DOMAIN c.entries
      BY <1>2, <2>3, StoredRecords DEF old
    <3>3. /\ GoodStore(Assign(c.entries, k, Renumber(fresh)))
          /\ DOMAIN Assign(c.entries, k, Renumber(fresh)) = DOMAIN c.entries \cup {k}
      BY <1>5, <2>1, <2>3, AssignGood
    <3>4. DOMAIN c.entries \cup {k} = DOMAIN c.entries
      BY <3>2
    <3>5. ExpiresBy(Assign(c.entries, k, Renumber(fresh)), last)
      BY <1>6, <2>2, PutExpires
    <3> QED
      BY <2>1, <3>1, <3>3, <3>4, <3>5
  <2>4. CASE fresh = {}
    <3>1. entries1 = Retain(c.entries, DOMAIN c.entries \ {k})
      BY <2>4 DEF Pop
    <3>2. GoodStore(entries1) /\ DOMAIN entries1 = DOMAIN c.entries \ {k}
      BY <2>1, <3>1, RetainGood
    <3>3. ExpiresBy(entries1, last)
      BY <2>2, <3>1, RetainExpires
    <3>4. IsFiniteSet(DOMAIN c.entries)
      BY <2>1 DEF GoodStore
    <3>5. /\ Cardinality(DOMAIN c.entries \ {k}) <= Cardinality(DOMAIN c.entries)
          /\ Cardinality(DOMAIN c.entries \ {k}) \in Nat
          /\ Cardinality(DOMAIN c.entries) \in Nat
      BY <3>4, FS_Subset, FS_CardinalityType
    <3>6. Cardinality(DOMAIN c.entries \ {k}) <= EntriesCap
      BY <2>1, <3>5, Capacities
    <3> QED
      BY <3>2, <3>3, <3>6
  <2> QED
    BY <2>3, <2>4
<1>8. /\ GoodStore(stale1)
      /\ Cardinality(DOMAIN stale1) <= StaleCap
      /\ ExpiresBy(stale1, t)
  <2>1. /\ GoodStore(c.stale)
        /\ Cardinality(DOMAIN c.stale) <= StaleCap
        /\ ExpiresBy(c.stale, t)
    BY DEF CacheInv
  <2>2. CASE stale = {}
    BY <2>1, <2>2 DEF MoveToStale, stale
  <2>3. CASE stale # {}
    <3>1. stale1 = Put(c.stale, k, Renumber(stale), StaleCap)
      BY <2>3 DEF MoveToStale, stale
    <3>2. /\ GoodStore(Put(c.stale, k, Renumber(stale), StaleCap))
          /\ Cardinality(DOMAIN Put(c.stale, k, Renumber(stale), StaleCap)) <= StaleCap
      BY <1>5, <2>1, <2>3, PutGood, Capacities
    <3>3. ExpiresBy(Put(c.stale, k, Renumber(stale), StaleCap), t)
      BY <1>6, <2>1, PutExpires
    <3> QED
      BY <3>1, <3>2, <3>3
  <2> QED
    BY <2>2, <2>3
<1>9. /\ lookup(c, t, k).entries = entries1
      /\ lookup(c, t, k).stale = stale1
      /\ lookup(c, t, k).hits \in Nat
      /\ lookup(c, t, k).misses \in Nat
      /\ lookup(c, t, k) =
            [entries |-> lookup(c, t, k).entries, stale |-> lookup(c, t, k).stale,
             hits |-> lookup(c, t, k).hits, misses |-> lookup(c, t, k).misses]
  <2>1. c.hits \in Nat /\ c.misses \in Nat
    BY DEF CacheInv
  <2> QED
    BY <2>1 DEF lookup, fresh
<1>10. Older(lookup(c, t, k).stale, lookup(c, t, k).entries)
  <2> DEFINE d == lookup(c, t, k)
  <2> HIDE DEF d
  <2> SUFFICES ASSUME NEW j \in Key, NEW e \in Records(d.stale, j), NEW f \in Records(d.entries, j)
               PROVE  e.exp < f.exp
    BY DEF Older, d
  <2>1. PICK g \in Records(c.entries, j) : SameRecord(f, g)
    BY LookupFrom DEF d
  <2>2. g.exp \in Nat /\ f.exp = g.exp
    BY <2>1, StoredExp DEF SameRecord, CacheInv
  <2>3. CASE j # k
    <3>1. e \in Records(c.stale, j)
      BY <2>3, LookupFrom DEF d
    <3> QED
      BY <2>2, <3>1 DEF CacheInv, Older
  <2>4. CASE j = k
    <3>1. f.exp > t
      BY <2>4, LookupFrom DEF d
    <3>2. e.exp \in Nat /\ e.exp <= t
      <4>1. ExpiresBy(d.stale, t) /\ GoodStore(d.stale)
        BY <1>8, <1>9 DEF d
      <4> QED
        BY <4>1, StoredExp DEF ExpiresBy
    <3> QED
      BY <2>2, <3>1, <3>2
  <2> QED
    BY <2>3, <2>4
<1> HIDE DEF entries1, stale1
<1> QED
  BY <1>7, <1>8, <1>9, <1>10 DEF CacheInv, last

\* Dropping stale keys keeps the invariant.
LEMMA DropStaleInv ==
    ASSUME NEW c, NEW t \in Nat, CacheInv(c, t), NEW S, S \subseteq DOMAIN c.stale
    PROVE  CacheInv([c EXCEPT !.stale = Retain(c.stale, S)], t)
<1> DEFINE new == Retain(c.stale, S)
<1>1. GoodStore(new) /\ DOMAIN new = S
  BY RetainGood DEF CacheInv
<1>2. ExpiresBy(new, t)
  BY RetainExpires DEF CacheInv
<1>3. Cardinality(S) <= StaleCap
  <2>1. IsFiniteSet(DOMAIN c.stale) /\ Cardinality(DOMAIN c.stale) <= StaleCap
    BY DEF CacheInv, GoodStore
  <2>2. /\ Cardinality(S) <= Cardinality(DOMAIN c.stale)
        /\ Cardinality(S) \in Nat
        /\ Cardinality(DOMAIN c.stale) \in Nat
    BY <2>1, FS_Subset, FS_CardinalityType
  <2> QED
    BY <2>1, <2>2, Capacities
<1>4. Older(new, c.entries)
  BY RetainRecords DEF Older, CacheInv
<1> HIDE DEF new
<1>5. [c EXCEPT !.stale = new] =
        [entries |-> c.entries, stale |-> new, hits |-> c.hits, misses |-> c.misses]
  BY DEF CacheInv
<1>6. CacheInv([c EXCEPT !.stale = new], t)
  BY <1>1, <1>2, <1>3, <1>4, <1>5 DEF CacheInv
<1> QED
  BY <1>6 DEF new

\* lookup_stale keeps the invariant: it drops a key that is too old or marks it
\* as used.
LEMMA LookupStaleInv ==
    ASSUME NEW c, NEW t \in Nat, CacheInv(c, t), NEW k \in Key
    PROVE  CacheInv(lookup_stale(c, t, k), t)
<1>1. CASE ~ \E e \in Records(c.stale, k) : usable(e, t)
  <2>1. lookup_stale(c, t, k) = [c EXCEPT !.stale = Retain(c.stale, DOMAIN c.stale \ {k})]
    BY <1>1 DEF lookup_stale, Pop
  <2> QED
    BY <2>1, DropStaleInv
<1>2. CASE \E e \in Records(c.stale, k) : usable(e, t)
  <2> DEFINE v == Records(c.stale, k)
             new == Assign(c.stale, k, v)
  <2>1. k \in DOMAIN c.stale
    BY <1>2, StoredRecords
  <2>2. lookup_stale(c, t, k) = [c EXCEPT !.stale = new]
    BY <1>2, <2>1, StoredRecords DEF lookup_stale, Touch
  <2>3. GoodStore(c.stale) /\ ExpiresBy(c.stale, t) /\ DOMAIN c.stale \cup {k} = DOMAIN c.stale
    BY <2>1 DEF CacheInv
  <2>4. GoodRecords(v) /\ \A e \in v : e.exp <= t
    BY <2>1, <2>3 DEF GoodStore, ExpiresBy
  <2>5. GoodStore(new) /\ DOMAIN new = DOMAIN c.stale \cup {k}
    BY <2>3, <2>4, AssignGood
  <2>6. ExpiresBy(new, t)
    BY <2>3, <2>4, PutExpires
  <2>7. Older(new, c.entries)
    <3>1. \A j \in Key : Records(new, j) = Records(c.stale, j)
      BY AssignRecords, AssignOthers
    <3> HIDE DEF new
    <3> QED
      BY <3>1 DEF Older, CacheInv
  <2> HIDE DEF new
  <2>8. [c EXCEPT !.stale = new] =
          [entries |-> c.entries, stale |-> new, hits |-> c.hits, misses |-> c.misses]
    BY DEF CacheInv
  <2> QED
    BY <2>2, <2>3, <2>5, <2>6, <2>7, <2>8 DEF CacheInv
<1> QED
  BY <1>1, <1>2

\* purge_expired keeps the invariant.
LEMMA PurgeInv ==
    ASSUME NEW c, NEW t \in Nat, CacheInv(c, t)
    PROVE  CacheInv(purge_expired(c, t), t)
<1> DEFINE S == {k \in DOMAIN c.stale : \E e \in c.stale[k].val : usable(e, t)}
<1>1. purge_expired(c, t) = [c EXCEPT !.stale = Retain(c.stale, S)]
  BY DEF purge_expired
<1>2. S \subseteq DOMAIN c.stale
  OBVIOUS
<1> HIDE DEF S
<1> QED
  BY <1>1, <1>2, DropStaleInv

\* The clock only moves the bounds up.
LEMMA TickInv ==
    ASSUME NEW c, NEW t \in Nat, CacheInv(c, t)
    PROVE  CacheInv(c, t + 1)
<1>1. MaxTtl * Sec \in Nat
  BY DnsCacheAssumption
<1>2. ASSUME NEW l, GoodStore(l), NEW s \in Nat, NEW u \in Nat, s <= u, ExpiresBy(l, s)
      PROVE  ExpiresBy(l, u)
  <2>1. ASSUME NEW k \in Key, NEW e \in Records(l, k)
        PROVE  e.exp <= u
    <3>1. k \in DOMAIN l
      BY StoredRecords
    <3>2. e.exp \in Nat
      BY <1>2, <3>1 DEF GoodStore, GoodRecords, FewRecords, Entry
    <3>3. e.exp <= s
      BY <1>2 DEF ExpiresBy
    <3> QED
      BY <1>2, <3>2, <3>3
  <2> QED
    BY <2>1 DEF ExpiresBy
<1>3. ExpiresBy(c.stale, t + 1)
  BY <1>2 DEF CacheInv
<1>4. ExpiresBy(c.entries, t + 1 + MaxTtl * Sec)
  <2>1. GoodStore(c.entries) /\ ExpiresBy(c.entries, t + MaxTtl * Sec)
    BY DEF CacheInv
  <2> QED
    BY <1>1, <1>2, <2>1
<1> QED
  BY <1>3, <1>4 DEF CacheInv

(***************************************************************************)
(* insert_records.  f is the run of its loop over the first n records of   *)
(* rs, from the cache c: f[i] is the cache after i of them.                *)
(***************************************************************************)
Received == [key : Key, rdata : RData, ttl : Nat]

RunOf(f, c, t, rs, n) ==
    f = [i \in 0 .. n |-> IF i = 0 THEN c ELSE insert(f[i - 1], t, rs[i])]

\* The loop of insert_records has a run: the equation that defines it has a
\* solution, by the least number of records for which there were none.
LEMMA RunExists ==
    ASSUME NEW c, NEW t, NEW rs, NEW len \in Nat
    PROVE  \E f : RunOf(f, c, t, rs, len)
<1> DEFINE T == {n \in Nat : ~ \E f : RunOf(f, c, t, rs, n)}
<1>1. SUFFICES ASSUME T # {}
               PROVE  FALSE
  OBVIOUS
<1>2. PICK n \in T : \A m \in T : n <= m
  BY <1>1, LeastNat
<1>3. n # 0
  <2> DEFINE f == [i \in 0 .. 0 |-> c]
  <2>1. RunOf(f, c, t, rs, 0)
    BY DEF RunOf
  <2> QED
    BY <2>1
<1>4. n - 1 \in Nat /\ n - 1 \notin T
  BY <1>2, <1>3
<1>5. PICK f : RunOf(f, c, t, rs, n - 1)
  BY <1>4
<1> DEFINE g == [i \in 0 .. n |-> IF i < n THEN f[i] ELSE insert(f[n - 1], t, rs[n])]
<1>6. ASSUME NEW i \in 0 .. n
      PROVE  g[i] = IF i = 0 THEN c ELSE insert(g[i - 1], t, rs[i])
  <2>1. CASE i = 0
    BY <1>3, <1>4, <1>5, <2>1 DEF RunOf
  <2>2. CASE i # 0 /\ i < n
    <3>1. g[i] = f[i] /\ g[i - 1] = f[i - 1] /\ i \in 0 .. n - 1
      BY <2>2
    <3>2. f[i] = insert(f[i - 1], t, rs[i])
      BY <1>5, <2>2, <3>1 DEF RunOf
    <3> QED
      BY <2>2, <3>1, <3>2
  <2>3. CASE i = n
    BY <1>3, <2>3
  <2> QED
    BY <2>1, <2>2, <2>3
<1>7. RunOf(g, c, t, rs, n)
  BY <1>6 DEF RunOf
<1> QED
  BY <1>7

\* Every cache of such a run keeps the invariant.
LEMMA RunInv ==
    ASSUME NEW c, NEW t \in Nat, CacheInv(c, t), NEW rs \in Seq(Received),
           NEW f, RunOf(f, c, t, rs, Len(rs)), NEW n \in 0 .. Len(rs)
    PROVE  CacheInv(f[n], t)
<1> DEFINE T == {i \in 0 .. Len(rs) : ~ CacheInv(f[i], t)}
<1>1. SUFFICES ASSUME T # {}
               PROVE  FALSE
  OBVIOUS
<1>2. PICK i \in T : \A j \in T : i <= j
  <2>1. T \subseteq Nat
    OBVIOUS
  <2> QED
    BY <1>1, <2>1, LeastNat
<1>3. i # 0
  BY DEF RunOf
<1>4. i - 1 \in 0 .. Len(rs) /\ i - 1 \notin T /\ i \in 1 .. Len(rs)
  BY <1>2, <1>3
<1>5. CacheInv(f[i - 1], t) /\ rs[i] \in Received
  BY <1>4
<1>6. f[i] = insert(f[i - 1], t, rs[i])
  BY <1>3, <1>4 DEF RunOf
<1>7. CacheInv(f[i], t)
  BY <1>5, <1>6, InsertInv DEF Received
<1> QED
  BY <1>7

\* insert_records keeps the invariant, however many records it inserts.
LEMMA InsertRecordsInv ==
    ASSUME NEW c, NEW t \in Nat, CacheInv(c, t), NEW rs \in Seq(Received)
    PROVE  CacheInv(insert_records(c, t, rs), t)
<1> DEFINE after == CHOOSE f : RunOf(f, c, t, rs, Len(rs))
<1>1. insert_records(c, t, rs) = after[Len(rs)]
  BY DEF insert_records, RunOf
<1>2. RunOf(after, c, t, rs, Len(rs))
  <2>1. Len(rs) \in Nat
    OBVIOUS
  <2>2. \E f : RunOf(f, c, t, rs, Len(rs))
    BY <2>1, RunExists
  <2> QED
    BY <2>2
<1> HIDE DEF after
<1>3. Len(rs) \in 0 .. Len(rs)
  OBVIOUS
<1> QED
  BY <1>1, <1>2, <1>3, RunInv

\* What a method called at t leaves in the main store was there, or came in at t and
\* has not expired.
Descends(before, after, t) ==
    \A j \in Key : \A f \in Records(after, j) :
        \/ \E g \in Records(before, j) : SameRecord(f, g)
        \/ f.exp = t + f.ttl * Sec /\ f.exp > t

\* Of two methods in a row, too.
LEMMA DescendsOn ==
    ASSUME NEW a, NEW b, NEW c, NEW t, Descends(a, b, t), Descends(b, c, t)
    PROVE  Descends(a, c, t)
<1> SUFFICES ASSUME NEW j \in Key, NEW f \in Records(c, j)
             PROVE  \/ \E g \in Records(a, j) : SameRecord(f, g)
                    \/ f.exp = t + f.ttl * Sec /\ f.exp > t
  BY DEF Descends
<1>1. CASE \E g \in Records(b, j) : SameRecord(f, g)
  <2>1. PICK g \in Records(b, j) : SameRecord(f, g)
    BY <1>1
  <2>2. \/ \E h \in Records(a, j) : SameRecord(g, h)
        \/ g.exp = t + g.ttl * Sec /\ g.exp > t
    BY DEF Descends
  <2> QED
    BY <2>1, <2>2 DEF SameRecord
<1>2. CASE f.exp = t + f.ttl * Sec /\ f.exp > t
  BY <1>2
<1> QED
  BY <1>1, <1>2 DEF Descends

\* insert_records leaves what was there and the records it inserts.
LEMMA InsertRecordsFrom ==
    ASSUME NEW c, NEW t \in Nat, CacheInv(c, t), NEW rs \in Seq(Received)
    PROVE  Descends(c.entries, insert_records(c, t, rs).entries, t)
<1> DEFINE after == CHOOSE f : RunOf(f, c, t, rs, Len(rs))
           T == {i \in 0 .. Len(rs) : ~ Descends(c.entries, after[i].entries, t)}
<1>1. insert_records(c, t, rs) = after[Len(rs)]
  BY DEF insert_records, RunOf
<1>2. RunOf(after, c, t, rs, Len(rs))
  <2>1. Len(rs) \in Nat
    OBVIOUS
  <2>2. \E f : RunOf(f, c, t, rs, Len(rs))
    BY <2>1, RunExists
  <2> QED
    BY <2>2
<1> HIDE DEF after
<1>3. SUFFICES ASSUME T # {}
               PROVE  FALSE
  BY <1>1
<1>4. PICK i \in T : \A j \in T : i <= j
  <2>1. T \subseteq Nat
    OBVIOUS
  <2> QED
    BY <1>3, <2>1, LeastNat
<1>5. i # 0
  <2>1. after[0] = c
    BY <1>2 DEF RunOf
  <2>2. Descends(c.entries, c.entries, t)
    BY DEF Descends, SameRecord
  <2> QED
    BY <1>4, <2>1, <2>2
<1>6. i - 1 \in 0 .. Len(rs) /\ i - 1 \notin T /\ i \in 1 .. Len(rs)
  BY <1>4, <1>5
<1> DEFINE d == after[i - 1]
           r == rs[i]
<1>7. CacheInv(d, t) /\ r \in Received /\ Descends(c.entries, d.entries, t)
  BY <1>2, <1>6, RunInv
<1>8. after[i] = insert(d, t, r)
  BY <1>2, <1>5, <1>6 DEF RunOf
<1> HIDE DEF d, r
<1>9. Descends(d.entries, insert(d, t, r).entries, t)
  BY <1>7, InsertFrom DEF Descends, Received
<1>10. Descends(c.entries, after[i].entries, t)
  BY <1>7, <1>8, <1>9, DescendsOn
<1> QED
  BY <1>4, <1>10

-----------------------------------------------------------------------------
(***************************************************************************)
(* The theorems.                                                           *)
(***************************************************************************)
CacheKept == now \in Nat /\ CacheInv(cache, now)

\* The inductive invariant holds initially, every method keeps it, and so does
\* the clock.
THEOREM CacheInductive == CacheSpec => []CacheKept
<1>1. CacheInit => CacheKept
  BY NewCacheInv DEF CacheInit, CacheKept
<1>2. CacheKept /\ [CacheNext]_cache_vars => CacheKept'
  <2> SUFFICES ASSUME CacheKept, [CacheNext]_cache_vars
               PROVE  CacheKept'
    OBVIOUS
  <2> USE DEF CacheKept
  <2>1. ASSUME NEW r \in ResourceRecord, Insert(r)
        PROVE  CacheKept'
    <3>1. r \in [key : Key, rdata : RData, ttl : Nat]
      BY DnsCacheSpecAssumption DEF ResourceRecord
    <3> QED
      BY <2>1, <3>1, InsertInv DEF Insert
  <2>2. ASSUME NEW k \in Key, Lookup(k)
        PROVE  CacheKept'
    BY <2>2, LookupInv DEF Lookup
  <2>3. ASSUME NEW k \in Key, LookupStale(k)
        PROVE  CacheKept'
    BY <2>3, LookupStaleInv DEF LookupStale
  <2>4. CASE PurgeExpired
    BY <2>4, PurgeInv DEF PurgeExpired
  <2>5. CASE Clear
    BY <2>5, NewCacheInv DEF Clear, clear
  <2>6. CASE CacheTick
    BY <2>6, TickInv DEF CacheTick
  <2>7. CASE UNCHANGED cache_vars
    BY <2>7 DEF cache_vars
  <2> QED
    BY <2>1, <2>2, <2>3, <2>4, <2>5, <2>6, <2>7 DEF CacheNext
<1> QED
  BY <1>1, <1>2, PTL DEF CacheSpec

\* What the inductive invariant says of the shape of the cache.
LEMMA KeptTyped == CacheKept => CacheTypeOK
BY DEF CacheKept, CacheInv, CacheTypeOK, IsCache, GoodStore

\* The cache keeps its type: no record is ever held with TTL 0 or one above the
\* 24-hour clamp, for any sequence of method calls.
THEOREM CacheTypeCorrect == CacheSpec => []CacheTypeOK
BY KeptTyped, CacheInductive, PTL

\* A well-formed store, in the terms of DnsCacheSpec.
LEMMA GoodIsWellFormed ==
    ASSUME NEW l, GoodStore(l)
    PROVE  WellFormed(l)
<1>1. \A k \in DOMAIN l : GoodRecords(l[k].val)
  BY StoredRecords DEF GoodStore
<1> QED
  BY <1>1 DEF WellFormed, GoodRecords, FewRecords

\* What it says of the size of the stores.
LEMMA KeptBounded == CacheKept => CacheBounds
<1> SUFFICES ASSUME CacheKept
             PROVE  CacheBounds
  OBVIOUS
<1>1. /\ GoodStore(cache.entries) /\ Cardinality(DOMAIN cache.entries) <= EntriesCap
      /\ GoodStore(cache.stale) /\ Cardinality(DOMAIN cache.stale) <= StaleCap
  BY DEF CacheKept, CacheInv
<1>2. Cardinality(DOMAIN cache.stale) \in Nat
  BY <1>1, FS_CardinalityType DEF GoodStore
<1>3. Cardinality(DOMAIN cache.stale) <= StaleMaxEntries
  BY <1>1, <1>2, Capacities, DnsCacheAssumption
<1>4. WellFormed(cache.entries) /\ WellFormed(cache.stale)
  BY <1>1, GoodIsWellFormed
<1>5. Cardinality(DOMAIN cache.entries) <= (IF CacheSize = 0 THEN 1 ELSE CacheSize)
  BY <1>1, Capacities
<1> QED
  BY <1>3, <1>4, <1>5 DEF CacheBounds

\* Memory is bounded for every cache size: keys by the capacities, records by
\* MAX_RECORDS_PER_KEY, and no drained key stays resident.
THEOREM CacheBounded == CacheSpec => []CacheBounds
BY KeptBounded, CacheInductive, PTL

\* What the inductive invariant says of the stale records.
LEMMA KeptExpired == CacheKept => StaleIsExpired
<1> SUFFICES ASSUME CacheKept, NEW k \in DOMAIN cache.stale, NEW e \in cache.stale[k].val
             PROVE  is_expired(e, now)
  BY DEF StaleIsExpired
<1>1. k \in Key /\ e \in Records(cache.stale, k) /\ e \in Entry
  BY StoredRecords DEF CacheKept, CacheInv, GoodStore, IsStore
<1>2. e.exp <= now /\ e.exp \in Nat /\ now \in Nat
  BY <1>1 DEF CacheKept, CacheInv, ExpiresBy, Entry
<1> QED
  BY <1>2 DEF is_expired

\* Every record of the stale store has expired: serve-stale never answers, with
\* TTL 0, a record that is still live.
THEOREM OnlyExpiredIsStale == CacheSpec => []StaleIsExpired
BY KeptExpired, CacheInductive, PTL

\* What the inductive invariant says of the answers of lookup.
LEMMA KeptServed == CacheKept => ServedWithinLifetime
<1> SUFFICES ASSUME CacheKept, NEW k \in Key, NEW a \in found(cache, now, k)
             PROVE  \E e \in cache.entries[k].val :
                       /\ e.rdata = a.rdata
                       /\ now < e.exp
                       /\ now + a.ttl * Sec <= e.exp
                       /\ e.exp <= now + MaxTtl * Sec
  BY DEF ServedWithinLifetime
<1>1. PICK e \in Fresh(cache, now, k) :
          a = [key |-> k, rdata |-> e.rdata, ttl |-> ttl_remaining(e, now)]
  BY DEF found
<1>2. e \in Records(cache.entries, k) /\ ~ (now >= e.exp)
  BY DEF Fresh, is_expired
<1>3. k \in DOMAIN cache.entries /\ e \in cache.entries[k].val
  BY <1>2, StoredRecords
<1>4. e.exp \in Nat /\ now \in Nat /\ Sec \in Nat \ {0}
  BY <1>3, DnsCacheAssumption DEF CacheKept, CacheInv, GoodStore, IsStore, Entry
<1>5. e.exp <= now + MaxTtl * Sec
  BY <1>2 DEF CacheKept, CacheInv, ExpiresBy
<1>6. a.rdata = e.rdata /\ a.ttl = (e.exp - now) \div Sec
  BY <1>1 DEF ttl_remaining
<1>7. ((e.exp - now) \div Sec) * Sec <= e.exp - now
  BY <1>4
<1>8. ((e.exp - now) \div Sec) * Sec \in Int
  BY <1>4
<1> QED
  BY <1>2, <1>3, <1>4, <1>5, <1>6, <1>7, <1>8

\* What lookup answers is live, and its TTL never reaches past the expiry of the
\* record or the clamp.
THEOREM ServedInTime == CacheSpec => []ServedWithinLifetime
BY KeptServed, CacheInductive, PTL

-----------------------------------------------------------------------------
(***************************************************************************)
(* The action properties: where a record may go.                           *)
(***************************************************************************)
\* Renumbering a Vec keeps each of its records.
LEMMA RenumberHolds ==
    ASSUME NEW v, v \subseteq Entry, NEW e \in v
    PROVE  Holds(Renumber(v), e)
<1> DEFINE f == [e EXCEPT !.pos = Cardinality({g \in v : g.pos <= e.pos})]
<1>1. f \in Renumber(v)
  BY DEF Renumber
<1>2. f.rdata = e.rdata /\ f.exp = e.exp
  BY DEF Entry
<1> QED
  BY <1>1, <1>2 DEF Holds

\* Vec::push keeps the records there, and adds the new one.
LEMMA PushHolds ==
    ASSUME NEW v, NEW e \in Entry
    PROVE  /\ \A f \in v : Holds(Push(v, e), f)
           /\ \E f \in Push(v, e) : f.rdata = e.rdata
<1> DEFINE d == [e EXCEPT !.pos = Cardinality(v) + 1]
<1>1. Push(v, e) = v \cup {d} /\ d.rdata = e.rdata
  BY DEF Push, Entry
<1> QED
  BY <1>1 DEF Holds

\* The records of the other keys survive a put, unless their key is evicted.
LEMMA PutAccounts ==
    ASSUME NEW l, GoodStore(l), NEW k \in Key, NEW v, NEW cap \in Nat \ {0},
           Cardinality(DOMAIN l) <= cap, NEW j \in DOMAIN l, j # k
    PROVE  \/ Records(Put(l, k, v, cap), j) = Records(l, j)
           \/ Evicted(l, Put(l, k, v, cap), cap, j)
<1> DEFINE m == Oldest(l)
<1>1. CASE k \in DOMAIN l \/ Cardinality(DOMAIN l) < cap
  BY <1>1, AssignOthers DEF Put
<1>2. CASE ~ (k \in DOMAIN l \/ Cardinality(DOMAIN l) < cap)
  <2>1. Put(l, k, v, cap) = Assign(Pop(l, m), k, v)
    BY <1>2 DEF Put
  <2>2. Records(Put(l, k, v, cap), j) = Records(Pop(l, m), j)
    BY <2>1, AssignOthers
  <2>3. CASE j # m
    <3>1. Records(Pop(l, m), j) = Records(l, j)
      BY <2>3, RetainRecords DEF Pop
    <3> QED
      BY <2>2, <3>1
  <2>4. CASE j = m
    <3>1. Cardinality(DOMAIN l) = cap
      <4>1. Cardinality(DOMAIN l) \in Nat
        BY FS_CardinalityType DEF GoodStore
      <4> QED
        BY <1>2, <4>1
    <3>2. \A i \in DOMAIN l : l[j].rank <= l[i].rank
      BY <2>4, OldestIsOldest DEF GoodStore, IsStore
    <3>3. k \in DOMAIN Put(l, k, v, cap) /\ k \notin DOMAIN l
      BY <1>2, <2>1 DEF Assign
    <3> QED
      BY <3>1, <3>2, <3>3 DEF Evicted
  <2> QED
    BY <2>3, <2>4
<1> QED
  BY <1>1, <1>2

\* insert into a resident key keeps the key's records, or displaces the first
\* one of a full key.
LEMMA AddRecordAccounts ==
    ASSUME NEW v, GoodRecords(v), NEW e \in Entry, NEW f \in v
    PROVE  Holds(AddRecord(v, e), f) \/ Displaced(v, AddRecord(v, e), f)
<1>1. CASE \E g \in v : g.rdata = e.rdata
  BY <1>1 DEF AddRecord, Holds
<1>2. CASE ~ \E g \in v : g.rdata = e.rdata
  <2> DEFINE new == AddRecord(v, e)
             m == CHOOSE x \in v : \A g \in v : x.pos <= g.pos
  <2>1. v \subseteq Entry /\ Cardinality(v) \in Nat /\ Cardinality(v) <= MaxPerKey
    BY FS_CardinalityType DEF GoodRecords, FewRecords
  <2>2. CASE ~ (Cardinality(v) >= MaxPerKey)
    <3>1. new = Push(v, e)
      BY <1>2, <2>2 DEF AddRecord
    <3> QED
      BY <3>1, PushHolds
  <2>3. CASE Cardinality(v) >= MaxPerKey
    <3>1. new = Push(Renumber(v \ {m}), e)
      BY <1>2, <2>3 DEF AddRecord, DropFirst
    <3> HIDE DEF new
    <3>2. CASE f # m
      <4>1. Holds(Renumber(v \ {m}), f)
        BY <2>1, <3>2, RenumberHolds
      <4>2. \A g \in Renumber(v \ {m}) : Holds(new, g)
        BY <3>1, PushHolds
      <4>3. Holds(new, f)
        BY <4>1, <4>2 DEF Holds
      <4> QED
        BY <4>3 DEF new
    <3>3. CASE f = m
      <4>1. \A g \in v : f.pos <= g.pos
        BY <2>1, <3>3, FirstIsFirst
      <4>2. \E g \in new : g.rdata = e.rdata
        <5> DEFINE w == Renumber(v \ {m})
        <5>1. new = Push(w, e)
          BY <3>1
        <5> HIDE DEF w
        <5> QED
          BY <5>1, PushHolds
      <4>3. \E g \in new : ~ Holds(v, g)
        BY <1>2, <4>2 DEF Holds
      <4>4. Cardinality(v) = MaxPerKey
        BY <2>1, <2>3, DnsCacheAssumption
      <4> QED
        BY <4>1, <4>3, <4>4 DEF Displaced, new
    <3> QED
      BY <3>2, <3>3
  <2> QED
    BY <2>2, <2>3
<1> QED
  BY <1>1, <1>2

(***************************************************************************)
(* A step from c to d accounts for the records of both stores.             *)
(***************************************************************************)
EntriesAccounted(c, d, t) ==
    \A k \in DOMAIN c.entries : \A e \in c.entries[k].val :
        \/ Holds(Records(d.entries, k), e)
        \/ t >= e.exp /\ Holds(Records(d.stale, k), e)
        \/ Evicted(c.entries, d.entries, EntriesCap, k)
        \/ Displaced(c.entries[k].val, Records(d.entries, k), e)
        \/ d = NewCache

StaleAccounted(c, d, t) ==
    \A k \in DOMAIN c.stale : \A e \in c.stale[k].val :
        usable(e, t) =>
            \/ Holds(Records(d.stale, k), e)
            \/ /\ k \in DOMAIN d.stale
               /\ \A f \in d.stale[k].val : e.exp < f.exp /\ f.exp <= t
            \/ Evicted(c.stale, d.stale, StaleCap, k)
            \/ d = NewCache

\* A store that a method leaves alone loses nothing.
LEMMA SameAccounts ==
    ASSUME NEW c, NEW d, NEW t
    PROVE  /\ d.entries = c.entries => EntriesAccounted(c, d, t)
           /\ d.stale = c.stale => StaleAccounted(c, d, t)
BY DEF EntriesAccounted, StaleAccounted, Records, Holds

\* insert: a record stays, or is evicted or displaced.
LEMMA InsertAccounts ==
    ASSUME NEW c, NEW t \in Nat, CacheInv(c, t),
           NEW r \in [key : Key, rdata : RData, ttl : Nat]
    PROVE  /\ EntriesAccounted(c, insert(c, t, r), t)
           /\ StaleAccounted(c, insert(c, t, r), t)
<1>1. CASE r.ttl = 0
  BY <1>1, SameAccounts DEF insert
<1>2. CASE r.ttl # 0
  <2> DEFINE e == CacheEntry(r, t)
             k == r.key
             new == IF k \in DOMAIN c.entries
                    THEN Assign(c.entries, k, AddRecord(c.entries[k].val, e))
                    ELSE Put(c.entries, k, {e}, EntriesCap)
             d == insert(c, t, r)
  <2>1. d = [c EXCEPT !.entries = new]
    BY <1>2 DEF insert
  <2>2. d.entries = new /\ d.stale = c.stale
    BY <2>1 DEF CacheInv
  <2>3. e \in Entry /\ k \in Key
    BY <1>2, CacheEntryGood
  <2>4. GoodStore(c.entries) /\ Cardinality(DOMAIN c.entries) <= EntriesCap
    BY DEF CacheInv
  <2> HIDE DEF e, k, d
  <2>5. ASSUME NEW j \in DOMAIN c.entries, NEW f \in c.entries[j].val
        PROVE  \/ Holds(Records(d.entries, j), f)
               \/ Evicted(c.entries, d.entries, EntriesCap, j)
               \/ Displaced(c.entries[j].val, Records(d.entries, j), f)
    <3>1. f \in Records(c.entries, j) /\ Records(c.entries, j) = c.entries[j].val
      BY StoredRecords
    <3>2. CASE k \in DOMAIN c.entries /\ j # k
      BY <2>2, <3>1, <3>2, AssignOthers DEF Holds
    <3>3. CASE k \in DOMAIN c.entries /\ j = k
      <4> DEFINE v == c.entries[k].val
      <4>1. GoodRecords(v) /\ f \in v
        BY <2>4, <3>1, <3>3 DEF GoodStore
      <4>2. Records(d.entries, j) = AddRecord(v, e)
        BY <2>2, <3>3, AssignRecords
      <4> HIDE DEF v
      <4>3. Holds(AddRecord(v, e), f) \/ Displaced(v, AddRecord(v, e), f)
        BY <2>3, <4>1, AddRecordAccounts
      <4> QED
        BY <3>3, <4>2, <4>3 DEF v
    <3>4. CASE k \notin DOMAIN c.entries
      <4>1. d.entries = Put(c.entries, k, {e}, EntriesCap) /\ j # k
        BY <2>2, <3>4
      <4>2. \/ Records(d.entries, j) = Records(c.entries, j)
            \/ Evicted(c.entries, d.entries, EntriesCap, j)
        BY <2>3, <2>4, <4>1, PutAccounts, Capacities
      <4> QED
        BY <3>1, <4>2 DEF Holds
    <3> QED
      BY <3>2, <3>3, <3>4
  <2>6. EntriesAccounted(c, d, t)
    BY <2>5 DEF EntriesAccounted
  <2>7. StaleAccounted(c, d, t)
    BY <2>2, SameAccounts
  <2> QED
    BY <2>6, <2>7 DEF d
<1> QED
  BY <1>1, <1>2
\* lookup: a live record stays, an expired one of the key moves; a stale record
\* is overwritten by what expired after it, or evicted.
LEMMA LookupAccounts ==
    ASSUME NEW c, NEW t \in Nat, CacheInv(c, t), NEW k \in Key
    PROVE  /\ EntriesAccounted(c, lookup(c, t, k), t)
           /\ StaleAccounted(c, lookup(c, t, k), t)
<1> DEFINE fresh == Fresh(c, t, k)
           gone == Expired(c, t, k)
           entries1 == IF fresh # {} THEN Assign(c.entries, k, Renumber(fresh))
                                     ELSE Pop(c.entries, k)
           d == lookup(c, t, k)
<1>1. d.entries = entries1 /\ d.stale = MoveToStale(c, t, k)
  BY DEF lookup
<1>2. GoodStore(c.stale) /\ Cardinality(DOMAIN c.stale) <= StaleCap
  BY DEF CacheInv
<1>3. Records(c.entries, k) \subseteq Entry
  BY StoredRecords DEF CacheInv, GoodStore, GoodRecords, FewRecords
<1>4. fresh \subseteq Entry /\ gone \subseteq Entry
  BY <1>3 DEF Fresh, Expired
<1>5. \A f \in gone : Holds(Records(d.stale, k), f)
  <2> SUFFICES ASSUME NEW f \in gone
               PROVE  Holds(Records(d.stale, k), f)
    OBVIOUS
  <2>1. d.stale = Put(c.stale, k, Renumber(gone), StaleCap)
    BY <1>1 DEF MoveToStale
  <2> HIDE DEF gone
  <2>2. Records(d.stale, k) = Renumber(gone)
    BY <2>1, AssignRecords DEF Put
  <2> QED
    BY <1>4, <2>2, RenumberHolds
<1>6. \A f \in fresh : Holds(Records(d.entries, k), f)
  <2> SUFFICES ASSUME NEW f \in fresh
               PROVE  Holds(Records(d.entries, k), f)
    OBVIOUS
  <2>1. d.entries = Assign(c.entries, k, Renumber(fresh))
    BY <1>1
  <2> HIDE DEF fresh
  <2>2. Records(d.entries, k) = Renumber(fresh)
    BY <2>1, AssignRecords
  <2> QED
    BY <1>4, <2>2, RenumberHolds
<1>7. \A j : j # k => Records(d.entries, j) = Records(c.entries, j)
  <2> SUFFICES ASSUME NEW j, j # k
               PROVE  Records(d.entries, j) = Records(c.entries, j)
    OBVIOUS
  <2>1. Records(Assign(c.entries, k, Renumber(fresh)), j) = Records(c.entries, j)
    BY AssignOthers
  <2>2. Records(Pop(c.entries, k), j) = Records(c.entries, j)
    BY DEF Pop, Retain, Records
  <2> QED
    BY <1>1, <2>1, <2>2
<1>8. \A j \in DOMAIN c.stale : j # k =>
          \/ Records(d.stale, j) = Records(c.stale, j)
          \/ Evicted(c.stale, d.stale, StaleCap, j)
  <2>1. CASE gone = {}
    BY <1>1, <2>1 DEF MoveToStale
  <2>2. CASE gone # {}
    <3> DEFINE w == Renumber(gone)
    <3>1. d.stale = Put(c.stale, k, w, StaleCap)
      BY <1>1, <2>2 DEF MoveToStale
    <3> HIDE DEF w, d
    <3> QED
      BY <1>2, <3>1, PutAccounts, Capacities
  <2> QED
    BY <2>1, <2>2
<1>9. gone = {} => d.stale = c.stale
  BY <1>1 DEF MoveToStale
<1>10. \A f \in Records(c.entries, k) : f \in fresh \/ (f \in gone /\ t >= f.exp)
  BY DEF Fresh, Expired, is_expired
<1> HIDE DEF fresh, d
<1>11. EntriesAccounted(c, d, t)
  <2> SUFFICES ASSUME NEW j \in DOMAIN c.entries, NEW e \in c.entries[j].val
               PROVE  \/ Holds(Records(d.entries, j), e)
                      \/ t >= e.exp /\ Holds(Records(d.stale, j), e)
    BY DEF EntriesAccounted
  <2>1. e \in Records(c.entries, j)
    BY StoredRecords
  <2> QED
    BY <1>5, <1>6, <1>7, <1>10, <2>1 DEF Holds
<1>12. StaleAccounted(c, d, t)
  <2> SUFFICES ASSUME NEW j \in DOMAIN c.stale, NEW e \in c.stale[j].val
               PROVE  \/ Holds(Records(d.stale, j), e)
                      \/ /\ j \in DOMAIN d.stale
                         /\ \A f \in d.stale[j].val : e.exp < f.exp /\ f.exp <= t
                      \/ Evicted(c.stale, d.stale, StaleCap, j)
    BY DEF StaleAccounted
  <2>1. e \in Records(c.stale, j)
    BY StoredRecords
  <2>2. Holds(Records(c.stale, j), e)
    BY <2>1 DEF Holds
  <2>3. CASE j = k /\ gone # {}
    <3>1. d.stale = Put(c.stale, k, Renumber(gone), StaleCap)
      BY <1>1, <2>3 DEF MoveToStale, d
    <3>2. k \in DOMAIN d.stale /\ d.stale[k].val = Renumber(gone)
      BY <3>1 DEF Put, Assign
    <3>3. ASSUME NEW f \in Renumber(gone)
          PROVE  e.exp < f.exp /\ f.exp <= t
      <4>1. PICK g \in gone : f = [g EXCEPT !.pos = Cardinality({h \in gone : h.pos <= g.pos})]
        BY <3>3 DEF Renumber
      <4>2. g \in Records(c.entries, k) /\ g \in Entry /\ g.exp <= t
        BY <1>4, <4>1 DEF Expired, is_expired, Entry
      <4>3. e.exp < g.exp
        BY <2>1, <2>3, <4>2 DEF CacheInv, Older
      <4>4. f.exp = g.exp
        BY <4>1, <4>2 DEF Entry
      <4> QED
        BY <4>2, <4>3, <4>4
    <3> QED
      BY <2>3, <3>2, <3>3
  <2>4. CASE j # k \/ gone = {}
    BY <1>8, <1>9, <2>2, <2>4
  <2> QED
    BY <2>3, <2>4
<1> QED
  BY <1>11, <1>12 DEF d

\* lookup_stale: a record young enough to be served is not taken.
LEMMA LookupStaleAccounts ==
    ASSUME NEW c, NEW t \in Nat, CacheInv(c, t), NEW k \in Key
    PROVE  /\ EntriesAccounted(c, lookup_stale(c, t, k), t)
           /\ StaleAccounted(c, lookup_stale(c, t, k), t)
<1> DEFINE d == lookup_stale(c, t, k)
           some == \E e \in Records(c.stale, k) : usable(e, t)
<1>1. /\ d.entries = c.entries
      /\ d.stale = IF some THEN Touch(c.stale, k) ELSE Pop(c.stale, k)
  BY DEF lookup_stale, CacheInv
<1> HIDE DEF d
<1>2. ASSUME NEW j \in DOMAIN c.stale, NEW e \in c.stale[j].val, usable(e, t)
      PROVE  Holds(Records(d.stale, j), e)
  <2>1. e \in Records(c.stale, j)
    BY StoredRecords
  <2>2. CASE j # k
    <3>1. Records(Pop(c.stale, k), j) = Records(c.stale, j)
      BY <2>2 DEF Pop, Retain, Records
    <3>2. Records(Touch(c.stale, k), j) = Records(c.stale, j)
      BY <2>2, AssignOthers DEF Touch
    <3> QED
      BY <1>1, <2>1, <3>1, <3>2 DEF Holds
  <2>3. CASE j = k
    <3>1. d.stale = Assign(c.stale, k, c.stale[k].val)
      BY <1>1, <1>2, <2>1, <2>3 DEF Touch
    <3>2. Records(d.stale, j) = c.stale[k].val
      BY <3>1, <2>3, AssignRecords
    <3> QED
      BY <3>2, <2>3 DEF Holds
  <2> QED
    BY <2>2, <2>3
<1>3. StaleAccounted(c, d, t)
  BY <1>2 DEF StaleAccounted
<1> QED
  BY <1>1, <1>3, SameAccounts DEF d

\* purge_expired: only keys without a record young enough are dropped.
LEMMA PurgeAccounts ==
    ASSUME NEW c, NEW t \in Nat, CacheInv(c, t)
    PROVE  /\ EntriesAccounted(c, purge_expired(c, t), t)
           /\ StaleAccounted(c, purge_expired(c, t), t)
<1> DEFINE d == purge_expired(c, t)
           S == {j \in DOMAIN c.stale : \E e \in c.stale[j].val : usable(e, t)}
<1>1. d.entries = c.entries /\ d.stale = Retain(c.stale, S)
  BY DEF purge_expired, CacheInv
<1>2. ASSUME NEW j \in DOMAIN c.stale, NEW e \in c.stale[j].val, usable(e, t)
      PROVE  Holds(Records(d.stale, j), e)
  BY <1>1, <1>2, RetainRecords, StoredRecords DEF Holds
<1> HIDE DEF d
<1>3. StaleAccounted(c, d, t)
  BY <1>2 DEF StaleAccounted
<1> QED
  BY <1>1, <1>3, SameAccounts DEF d
\* Every step accounts for the records of both stores.
LEMMA StepAccounts ==
    ASSUME CacheKept, [CacheNext]_cache_vars
    PROVE  EntriesAccounted(cache, cache', now) /\ StaleAccounted(cache, cache', now)
<1> USE DEF CacheKept
<1>1. ASSUME NEW r \in ResourceRecord, Insert(r)
      PROVE  EntriesAccounted(cache, cache', now) /\ StaleAccounted(cache, cache', now)
  <2>1. r \in [key : Key, rdata : RData, ttl : Nat]
    BY DnsCacheSpecAssumption DEF ResourceRecord
  <2> QED
    BY <1>1, <2>1, InsertAccounts DEF Insert
<1>2. ASSUME NEW k \in Key, Lookup(k)
      PROVE  EntriesAccounted(cache, cache', now) /\ StaleAccounted(cache, cache', now)
  BY <1>2, LookupAccounts DEF Lookup
<1>3. ASSUME NEW k \in Key, LookupStale(k)
      PROVE  EntriesAccounted(cache, cache', now) /\ StaleAccounted(cache, cache', now)
  BY <1>3, LookupStaleAccounts DEF LookupStale
<1>4. CASE PurgeExpired
  BY <1>4, PurgeAccounts DEF PurgeExpired
<1>5. CASE Clear
  BY <1>5 DEF Clear, clear, EntriesAccounted, StaleAccounted
<1>6. CASE CacheTick \/ UNCHANGED cache_vars
  BY <1>6, SameAccounts DEF CacheTick, cache_vars
<1> QED
  BY <1>1, <1>2, <1>3, <1>4, <1>5, <1>6 DEF CacheNext

\* No step loses a record of the main store, for every capacity, record limit
\* and clamp: insert, lookup, lookup_stale, purge_expired and clear account for
\* each one as RecordsAccountedFor says.
THEOREM NothingLost == CacheSpec => RecordsAccountedFor
<1> DEFINE Step == EntriesAccounted(cache, cache', now)
<1>1. CacheKept /\ [CacheNext]_cache_vars => Step
  BY StepAccounts
<1>2. CacheSpec => []CacheKept
  BY CacheInductive
<1>3. CacheSpec => [][Step]_cache_vars
  BY <1>1, <1>2, PTL DEF CacheSpec
<1> QED
  BY <1>3 DEF EntriesAccounted, RecordsAccountedFor

\* No step takes a record that serve-stale can still answer, except as
\* StaleRecordsKept says: an overwrite by records of the key that all expired later,
\* an eviction of the least recently used key, or a flush.  The overwrite needs Older:
\* what is in the stale store expired before every record of the key still in the
\* main one, since lookup moves all the expired records of a key together.
THEOREM StaleKept == CacheSpec => StaleRecordsKept
<1> DEFINE Step == StaleAccounted(cache, cache', now)
<1>1. CacheKept /\ [CacheNext]_cache_vars => Step
  BY StepAccounts
<1>2. CacheSpec => []CacheKept
  BY CacheInductive
<1>3. CacheSpec => [][Step]_cache_vars
  BY <1>1, <1>2, PTL DEF CacheSpec
<1> QED
  BY <1>3 DEF StaleAccounted, StaleRecordsKept
=============================================================================
