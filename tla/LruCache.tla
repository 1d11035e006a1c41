------------------------------ MODULE LruCache ------------------------------
(***************************************************************************)
(* The bounded map of the `lru` crate, as the resolver uses it.            *)
(*                                                                         *)
(* An LruCache is a function from its resident keys to [val, rank].  The   *)
(* rank orders the keys by recency: the smallest rank is the next victim.  *)
(* Ranks are kept compact (1 .. number of keys), so that two caches with   *)
(* the same content and the same recency order are the same value.         *)
(***************************************************************************)
EXTENDS Integers, FiniteSets

EmptyLru == << >>

\* The keys in S with their values, in their old recency order.
Retain(l, S) ==
    [k \in S |-> [val  |-> l[k].val,
                  rank |-> Cardinality({j \in S : l[j].rank <= l[k].rank})]]

\* pop_entry: forget one key (no effect when it is absent).
Pop(l, k) == Retain(l, DOMAIN l \ {k})

\* get_mut followed by a write through the reference: the key becomes the most
\* recently used one and holds v.
Assign(l, k, v) ==
    LET others == Pop(l, k)
    IN  [j \in DOMAIN l \cup {k} |->
            IF j = k
            THEN [val |-> v, rank |-> Cardinality(DOMAIN others) + 1]
            ELSE others[j]]

\* get: the key, when it is resident, becomes the most recently used one.
Touch(l, k) == IF k \in DOMAIN l THEN Assign(l, k, l[k].val) ELSE l

\* The least recently used key.
Oldest(l) == CHOOSE k \in DOMAIN l : \A j \in DOMAIN l : l[k].rank <= l[j].rank

\* put: insert or overwrite.  A new key in a full cache evicts the oldest one.
Put(l, k, v, cap) ==
    IF k \in DOMAIN l \/ Cardinality(DOMAIN l) < cap
    THEN Assign(l, k, v)
    ELSE Assign(Pop(l, Oldest(l)), k, v)
=============================================================================
