----------------------------- MODULE MCResolver -----------------------------
(* Small instances of Resolver for TLC. *)
EXTENDS Resolver, TLC

\* Messages with at most one record of the keys.
SingleRecords ==
    {<< >>} \cup
    {<<[key |-> k, rdata |-> d, ttl |-> l]>> : k \in Key, d \in RData, l \in Ttl}

\* Messages with at most two, of one key or of two.
UpToTwoRecords == {a \o b : a, b \in SingleRecords}

Symmetry ==
    Permutations(Client) \cup Permutations(RData) \cup Permutations(Key)
=============================================================================
