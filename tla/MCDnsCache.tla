----------------------------- MODULE MCDnsCache -----------------------------
(* Small instances of DnsCacheSpec for TLC. *)
EXTENDS DnsCacheSpec, TLC

Symmetry == Permutations(Key) \cup Permutations(RData)
=============================================================================
