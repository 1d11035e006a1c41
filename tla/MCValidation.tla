---------------------------- MODULE MCValidation ----------------------------
(***************************************************************************)
(* Two names one label below the apex of their zone, one of them made from *)
(* a wildcard, and a key whose algorithm is not known between two that     *)
(* are.  One clock starts just before the counter of seconds wraps around; *)
(* the other is behind the zone's by less than FUDGE, and wraps, or adds   *)
(* FUDGE past the wrap, while the zone's signatures are young.             *)
(***************************************************************************)
EXTENDS Validation

Labels == [n \in {"host", "any"} |-> 1]
Forms == [n \in {"host", "any"} |-> IF n = "host" THEN "plain" ELSE "wildcard"]
TwoClocks == {[start |-> 15, skew |-> 0], [start |-> 14, skew |-> 1]}
=============================================================================
