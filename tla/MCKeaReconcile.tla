--------------------------- MODULE MCKeaReconcile ---------------------------
(***************************************************************************)
(* Instances of KeaReconcile for TLC: two scopes of a container.           *)
(***************************************************************************)
EXTENDS KeaReconcile

CONSTANTS s1, s2

MCScripts == <<s1, s2>>
BothFamilies == [s \in {s1, s2} |-> IF s = s1 THEN 67 ELSE 547]
=============================================================================
