---------------------------- MODULE MCToolingCache ----------------------------
(***************************************************************************)
(* Instances of ToolingCache for TLC.                                      *)
(***************************************************************************)
EXTENDS ToolingCache

CONSTANTS r1, r2, r3, k1, k2

\* Two runs of one version of the inputs, and one of the next version.
TwoVersions == [r \in {r1, r2, r3} |-> IF r = r3 THEN k2 ELSE k1]
FirstOnly == [r \in {r1, r2, r3} |-> r = r1]
Nobody == [r \in {r1, r2, r3} |-> FALSE]
=============================================================================
