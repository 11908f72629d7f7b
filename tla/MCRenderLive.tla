---------------------------- MODULE MCRenderLive ----------------------------
(***************************************************************************)
(* Instances of RenderLive: the boot unit and one run by hand, whose       *)
(* topologies differ.                                                      *)
(***************************************************************************)
EXTENDS RenderLive

CONSTANTS boot, manual, bootDir, manualDir, n1, n2

MCWorkDir == [r \in {boot, manual} |-> IF r = boot THEN bootDir ELSE manualDir]
MCTopology == [d \in {bootDir, manualDir} |-> IF d = bootDir THEN {n1, n2} ELSE {n1}]
=============================================================================
