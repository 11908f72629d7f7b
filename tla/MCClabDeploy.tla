---------------------------- MODULE MCClabDeploy ----------------------------
(***************************************************************************)
(* Instances of ClabDeploy for TLC.  The lines are one without a mark, an  *)
(* ERRO line, an ERRO line that is also retryable and a retryable line     *)
(* that is no ERRO line.                                                   *)
(***************************************************************************)
EXTENDS ClabDeployProps

MCLines == {{}, {"ERRO"}, {"ERRO", "statfs"}, {"fileExists"}}
=============================================================================
