--------------------------- MODULE ClabDeployProps ---------------------------
(***************************************************************************)
(* What must hold of the deploy loop of ClabDeploy.                        *)
(***************************************************************************)
EXTENDS ClabDeploy

\* An attempt is accepted only if its containerlab exited with status 0 before
\* the deploy timeout fired, and, when the watcher read its output to the end,
\* only if none of that output was an ERRO line (deploy-clab.sh, the test behind
\* run_containerlab_deploy_once in deploy_lab).
AcceptedIsClean ==
    pc \in {"inspect", "done"} =>
        /\ clab = "ok"
        /\ ~timedOut
        /\ readEnd = "eof" => "ERRO" \notin wrote

\* Where setsid exists, an attempt is over when the watcher says so: whenever the
\* script judges an attempt, cleans up, touches the bridges, starts the next
\* attempt or ends, none of the processes it started is alive.
Outside == {"judge", "cleanup", "bridges", "loop", "inspect"} \cup Stopped

NothingLeftRunning ==
    hasSetsid /\ pc \in Outside => leader # "alive" /\ clab # "alive" /\ ~stray

\* A lab is taken down for another attempt only for a cause that the attempt just
\* judged has itself given: a netns or link error it wrote, its deploy timeout or
\* its idle timeout.  Nothing left in the log by an earlier attempt counts.
RetryCause ==
    \/ wrote \cap {"statfs", "fileExists"} # {}
    \/ timedOut
    \/ sawIdle
RetryHasCause == [][pc = "judge" /\ pc' = "cleanup" => RetryCause]_vars

\* Only a cleanup that follows an attempt which was not accepted ever takes a
\* complete lab away again: from the moment an attempt is accepted the lab stays
\* complete until the script ends.
AcceptedLabStays ==
    hasSetsid /\ pc \in {"inspect", "done"} => lab = "full"

\* No attempt keeps deploy_lab waiting for ever, whatever its containerlab does,
\* unless it writes output for ever: silence is cut off by the idle timeout, and the
\* watcher then waits only for a process it has killed.  So deploy_lab ends, unless
\* it hangs in the cleanup between two attempts or in the inspection at the end,
\* whose commands (`docker rm -f`, `containerlab inspect`) have no timeout.
OutputEnds == <>[][~ClabWrites]_vars
HangsOutside == <>[](pc = "cleanup") \/ <>[](pc = "inspect")
DeployEnds == OutputEnds => <>(pc \in Stopped) \/ HangsOutside

\* deploy_lab implements the contract of its caller, with or without setsid.
Outcome == CASE pc = "done" -> "deployed"
             [] pc = "failed" -> "failed"
             [] OTHER -> "pending"
Contract == INSTANCE DeployContract
                WITH MaxTries <- DeployAttempts, outcome <- Outcome,
                     tries <- attempt, lab <- lab, grouped <- hasSetsid
ImplementsContract == Contract!Spec

-----------------------------------------------------------------------------
\* ERRO output is fail-closed: an attempt whose containerlab wrote an ERRO line
\* is never accepted.
ErroFailsClosed == pc \in {"inspect", "done"} => "ERRO" \notin wrote
=============================================================================
