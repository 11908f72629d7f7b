------------------------------ MODULE ClabDeploy ------------------------------
(***************************************************************************)
(* deploy_lab and run_containerlab_deploy_once of deploy-clab.sh: the      *)
(* attempt loop, the watcher that reads Containerlab's output from a fifo, *)
(* and the two processes at the other end of it.                           *)
(*                                                                         *)
(* The watcher is a shell.  What it runs in the background is              *)
(*     [setsid] timeout --foreground N containerlab deploy ...             *)
(* so the pid it signals, probes and waits for is the pid of `timeout`     *)
(* (the leader); `containerlab` is the leader's child.  Both hold the      *)
(* write end of the fifo.  The kernel closes an exiting process's files    *)
(* before it makes the process a zombie that the shell can reap, so there  *)
(* is a state, "closed", in which the leader no longer holds the fifo and  *)
(* `kill -0` still succeeds.                                               *)
(*                                                                         *)
(* An output line is the set of marks the script greps for; the log file   *)
(* is the union of the lines copied into it.                               *)
(***************************************************************************)
EXTENDS Naturals, Sequences

CONSTANTS
    DeployAttempts,   \* CLAB_DEPLOY_ATTEMPTS
    Lines,            \* the output lines Containerlab may write
    FifoLines         \* bound: lines the fifo holds before a writer blocks

Marks == {"ERRO", "statfs", "fileExists"}

\* With CLAB_DEPLOY_ATTEMPTS=0 the loop has no iteration and the script fails at
\* once; that case is left out.
ASSUME DeployAttemptsAssumption == DeployAttempts \in Nat \ {0}
ASSUME LinesAssumption == Lines \subseteq SUBSET Marks
ASSUME FifoLinesAssumption == FifoLines \in Nat \ {0}

VARIABLES
    pc,        \* where the script is
    attempt,   \* attempts started so far
    fifo,      \* lines written and not yet read
    log,       \* marks in deploy_log
    sawErro,   \* saw_erro
    sawIdle,   \* saw_idle_timeout
    rc,        \* what run_containerlab_deploy_once returned
    leader,    \* the `timeout` process
    leaderRc,  \* its exit status
    timedOut,  \* its timer has fired
    clab,      \* its child, the `containerlab` process
    hasSetsid, \* whether `command -v setsid` finds it
    stray,     \* a containerlab of an earlier attempt outlived its leader
    lab,       \* what exists of the lab on the host
    wrote,     \* history: marks written by this attempt's containerlab
    readEnd    \* history: why the read loop of this attempt ended

scriptVars  == <<pc, attempt, log, sawErro, sawIdle, rc>>
processVars == <<leader, leaderRc, timedOut, clab, hasSetsid, stray>>
vars == <<scriptVars, fifo, processVars, lab, wrote, readEnd>>

PCs == {"cleanup", "bridges", "loop", "read", "probe", "term", "kill", "wait",
        "judge", "inspect", "done", "failed"}
Stopped == {"done", "failed"}

\* The read end of the fifo is open from the start of the read loop until the
\* shell closes it in front of `wait`.
ReaderOpen == pc \in {"read", "probe", "term", "kill"}

\* A reader sees end-of-file when no process holds the write end any more.
WritersGone == leader # "alive" /\ clab # "alive"

\* The loop has a further attempt to make.
AttemptsLeftOffByOne == attempt <= DeployAttempts
AttemptsLeft == attempt < DeployAttempts

\* `: >"${deploy_log}"` in front of an attempt.
LogKept == log
FreshLog == {}

\* `kill -- "-${deploy_pid}"` names a process group only if setsid made one.
KillsLeaderOnly == FALSE
KillsGroup == hasSetsid

Retryable ==
    \/ "statfs" \in log
    \/ "fileExists" \in log
    \/ rc \in {124, 67}

TypeOK ==
    /\ pc \in PCs
    /\ attempt \in 0 .. DeployAttempts
    /\ fifo \in Seq(SUBSET Marks)
    /\ log \in SUBSET Marks
    /\ sawErro \in BOOLEAN
    /\ sawIdle \in BOOLEAN
    /\ rc \in {0, 1, 66, 67, 124}
    /\ leader \in {"none", "alive", "closed", "gone"}
    /\ leaderRc \in {0, 1, 124}
    /\ timedOut \in BOOLEAN
    /\ clab \in {"none", "alive", "ok", "error"}
    /\ hasSetsid \in BOOLEAN /\ stray \in BOOLEAN
    /\ lab \in {"absent", "partial", "full"}
    /\ wrote \in SUBSET Marks
    /\ readEnd \in {"none", "ERRO", "eof", "timeout"}

-----------------------------------------------------------------------------
\* The script reaches deploy_lab after a first cleanup and a first
\* materialisation of the bridges; a lab of an earlier run may still exist.
Init ==
    /\ pc = "cleanup"
    /\ attempt = 0
    /\ fifo = <<>>
    /\ log = {}
    /\ sawErro = FALSE /\ sawIdle = FALSE /\ rc = 0
    /\ leader = "none" /\ leaderRc = 0 /\ timedOut = FALSE
    /\ clab = "none" /\ hasSetsid \in BOOLEAN /\ stray = FALSE
    /\ lab \in {"absent", "partial", "full"}
    /\ wrote = {} /\ readEnd = "none"

\* cleanup_stale_lab: both commands end in `|| true`, so a destroy that fails or
\* times out goes unnoticed and leaves what was there.
CleanupStaleLab ==
    /\ pc = "cleanup"
    /\ pc' = "bridges"
    /\ lab' \in {"absent", lab} \cup (IF lab = "full" THEN {"partial"} ELSE {})
    /\ UNCHANGED <<attempt, log, sawErro, sawIdle, rc, fifo, processVars, wrote,
                   readEnd>>

\* materialize_bridges, then the retry delay; any command that fails ends the
\* script (set -e, fail).
MaterializeBridges ==
    /\ pc = "bridges"
    /\ pc' \in {"loop", "failed"}
    /\ UNCHANGED <<attempt, log, sawErro, sawIdle, rc, fifo, processVars, lab,
                   wrote, readEnd>>

\* The next attempt: truncate the log, make the fifo, start the two processes.
\* `deploy --reconfigure` removes what exists before it builds.
StartAttempt ==
    /\ pc = "loop"
    /\ AttemptsLeft
    /\ pc' = "read"
    /\ attempt' = attempt + 1
    /\ log' = FreshLog
    /\ sawErro' = FALSE /\ sawIdle' = FALSE
    /\ fifo' = <<>>
    /\ leader' = "alive" /\ leaderRc' = 0 /\ timedOut' = FALSE
    /\ clab' = "alive"
    /\ lab' = "partial"
    /\ wrote' = {} /\ readEnd' = "none"
    /\ UNCHANGED <<rc, hasSetsid, stray>>

\* `read` returns a line; it is logged and, if it is an ERRO line, stops the loop.
ReadLine ==
    /\ pc = "read"
    /\ fifo # <<>>
    /\ fifo' = Tail(fifo)
    /\ log' = log \cup Head(fifo)
    /\ sawErro' = ("ERRO" \in Head(fifo))
    /\ pc' = IF "ERRO" \in Head(fifo) THEN "term" ELSE "read"
    /\ readEnd' = IF "ERRO" \in Head(fifo) THEN "ERRO" ELSE readEnd
    /\ UNCHANGED <<attempt, sawIdle, rc, processVars, lab, wrote>>

\* `read -t` fails: at end-of-file, or because the idle time has passed without
\* a line.  The script does not look at which of the two it was.
ReadFails ==
    /\ pc = "read"
    /\ fifo = <<>>
    /\ pc' = "probe"
    /\ readEnd' = IF WritersGone THEN "eof" ELSE "timeout"
    /\ UNCHANGED <<attempt, log, sawErro, sawIdle, rc, fifo, processVars, lab,
                   wrote>>

\* `kill -0` on the leader decides whether the failed read is an idle timeout.
ProbeDeployPid ==
    /\ pc = "probe"
    /\ sawIdle' = (leader \in {"alive", "closed"})
    /\ pc' = IF leader \in {"alive", "closed"} THEN "term" ELSE "wait"
    /\ UNCHANGED <<attempt, log, sawErro, rc, fifo, processVars, lab, wrote,
                   readEnd>>

\* stop_containerlab_deploy, first half: TERM.  `timeout` passes it on, and
\* Containerlab may obey, take its time or ignore it (ClabExits is free).
StopTerm ==
    /\ pc = "term"
    /\ pc' = "kill"
    /\ UNCHANGED <<attempt, log, sawErro, sawIdle, rc, fifo, processVars, lab,
                   wrote, readEnd>>

StopWithoutKill ==
    /\ pc = "kill"
    /\ pc' = "wait"
    /\ UNCHANGED <<attempt, log, sawErro, sawIdle, rc, fifo, processVars, lab,
                   wrote, readEnd>>

\* Second half, a second later: KILL.  Started by setsid the leader's pid names a
\* process group and both die; otherwise there is no such group, only the leader
\* dies, and a containerlab that is still alive becomes a stray.
StopKill ==
    /\ pc = "kill"
    /\ pc' = "wait"
    /\ leader' = IF leader = "alive" THEN "closed" ELSE leader
    /\ leaderRc' = IF leader = "alive" THEN 1 ELSE leaderRc
    /\ clab' = IF clab = "alive" THEN "error" ELSE clab
    /\ stray' = (stray \/ (clab = "alive" /\ ~KillsGroup))
    /\ UNCHANGED <<attempt, log, sawErro, sawIdle, rc, timedOut, fifo,
                   hasSetsid, lab, wrote, readEnd>>

\* Close the fifo, wait for the leader, return 66, 67 or its status.
WaitDeployPid ==
    /\ pc = "wait"
    /\ leader = "gone"
    /\ pc' = "judge"
    /\ rc' = CASE sawErro -> 66
               [] ~sawErro /\ sawIdle -> 67
               [] OTHER -> leaderRc
    /\ UNCHANGED <<attempt, log, sawErro, sawIdle, fifo, processVars, lab, wrote,
                   readEnd>>

\* The test that accepts an attempt.
CleanLogOnly == "ERRO" \notin log
CleanAttempt == rc = 0 /\ "ERRO" \notin log

AcceptAttempt ==
    /\ pc = "judge"
    /\ CleanAttempt
    /\ pc' = "inspect"
    /\ UNCHANGED <<attempt, log, sawErro, sawIdle, rc, fifo, processVars, lab,
                   wrote, readEnd>>

RetryAttempt ==
    /\ pc = "judge"
    /\ ~CleanAttempt
    /\ Retryable
    /\ AttemptsLeft
    /\ pc' = "cleanup"
    /\ UNCHANGED <<attempt, log, sawErro, sawIdle, rc, fifo, processVars, lab,
                   wrote, readEnd>>

GiveUp ==
    /\ pc = "judge"
    /\ ~CleanAttempt
    /\ ~(Retryable /\ AttemptsLeft)
    /\ pc' = "failed"
    /\ UNCHANGED <<attempt, log, sawErro, sawIdle, rc, fifo, processVars, lab,
                   wrote, readEnd>>

\* `containerlab inspect` under set -e.
InspectLab ==
    /\ pc = "inspect"
    /\ pc' \in {"done", "failed"}
    /\ UNCHANGED <<attempt, log, sawErro, sawIdle, rc, fifo, processVars, lab,
                   wrote, readEnd>>

-----------------------------------------------------------------------------
\* The processes.  Containerlab writes a line while the fifo has room ...
ClabWrites ==
    /\ clab = "alive"
    /\ ReaderOpen
    /\ Len(fifo) < FifoLines
    /\ \E line \in Lines :
          /\ fifo' = Append(fifo, line)
          /\ wrote' = wrote \cup line
    /\ UNCHANGED <<scriptVars, processVars, lab, readEnd>>

\* ... and exits: with status 0 when the lab is complete, with another one
\* whenever it fails, obeys a TERM or writes to a fifo nobody reads.
ClabExits ==
    /\ clab = "alive"
    /\ \/ clab' = "ok" /\ lab' = "full"
       \/ clab' = "error" /\ UNCHANGED lab
    /\ UNCHANGED <<scriptVars, fifo, leader, leaderRc, timedOut, hasSetsid, stray,
                   wrote, readEnd>>

\* The deploy timeout: `timeout` sends TERM and from then on returns 124.
DeployTimer ==
    /\ leader = "alive"
    /\ ~timedOut
    /\ timedOut' = TRUE
    /\ UNCHANGED <<scriptVars, fifo, leader, leaderRc, clab, hasSetsid, stray,
                   lab, wrote, readEnd>>

\* `timeout` waits for its child, then exits with the child's status or 124.
LeaderExits ==
    /\ leader = "alive"
    /\ clab # "alive"
    /\ leader' = "closed"
    /\ leaderRc' = CASE timedOut -> 124
                     [] ~timedOut /\ clab = "ok" -> 0
                     [] OTHER -> 1
    /\ UNCHANGED <<scriptVars, fifo, timedOut, clab, hasSetsid, stray, lab, wrote,
                   readEnd>>

\* The closed leader becomes a zombie and the shell's SIGCHLD handler reaps it.
LeaderReaped ==
    /\ leader = "closed"
    /\ leader' = "gone"
    /\ UNCHANGED <<scriptVars, fifo, leaderRc, timedOut, clab, hasSetsid, stray,
                   lab, wrote, readEnd>>

\* A stray goes on building until it finishes or dies of its next write.
StrayBuilds ==
    /\ stray
    /\ lab' = "partial"
    /\ stray' \in BOOLEAN
    /\ UNCHANGED <<scriptVars, fifo, leader, leaderRc, timedOut, clab, hasSetsid,
                   wrote, readEnd>>

\* What the script does without asking Containerlab or Docker.
Watcher ==
    \/ MaterializeBridges \/ StartAttempt
    \/ ReadLine \/ ReadFails \/ ProbeDeployPid \/ StopTerm \/ StopKill
    \/ WaitDeployPid \/ AcceptAttempt \/ RetryAttempt \/ GiveUp

Script == CleanupStaleLab \/ Watcher \/ InspectLab

Processes ==
    \/ ClabWrites \/ ClabExits \/ DeployTimer \/ LeaderExits \/ LeaderReaped
    \/ StrayBuilds

Finished == pc \in Stopped /\ UNCHANGED vars

Next == Script \/ Processes \/ Finished

Spec == Init /\ [][Next]_vars

\* The watcher keeps running (its `read` has a timeout, its other waits are for a
\* process that has exited or was killed; the ip commands of materialize_bridges
\* return), and the kernel completes an exit.  Nothing is assumed of Containerlab
\* and Docker: the deployment may hang for ever, and so may `containerlab inspect`
\* and `docker rm -f`, which have no timeout, and a `containerlab destroy` that does
\* not obey the TERM of its timeout.
Fairness ==
    /\ WF_vars(Watcher)
    /\ WF_vars(LeaderExits)
    /\ WF_vars(LeaderReaped)

FairSpec == Spec /\ Fairness
=============================================================================
