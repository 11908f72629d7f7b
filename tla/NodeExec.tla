------------------------------ MODULE NodeExec ------------------------------
(***************************************************************************)
(* The exec bundles of a node (node_runtime.py, `bundle_exec_commands`):   *)
(* the rendered commands are cut into shell scripts of BundleSize commands *)
(* that Containerlab starts at the same time.  A script waits for the      *)
(* marker its predecessor leaves in /tmp, named after the start time of    *)
(* the container's first process, runs its commands under `set -e`, and    *)
(* leaves a marker of its own.                                             *)
(*                                                                         *)
(* What a command does is left to the module that extends this one; here   *)
(* it succeeds or fails.                                                   *)
(***************************************************************************)
EXTENDS Naturals, Sequences

CONSTANTS
    BundleSize,     \* EXEC_BUNDLE_SIZE: 100
    Waits,          \* how often a script looks for the marker: 600
    Lives           \* the container is started this often at most

ASSUME BundleSizeAssumption == BundleSize \in Nat \ {0}
ASSUME WaitsAssumption == Waits \in Nat \ {0}
ASSUME LivesAssumption == Lives \in Nat \ {0}

VARIABLES
    total,          \* how many commands are rendered for the node
    life,           \* clab_bundle_generation
    pc,             \* of each script
    at,             \* the command each script is at
    waited,         \* how often each script has looked in vain
    ready,          \* the markers, which survive a restart
    ran             \* the commands that have succeeded in this life, in order

progress == <<pc, at, waited, ready, ran>>
execVars == <<total, life, progress>>

Bundles == {b \in 1 .. total : (b - 1) * BundleSize < total}
BeginOf(b) == (b - 1) * BundleSize + 1
EndOf(b) == IF b * BundleSize < total THEN b * BundleSize ELSE total

ExecInit ==
    /\ life = 1
    /\ pc = [b \in Bundles |-> "idle"]
    /\ at = [b \in Bundles |-> BeginOf(b)]
    /\ waited = [b \in Bundles |-> 0]
    /\ ready = {}
    /\ ran = <<>>

\* Containerlab starts the script; the first has no predecessor.
StartBundle(b) ==
    /\ pc[b] = "idle"
    /\ pc' = [pc EXCEPT ![b] = IF b > 1 THEN "wait" ELSE "run"]
    /\ UNCHANGED <<total, life, at, waited, ready, ran>>

\* A marker of another life does not count.
SeeAnyMarker(b) ==
    /\ pc[b] = "wait" /\ waited[b] < Waits
    /\ \E l \in 1 .. Lives : <<l, b - 1>> \in ready
    /\ pc' = [pc EXCEPT ![b] = "run"]
    /\ UNCHANGED <<total, life, at, waited, ready, ran>>

SeeMarker(b) ==
    /\ pc[b] = "wait" /\ waited[b] < Waits
    /\ <<life, b - 1>> \in ready
    /\ pc' = [pc EXCEPT ![b] = "run"]
    /\ UNCHANGED <<total, life, at, waited, ready, ran>>

\* Looking is not counted, or not limited.
WaitForever(b) ==
    /\ pc[b] = "wait" /\ <<life, b - 1>> \notin ready
    /\ UNCHANGED execVars

SeeNothing(b) ==
    /\ pc[b] = "wait" /\ waited[b] < Waits
    /\ <<life, b - 1>> \notin ready
    /\ waited' = [waited EXCEPT ![b] = @ + 1]
    /\ UNCHANGED <<total, life, pc, at, ready, ran>>

GoOnAnyway(b) ==
    /\ pc[b] = "wait" /\ waited[b] = Waits
    /\ pc' = [pc EXCEPT ![b] = "run"]
    /\ UNCHANGED <<total, life, at, waited, ready, ran>>

\* "CLAB predecessor bundle did not complete"
StopWaiting(b) ==
    /\ pc[b] = "wait" /\ waited[b] = Waits
    /\ pc' = [pc EXCEPT ![b] = "failed"]
    /\ UNCHANGED <<total, life, at, waited, ready, ran>>

RunCommand(b) ==
    /\ pc[b] = "run" /\ at[b] <= EndOf(b)
    /\ ran' = Append(ran, at[b])
    /\ at' = [at EXCEPT ![b] = @ + 1]
    /\ UNCHANGED <<total, life, pc, waited, ready>>

\* set -e
CommandFails(b) ==
    /\ pc[b] = "run" /\ at[b] <= EndOf(b)
    /\ pc' = [pc EXCEPT ![b] = "failed"]
    /\ UNCHANGED <<total, life, at, waited, ready, ran>>

LeaveMarker(b) ==
    /\ pc[b] = "run" /\ at[b] > EndOf(b)
    /\ ready' = ready \cup {<<life, b>>}
    /\ pc' = [pc EXCEPT ![b] = "done"]
    /\ UNCHANGED <<total, life, at, waited, ran>>

\* The container's processes and its network namespace are gone, its files are
\* not; the scripts may be run again.
Restart ==
    /\ life < Lives
    /\ life' = life + 1
    /\ pc' = [b \in Bundles |-> "idle"]
    /\ at' = [b \in Bundles |-> BeginOf(b)]
    /\ waited' = [b \in Bundles |-> 0]
    /\ ran' = <<>>
    /\ UNCHANGED <<total, ready>>

\* A step of a script that does not touch the node.
Quiet(b) ==
    \/ StartBundle(b) \/ SeeMarker(b) \/ SeeNothing(b) \/ StopWaiting(b)
    \/ LeaveMarker(b)

ExecStep == \E b \in Bundles : Quiet(b) \/ RunCommand(b) \/ CommandFails(b)
ExecNext == ExecStep \/ Restart

ExecSpec == total \in Nat /\ ExecInit /\ [][ExecNext]_execVars

Complete == Len(ran) = total
----------------------------------------------------------------------------
\* bundle_exec_commands: whichever scripts Containerlab starts first, and
\* whatever an earlier life of the container has left in /tmp, the commands run
\* one at a time, in the order they were rendered in, none twice and none left out.
InOrder == \A i \in 1 .. Len(ran) : ran[i] = i

\* After a script has failed, no later script runs or has run a command.
FailureStopsTheNode ==
    \A b, c \in Bundles :
        b < c /\ pc[b] = "failed" => pc[c] \in {"idle", "wait", "failed"} /\ at[c] = BeginOf(c)
=============================================================================
