------------------------------ MODULE RenderLive ------------------------------
(***************************************************************************)
(* The host program s-router-clab-render-live (host-module.nix): render,   *)
(* then, under a host-wide lock, replace the running lab and verify it,    *)
(* and keep a status marker in the work directory.                         *)
(*                                                                         *)
(* Several runs may be under way: the boot unit, which always uses the     *)
(* same work directory, and runs started by hand with directories of their *)
(* own.  Work directories survive a reboot, /run does not.                 *)
(*                                                                         *)
(* The watched `containerlab deploy` inside the lock is ClabDeploy with    *)
(* one attempt; here it is one step that succeeds or fails.                *)
(***************************************************************************)
EXTENDS Naturals, FiniteSets

CONSTANTS
    Runs,          \* runs of the program
    Boot,          \* the run of the boot unit
    Dirs,          \* work directories
    WorkDir,       \* the directory of each run
    Nodes,         \* containers that may be rendered
    Topology,      \* the nodes rendered into each directory
    NoRun, NoDir,
    MaxRestarts    \* bound: reboots and restarts of the boot unit

ASSUME BootAssumption == Boot \in Runs
ASSUME WorkDirAssumption == WorkDir \in [Runs -> Dirs]
ASSUME TopologyAssumption == Topology \in [Dirs -> SUBSET Nodes]
ASSUME NoneAssumption == NoRun \notin Runs /\ NoDir \notin Dirs
ASSUME MaxRestartsAssumption == MaxRestarts \in Nat

VARIABLES
    pc,            \* where each run is
    lock,          \* holder of /run/s-router-clab-render-live.lock
    marker,        \* result in each directory's status marker
    current,       \* /run/s-router-clab/live-current
    artifacts,     \* /etc/network-artifacts
    nodes,         \* state of the container of each node
    deployedFrom,  \* the directory whose topology was last deployed
    listed,        \* the containers each run's verification listed
    toProbe,       \* those of them it has not probed yet
    restarts

vars == <<pc, lock, marker, current, artifacts, nodes, deployedFrom, listed,
          toProbe, restarts>>

Early == {"idle", "hosts"}
Unlocked == {"inputs", "render", "queue"}
LabSteps == {"destroy", "bridges", "deploy", "reconcile", "list", "probe", "release"}
Locked == {"linkCurrent", "linkArtifacts", "image"} \cup LabSteps
Ended == {"done", "failed", "refused", "killed"}
PCs == Early \cup Unlocked \cup Locked \cup {"mark", "trap"} \cup Ended

\* A running container is sick if it has no interface, does not answer or is
\* unhealthy; an exited one still exists.
NodeStates == {"absent", "running", "sick", "exited"}

TypeOK ==
    /\ pc \in [Runs -> PCs]
    /\ lock \in Runs \cup {NoRun}
    /\ marker \in [Dirs -> {"none", "running", "failure", "success"}]
    /\ current \in Dirs \cup {NoDir}
    /\ artifacts \in Dirs \cup {NoDir}
    /\ nodes \in [Nodes -> NodeStates]
    /\ deployedFrom \in Dirs \cup {NoDir}
    /\ listed \in [Runs -> SUBSET Nodes]
    /\ toProbe \in [Runs -> SUBSET Nodes]
    /\ restarts \in 0 .. MaxRestarts

Init ==
    /\ pc = [r \in Runs |-> "idle"]
    /\ lock = NoRun
    /\ marker = [d \in Dirs |-> "none"]
    /\ current = NoDir /\ artifacts = NoDir
    /\ nodes = [n \in Nodes |-> "absent"]
    /\ deployedFrom = NoDir
    /\ listed = [r \in Runs |-> {}]
    /\ toProbe = [r \in Runs |-> {}]
    /\ restarts = 0

labVars == <<nodes, deployedFrom>>
linkVars == <<current, artifacts>>
verifyVars == <<listed, toProbe>>

Goto(r, there) == pc' = [pc EXCEPT ![r] = there]

\* write_status
Mark(r, result) == marker' = [marker EXCEPT ![WorkDir[r]] = result]

\* A step that only moves the run on, leaving host and marker alone.
Step(r, here, there) ==
    /\ pc[r] = here
    /\ Goto(r, there)
    /\ UNCHANGED <<lock, marker, linkVars, labVars, verifyVars, restarts>>

\* flock lets go of the lock when the shell it runs has ended, for whatever reason.
LockKept(r) == lock
LockWithout(r) == IF lock = r THEN NoRun ELSE lock

-----------------------------------------------------------------------------
Start(r) == Step(r, "idle", "hosts")

\* /etc/hosts is missing, or is not a writable copy: an explicit exit, which
\* does not run the ERR trap.
HostsNotReady(r) == Step(r, "hosts", "refused")

MarkNothing(r) == Step(r, "hosts", "inputs")
MarkRunning(r) ==
    /\ pc[r] = "hosts"
    /\ Goto(r, "inputs")
    /\ Mark(r, "running")
    /\ UNCHANGED <<lock, linkVars, labVars, verifyVars, restarts>>

\* No control-plane JSON: again an explicit exit, with the marker at "running".
InputMissing(r) == Step(r, "inputs", "refused")
CopyInputs(r) == Step(r, "inputs", "render")

\* Render the topology, write the artifact bundle and the helper scripts.
Render(r) == Step(r, "render", "queue")

EnterUnlocked(r) ==
    /\ pc[r] = "queue"
    /\ lock' = r
    /\ Goto(r, "linkCurrent")
    /\ UNCHANGED <<marker, linkVars, labVars, verifyVars, restarts>>
AcquireLock(r) ==
    /\ pc[r] = "queue"
    /\ lock = NoRun
    /\ lock' = r
    /\ Goto(r, "linkCurrent")
    /\ UNCHANGED <<marker, linkVars, labVars, verifyVars, restarts>>

LinkCurrent(r) ==
    /\ pc[r] = "linkCurrent"
    /\ current' = WorkDir[r]
    /\ Goto(r, "linkArtifacts")
    /\ UNCHANGED <<lock, marker, artifacts, labVars, verifyVars, restarts>>

LinkArtifacts(r) ==
    /\ pc[r] = "linkArtifacts"
    /\ artifacts' = WorkDir[r]
    /\ Goto(r, "image")
    /\ UNCHANGED <<lock, marker, current, labVars, verifyVars, restarts>>

EnsureToolingImage(r) == Step(r, "image", "destroy")

\* `containerlab destroy --all || true`, then remove every clab-fabric container.
DestroyLab(r) ==
    /\ pc[r] = "destroy"
    /\ nodes' = [n \in Nodes |-> "absent"]
    /\ deployedFrom' = NoDir
    /\ Goto(r, "bridges")
    /\ UNCHANGED <<lock, marker, linkVars, verifyVars, restarts>>

SetupBridges(r) == Step(r, "bridges", "deploy")

\* The deploy completes, or stops with some of the containers made.
Deploy(r) ==
    /\ pc[r] = "deploy"
    /\ deployedFrom' = WorkDir[r]
    /\ \E made \in SUBSET Topology[WorkDir[r]] :
          /\ nodes' = [n \in Nodes |-> IF n \in made THEN "running" ELSE nodes[n]]
          /\ \/ made = Topology[WorkDir[r]] /\ Goto(r, "reconcile") /\ UNCHANGED lock
             \/ Goto(r, "trap") /\ lock' = LockWithout(r)
    /\ UNCHANGED <<marker, linkVars, verifyVars, restarts>>

\* Bridges again, WAN DHCP, DNS and access services of the running containers.
Reconcile(r) == Step(r, "reconcile", "list")

\* verify-containerlab-deploy.sh takes its containers from `docker ps`, which
\* lists the running ones.
Up == {n \in Nodes : nodes[n] \in {"running", "sick"}}

ListContainers(r) ==
    /\ pc[r] = "list"
    /\ listed' = [listed EXCEPT ![r] = Up]
    /\ toProbe' = [toProbe EXCEPT ![r] = Up]
    /\ IF Up = {} /\ Topology[WorkDir[r]] # {}
       THEN Goto(r, "trap") /\ lock' = LockWithout(r)
       ELSE Goto(r, "probe") /\ UNCHANGED lock
    /\ UNCHANGED <<marker, linkVars, labVars, restarts>>

\* Each listed container must answer, have an interface and not be unhealthy.
ProbeContainer(r) ==
    /\ pc[r] = "probe"
    /\ \E n \in toProbe[r] :
          /\ toProbe' = [toProbe EXCEPT ![r] = @ \ {n}]
          /\ IF nodes[n] = "running"
             THEN UNCHANGED <<pc, lock>>
             ELSE Goto(r, "trap") /\ lock' = LockWithout(r)
    /\ UNCHANGED <<marker, linkVars, labVars, listed, restarts>>

Verified(r) ==
    /\ toProbe[r] = {}
    /\ Step(r, "probe", "release")

\* The locked shell ends; the marker is written without the lock.
ReleaseLock(r) ==
    /\ pc[r] = "release"
    /\ lock' = LockWithout(r)
    /\ Goto(r, "mark")
    /\ UNCHANGED <<marker, linkVars, labVars, verifyVars, restarts>>

MarkSuccess(r) ==
    /\ pc[r] = "mark"
    /\ Mark(r, "success")
    /\ Goto(r, "done")
    /\ UNCHANGED <<lock, linkVars, labVars, verifyVars, restarts>>

\* A command that fails ends the locked shell and fires the ERR trap.
CommandFails(r) ==
    /\ pc[r] \in {"inputs", "render", "linkCurrent", "linkArtifacts", "image",
                  "destroy", "bridges", "reconcile"}
    /\ lock' = LockWithout(r)
    /\ Goto(r, "trap")
    /\ UNCHANGED <<marker, linkVars, labVars, verifyVars, restarts>>

OnFailure(r) ==
    /\ pc[r] = "trap"
    /\ Mark(r, "failure")
    /\ Goto(r, "failed")
    /\ UNCHANGED <<lock, linkVars, labVars, verifyVars, restarts>>

-----------------------------------------------------------------------------
\* A signal (TimeoutStartSec, an operator) ends a run without the ERR trap.
Killed(r) ==
    /\ pc[r] \notin Ended \cup {"idle"}
    /\ lock' = LockWithout(r)
    /\ Goto(r, "killed")
    /\ UNCHANGED <<marker, linkVars, labVars, verifyVars, restarts>>

\* systemctl restart of the boot unit once it has ended.
RestartUnit ==
    /\ pc[Boot] \in Ended
    /\ restarts < MaxRestarts
    /\ restarts' = restarts + 1
    /\ Goto(Boot, "idle")
    /\ UNCHANGED <<lock, marker, linkVars, labVars, verifyVars>>

\* A reboot ends every run, clears /run and stops the containers; the boot unit
\* will run again.
Reboot ==
    /\ restarts < MaxRestarts
    /\ restarts' = restarts + 1
    /\ pc' = [r \in Runs |-> IF r = Boot THEN "idle"
                             ELSE IF pc[r] = "idle" THEN "idle"
                             ELSE IF pc[r] \in Ended THEN pc[r] ELSE "killed"]
    /\ lock' = NoRun
    /\ current' = NoDir
    /\ nodes' = [n \in Nodes |-> IF nodes[n] = "absent" THEN "absent" ELSE "exited"]
    /\ UNCHANGED <<marker, artifacts, deployedFrom, verifyVars>>

\* A container may fall ill, recover or exit at any time.
ContainerChanges ==
    /\ \E n \in Up : \E s \in {"running", "sick", "exited"} \ {nodes[n]} :
          nodes' = [nodes EXCEPT ![n] = s]
    /\ UNCHANGED <<pc, lock, marker, linkVars, deployedFrom, verifyVars, restarts>>

Advance(r) ==
    \/ HostsNotReady(r) \/ MarkRunning(r) \/ InputMissing(r) \/ CopyInputs(r)
    \/ Render(r) \/ AcquireLock(r) \/ LinkCurrent(r) \/ LinkArtifacts(r)
    \/ EnsureToolingImage(r) \/ DestroyLab(r) \/ SetupBridges(r) \/ Deploy(r)
    \/ Reconcile(r) \/ ListContainers(r) \/ ProbeContainer(r) \/ Verified(r)
    \/ ReleaseLock(r) \/ MarkSuccess(r) \/ CommandFails(r) \/ OnFailure(r)

Next ==
    \/ \E r \in Runs : Start(r) \/ Advance(r) \/ Killed(r)
    \/ RestartUnit
    \/ Reboot
    \/ ContainerChanges

Spec == Init /\ [][Next]_vars

\* A run that has been started keeps going; every command it runs is bounded.
FairSpec == Spec /\ \A r \in Runs : WF_vars(Advance(r))

-----------------------------------------------------------------------------
(***************************************************************************)
(* What must hold of concurrent, interrupted and repeated runs.            *)
(***************************************************************************)

\* Runs that share a directory overwrite each other's marker; the properties
\* about markers are those of runs with a directory each.
DistinctDirs == \A r, s \in Runs : WorkDir[r] = WorkDir[s] => r = s

\* A reader who follows live-current and finds the marker "success" has in front
\* of it the topology that is deployed, whatever other runs are doing, have
\* failed to do, or left behind before a reboot.
CurrentSuccessIsDeployed ==
    DistinctDirs =>
        \A d \in Dirs : current = d /\ marker[d] = "success" => deployedFrom = d

\* A run that has announced itself shows no success, of its own or of an earlier
\* run in its directory, until it has verified its lab.
NoSuccessUnderWay ==
    DistinctDirs =>
        \A r \in Runs :
            pc[r] \in Unlocked \cup Locked \cup {"mark", "trap", "failed"} =>
                marker[WorkDir[r]] # "success"

\* What a run reconciles and verifies is the lab it deployed itself.
VerifiesOwnLab ==
    \A r \in Runs :
        pc[r] \in {"reconcile", "list", "probe", "release"} =>
            deployedFrom = WorkDir[r] /\ current = WorkDir[r] /\ artifacts = WorkDir[r]

\* Every run that was started ends, however often others take the lock first.
RunsEnd == \A r \in Runs : pc[r] = "hosts" ~> pc[r] \in Ended \cup {"idle"}
=============================================================================
