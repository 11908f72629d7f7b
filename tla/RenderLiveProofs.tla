--------------------------- MODULE RenderLiveProofs ---------------------------
(***************************************************************************)
(* Proofs about the host program, for every set of runs, directories and   *)
(* topologies and any number of restarts and reboots.                      *)
(***************************************************************************)
EXTENDS RenderLive, TLAPS

\* A run is inside the locked shell exactly if it holds the lock.
LockInv == \A r \in Runs : pc[r] \in Locked <=> lock = r

\* Inside it, the links and then the lab are its own.
OwnInv ==
    \A r \in Runs :
        /\ pc[r] \in Locked \ {"linkCurrent"} => current = WorkDir[r]
        /\ pc[r] \in Locked \ {"linkCurrent", "linkArtifacts"} => artifacts = WorkDir[r]
        /\ pc[r] \in {"reconcile", "list", "probe", "release"} => deployedFrom = WorkDir[r]

\* A run about to write its success marker has verified the lab, unless another
\* run has moved the link since.
MarkInv ==
    DistinctDirs =>
        \A r \in Runs :
            pc[r] = "mark" /\ current = WorkDir[r] => deployedFrom = WorkDir[r]

IInv ==
    /\ TypeOK
    /\ LockInv
    /\ OwnInv
    /\ NoSuccessUnderWay
    /\ MarkInv
    /\ CurrentSuccessIsDeployed

-----------------------------------------------------------------------------
\* The invariant holds initially.
LEMMA InitIInv == Init => IInv
  <1> SUFFICES ASSUME Init PROVE IInv
    OBVIOUS
  <1>1. TypeOK
    BY MaxRestartsAssumption DEF Init, TypeOK, NodeStates, PCs, Early, Unlocked, LabSteps, Locked, Ended
  <1>2. LockInv /\ OwnInv /\ NoSuccessUnderWay /\ MarkInv /\ CurrentSuccessIsDeployed
    BY NoneAssumption DEF Init, LockInv, OwnInv, NoSuccessUnderWay, MarkInv, CurrentSuccessIsDeployed,
        Unlocked, LabSteps, Locked
  <1> QED
    BY <1>1, <1>2 DEF IInv

\* Every step preserves it.
LEMMA NextIInv == IInv /\ [Next]_vars => IInv'
  <1> SUFFICES ASSUME IInv, [Next]_vars PROVE IInv'
    OBVIOUS
  <1> USE BootAssumption, WorkDirAssumption, TopologyAssumption, NoneAssumption, MaxRestartsAssumption
  \* The steps that only move a run on.
  <1>1. ASSUME NEW r \in Runs,
               \/ Start(r) \/ HostsNotReady(r) \/ InputMissing(r) \/ CopyInputs(r) \/ Render(r)
               \/ EnsureToolingImage(r) \/ SetupBridges(r) \/ Reconcile(r) \/ Verified(r)
        PROVE  IInv'
    <2>1. TypeOK'
      BY <1>1 DEF Start, HostsNotReady, InputMissing, CopyInputs, Render,
          EnsureToolingImage, SetupBridges, Reconcile, Verified,
          Step, Goto, linkVars, labVars, verifyVars, IInv, TypeOK, PCs, Early, Unlocked, LabSteps, Locked, Ended
    <2>2. LockInv'
      BY <1>1 DEF Start, HostsNotReady, InputMissing, CopyInputs, Render,
          EnsureToolingImage, SetupBridges, Reconcile, Verified,
          Step, Goto, linkVars, labVars, verifyVars, IInv, TypeOK,
          LockInv, LabSteps, Locked, Unlocked, Ended, PCs
    <2>3. OwnInv'
      BY <1>1 DEF Start, HostsNotReady, InputMissing, CopyInputs, Render,
          EnsureToolingImage, SetupBridges, Reconcile, Verified,
          Step, Goto, linkVars, labVars, verifyVars, IInv, TypeOK,
          LockInv, OwnInv, LabSteps, Locked, Ended
    <2>4. NoSuccessUnderWay' /\ MarkInv' /\ CurrentSuccessIsDeployed'
      BY <1>1 DEF Start, HostsNotReady, InputMissing, CopyInputs, Render,
          EnsureToolingImage, SetupBridges, Reconcile, Verified,
          Step, Goto, linkVars, labVars, verifyVars, IInv, TypeOK,
          LockInv, OwnInv, NoSuccessUnderWay, MarkInv, CurrentSuccessIsDeployed,
          DistinctDirs, LabSteps, Locked, Unlocked, Ended
    <2> QED
      BY <2>1, <2>2, <2>3, <2>4 DEF IInv
  <1>2. ASSUME NEW r \in Runs, MarkRunning(r) PROVE IInv'
    <2>1. TypeOK'
      BY <1>2 DEF MarkRunning, Goto, Mark, linkVars, labVars, verifyVars, IInv, TypeOK, NodeStates, Up,
          PCs, Early, Unlocked, LabSteps, Locked, Ended
    <2>2. LockInv'
      BY <1>2 DEF MarkRunning, Goto, Mark, linkVars, labVars, verifyVars, IInv, TypeOK,
          LockInv, LabSteps, Locked, Unlocked, Ended, PCs
    <2>3. OwnInv'
      BY <1>2 DEF MarkRunning, Goto, Mark, linkVars, labVars, verifyVars, IInv, TypeOK,
          LockInv, OwnInv, LabSteps, Locked, Ended
    <2>4. NoSuccessUnderWay' /\ MarkInv' /\ CurrentSuccessIsDeployed'
      BY <1>2 DEF MarkRunning, Goto, Mark, linkVars, labVars, verifyVars, IInv, TypeOK, LockInv, OwnInv,
          NoSuccessUnderWay, MarkInv, CurrentSuccessIsDeployed, DistinctDirs, LabSteps, Locked, Unlocked, Ended
    <2> QED
      BY <2>1, <2>2, <2>3, <2>4 DEF IInv
  <1>3. ASSUME NEW r \in Runs, AcquireLock(r) PROVE IInv'
    <2>1. TypeOK'
      BY <1>3 DEF AcquireLock, Goto, linkVars, labVars, verifyVars, IInv, TypeOK, NodeStates, Up,
          PCs, Early, Unlocked, LabSteps, Locked, Ended
    <2>2. LockInv'
      BY <1>3 DEF AcquireLock, Goto, linkVars, labVars, verifyVars, IInv, TypeOK,
          LockInv, LabSteps, Locked, Unlocked, Ended, PCs
    <2>3. OwnInv'
      BY <1>3 DEF AcquireLock, Goto, linkVars, labVars, verifyVars, IInv, TypeOK,
          LockInv, OwnInv, LabSteps, Locked, Ended
    <2>4. NoSuccessUnderWay' /\ MarkInv' /\ CurrentSuccessIsDeployed'
      BY <1>3 DEF AcquireLock, Goto, linkVars, labVars, verifyVars, IInv, TypeOK, LockInv, OwnInv,
          NoSuccessUnderWay, MarkInv, CurrentSuccessIsDeployed, DistinctDirs, LabSteps, Locked, Unlocked, Ended
    <2> QED
      BY <2>1, <2>2, <2>3, <2>4 DEF IInv
  <1>4. ASSUME NEW r \in Runs, LinkCurrent(r) PROVE IInv'
    <2>1. TypeOK'
      BY <1>4 DEF LinkCurrent, Goto, linkVars, labVars, verifyVars, IInv, TypeOK, NodeStates, Up,
          PCs, Early, Unlocked, LabSteps, Locked, Ended
    <2>2. LockInv'
      BY <1>4 DEF LinkCurrent, Goto, linkVars, labVars, verifyVars, IInv, TypeOK,
          LockInv, LabSteps, Locked, Unlocked, Ended, PCs
    <2>3. OwnInv'
      BY <1>4 DEF LinkCurrent, Goto, linkVars, labVars, verifyVars, IInv, TypeOK,
          LockInv, OwnInv, LabSteps, Locked, Ended
    <2>4. NoSuccessUnderWay' /\ MarkInv' /\ CurrentSuccessIsDeployed'
      BY <1>4 DEF LinkCurrent, Goto, linkVars, labVars, verifyVars, IInv, TypeOK, LockInv, OwnInv,
          NoSuccessUnderWay, MarkInv, CurrentSuccessIsDeployed, DistinctDirs, LabSteps, Locked, Unlocked, Ended
    <2> QED
      BY <2>1, <2>2, <2>3, <2>4 DEF IInv
  <1>5. ASSUME NEW r \in Runs, LinkArtifacts(r) PROVE IInv'
    <2>1. TypeOK'
      BY <1>5 DEF LinkArtifacts, Goto, linkVars, labVars, verifyVars, IInv, TypeOK, NodeStates, Up,
          PCs, Early, Unlocked, LabSteps, Locked, Ended
    <2>2. LockInv'
      BY <1>5 DEF LinkArtifacts, Goto, linkVars, labVars, verifyVars, IInv, TypeOK,
          LockInv, LabSteps, Locked, Unlocked, Ended, PCs
    <2>3. OwnInv'
      BY <1>5 DEF LinkArtifacts, Goto, linkVars, labVars, verifyVars, IInv, TypeOK,
          LockInv, OwnInv, LabSteps, Locked, Ended
    <2>4. NoSuccessUnderWay' /\ MarkInv' /\ CurrentSuccessIsDeployed'
      BY <1>5 DEF LinkArtifacts, Goto, linkVars, labVars, verifyVars, IInv, TypeOK, LockInv, OwnInv,
          NoSuccessUnderWay, MarkInv, CurrentSuccessIsDeployed, DistinctDirs, LabSteps, Locked, Unlocked, Ended
    <2> QED
      BY <2>1, <2>2, <2>3, <2>4 DEF IInv
  <1>6. ASSUME NEW r \in Runs, DestroyLab(r) PROVE IInv'
    <2>1. TypeOK'
      BY <1>6 DEF DestroyLab, Goto, linkVars, labVars, verifyVars, IInv, TypeOK, NodeStates, Up,
          PCs, Early, Unlocked, LabSteps, Locked, Ended
    <2>2. LockInv'
      BY <1>6 DEF DestroyLab, Goto, linkVars, labVars, verifyVars, IInv, TypeOK,
          LockInv, LabSteps, Locked, Unlocked, Ended, PCs
    <2>3. OwnInv'
      BY <1>6 DEF DestroyLab, Goto, linkVars, labVars, verifyVars, IInv, TypeOK,
          LockInv, OwnInv, LabSteps, Locked, Ended
    <2>4. NoSuccessUnderWay' /\ MarkInv' /\ CurrentSuccessIsDeployed'
      BY <1>6 DEF DestroyLab, Goto, linkVars, labVars, verifyVars, IInv, TypeOK, LockInv, OwnInv,
          NoSuccessUnderWay, MarkInv, CurrentSuccessIsDeployed, DistinctDirs, LabSteps, Locked, Unlocked, Ended
    <2> QED
      BY <2>1, <2>2, <2>3, <2>4 DEF IInv
  <1>7. ASSUME NEW r \in Runs, Deploy(r) PROVE IInv'
    <2>1. TypeOK'
      BY <1>7 DEF Deploy, Goto, LockWithout, linkVars, labVars, verifyVars, IInv, TypeOK, NodeStates, Up,
          PCs, Early, Unlocked, LabSteps, Locked, Ended
    <2>2. LockInv'
      BY <1>7 DEF Deploy, Goto, LockWithout, linkVars, labVars, verifyVars, IInv, TypeOK,
          LockInv, LabSteps, Locked, Unlocked, Ended, PCs
    <2>3. OwnInv'
      BY <1>7 DEF Deploy, Goto, LockWithout, linkVars, labVars, verifyVars, IInv, TypeOK,
          LockInv, OwnInv, LabSteps, Locked, Ended
    <2>4. NoSuccessUnderWay' /\ MarkInv' /\ CurrentSuccessIsDeployed'
      BY <1>7 DEF Deploy, Goto, LockWithout, linkVars, labVars, verifyVars, IInv, TypeOK, LockInv, OwnInv,
          NoSuccessUnderWay, MarkInv, CurrentSuccessIsDeployed, DistinctDirs, LabSteps, Locked, Unlocked, Ended
    <2> QED
      BY <2>1, <2>2, <2>3, <2>4 DEF IInv
  <1>8. ASSUME NEW r \in Runs, ListContainers(r) PROVE IInv'
    <2>1. TypeOK'
      BY <1>8 DEF ListContainers, Goto, LockWithout, linkVars, labVars, verifyVars, IInv, TypeOK, NodeStates, Up,
          PCs, Early, Unlocked, LabSteps, Locked, Ended
    <2>2. LockInv'
      BY <1>8 DEF ListContainers, Goto, LockWithout, linkVars, labVars, verifyVars, IInv, TypeOK,
          LockInv, LabSteps, Locked, Unlocked, Ended, PCs
    <2>3. OwnInv'
      BY <1>8 DEF ListContainers, Goto, LockWithout, linkVars, labVars, verifyVars, IInv, TypeOK,
          LockInv, OwnInv, LabSteps, Locked, Ended
    <2>4. NoSuccessUnderWay' /\ MarkInv' /\ CurrentSuccessIsDeployed'
      BY <1>8 DEF ListContainers, Goto, LockWithout, linkVars, labVars, verifyVars, IInv, TypeOK, LockInv, OwnInv,
          NoSuccessUnderWay, MarkInv, CurrentSuccessIsDeployed, DistinctDirs, LabSteps, Locked, Unlocked, Ended
    <2> QED
      BY <2>1, <2>2, <2>3, <2>4 DEF IInv
  <1>9. ASSUME NEW r \in Runs, ProbeContainer(r) PROVE IInv'
    <2>1. TypeOK'
      BY <1>9 DEF ProbeContainer, Goto, LockWithout, linkVars, labVars, verifyVars, IInv, TypeOK, NodeStates, Up,
          PCs, Early, Unlocked, LabSteps, Locked, Ended
    <2>2. LockInv'
      BY <1>9 DEF ProbeContainer, Goto, LockWithout, linkVars, labVars, verifyVars, IInv, TypeOK,
          LockInv, LabSteps, Locked, Unlocked, Ended, PCs
    <2>3. OwnInv'
      BY <1>9 DEF ProbeContainer, Goto, LockWithout, linkVars, labVars, verifyVars, IInv, TypeOK,
          LockInv, OwnInv, LabSteps, Locked, Ended
    <2>4. NoSuccessUnderWay' /\ MarkInv' /\ CurrentSuccessIsDeployed'
      BY <1>9 DEF ProbeContainer, Goto, LockWithout, linkVars, labVars, verifyVars, IInv, TypeOK, LockInv, OwnInv,
          NoSuccessUnderWay, MarkInv, CurrentSuccessIsDeployed, DistinctDirs, LabSteps, Locked, Unlocked, Ended
    <2> QED
      BY <2>1, <2>2, <2>3, <2>4 DEF IInv
  <1>10. ASSUME NEW r \in Runs, ReleaseLock(r) PROVE IInv'
    <2>1. TypeOK'
      BY <1>10 DEF ReleaseLock, Goto, LockWithout, linkVars, labVars, verifyVars, IInv, TypeOK, NodeStates, Up,
          PCs, Early, Unlocked, LabSteps, Locked, Ended
    <2>2. LockInv'
      BY <1>10 DEF ReleaseLock, Goto, LockWithout, linkVars, labVars, verifyVars, IInv, TypeOK,
          LockInv, LabSteps, Locked, Unlocked, Ended, PCs
    <2>3. OwnInv'
      BY <1>10 DEF ReleaseLock, Goto, LockWithout, linkVars, labVars, verifyVars, IInv, TypeOK,
          LockInv, OwnInv, LabSteps, Locked, Ended
    <2>4. NoSuccessUnderWay' /\ MarkInv' /\ CurrentSuccessIsDeployed'
      BY <1>10 DEF ReleaseLock, Goto, LockWithout, linkVars, labVars, verifyVars, IInv, TypeOK, LockInv, OwnInv,
          NoSuccessUnderWay, MarkInv, CurrentSuccessIsDeployed, DistinctDirs, LabSteps, Locked, Unlocked, Ended
    <2> QED
      BY <2>1, <2>2, <2>3, <2>4 DEF IInv
  <1>11. ASSUME NEW r \in Runs, MarkSuccess(r) PROVE IInv'
    <2>1. TypeOK'
      BY <1>11 DEF MarkSuccess, Goto, Mark, linkVars, labVars, verifyVars, IInv, TypeOK, NodeStates, Up,
          PCs, Early, Unlocked, LabSteps, Locked, Ended
    <2>2. LockInv'
      BY <1>11 DEF MarkSuccess, Goto, Mark, linkVars, labVars, verifyVars, IInv, TypeOK,
          LockInv, LabSteps, Locked, Unlocked, Ended, PCs
    <2>3. OwnInv'
      BY <1>11 DEF MarkSuccess, Goto, Mark, linkVars, labVars, verifyVars, IInv, TypeOK,
          LockInv, OwnInv, LabSteps, Locked, Ended
    <2>4. NoSuccessUnderWay' /\ MarkInv' /\ CurrentSuccessIsDeployed'
      BY <1>11 DEF MarkSuccess, Goto, Mark, linkVars, labVars, verifyVars, IInv, TypeOK, LockInv, OwnInv,
          NoSuccessUnderWay, MarkInv, CurrentSuccessIsDeployed, DistinctDirs, LabSteps, Locked, Unlocked, Ended
    <2> QED
      BY <2>1, <2>2, <2>3, <2>4 DEF IInv
  <1>12. ASSUME NEW r \in Runs, CommandFails(r) PROVE IInv'
    <2>1. TypeOK'
      BY <1>12 DEF CommandFails, Goto, LockWithout, linkVars, labVars, verifyVars, IInv, TypeOK, NodeStates, Up,
          PCs, Early, Unlocked, LabSteps, Locked, Ended
    <2>2. LockInv'
      BY <1>12 DEF CommandFails, Goto, LockWithout, linkVars, labVars, verifyVars, IInv, TypeOK,
          LockInv, LabSteps, Locked, Unlocked, Ended, PCs
    <2>3. OwnInv'
      BY <1>12 DEF CommandFails, Goto, LockWithout, linkVars, labVars, verifyVars, IInv, TypeOK,
          LockInv, OwnInv, LabSteps, Locked, Ended
    <2>4. NoSuccessUnderWay' /\ MarkInv' /\ CurrentSuccessIsDeployed'
      BY <1>12 DEF CommandFails, Goto, LockWithout, linkVars, labVars, verifyVars, IInv, TypeOK, LockInv, OwnInv,
          NoSuccessUnderWay, MarkInv, CurrentSuccessIsDeployed, DistinctDirs, LabSteps, Locked, Unlocked, Ended
    <2> QED
      BY <2>1, <2>2, <2>3, <2>4 DEF IInv
  <1>13. ASSUME NEW r \in Runs, OnFailure(r) PROVE IInv'
    <2>1. TypeOK'
      BY <1>13 DEF OnFailure, Goto, Mark, linkVars, labVars, verifyVars, IInv, TypeOK, NodeStates, Up,
          PCs, Early, Unlocked, LabSteps, Locked, Ended
    <2>2. LockInv'
      BY <1>13 DEF OnFailure, Goto, Mark, linkVars, labVars, verifyVars, IInv, TypeOK,
          LockInv, LabSteps, Locked, Unlocked, Ended, PCs
    <2>3. OwnInv'
      BY <1>13 DEF OnFailure, Goto, Mark, linkVars, labVars, verifyVars, IInv, TypeOK,
          LockInv, OwnInv, LabSteps, Locked, Ended
    <2>4. NoSuccessUnderWay' /\ MarkInv' /\ CurrentSuccessIsDeployed'
      BY <1>13 DEF OnFailure, Goto, Mark, linkVars, labVars, verifyVars, IInv, TypeOK, LockInv, OwnInv,
          NoSuccessUnderWay, MarkInv, CurrentSuccessIsDeployed, DistinctDirs, LabSteps, Locked, Unlocked, Ended
    <2> QED
      BY <2>1, <2>2, <2>3, <2>4 DEF IInv
  <1>14. ASSUME NEW r \in Runs, Killed(r) PROVE IInv'
    <2>1. TypeOK'
      BY <1>14 DEF Killed, Goto, LockWithout, linkVars, labVars, verifyVars, IInv, TypeOK, NodeStates, Up,
          PCs, Early, Unlocked, LabSteps, Locked, Ended
    <2>2. LockInv'
      BY <1>14 DEF Killed, Goto, LockWithout, linkVars, labVars, verifyVars, IInv, TypeOK,
          LockInv, LabSteps, Locked, Unlocked, Ended, PCs
    <2>3. OwnInv'
      BY <1>14 DEF Killed, Goto, LockWithout, linkVars, labVars, verifyVars, IInv, TypeOK,
          LockInv, OwnInv, LabSteps, Locked, Ended
    <2>4. NoSuccessUnderWay' /\ MarkInv' /\ CurrentSuccessIsDeployed'
      BY <1>14 DEF Killed, Goto, LockWithout, linkVars, labVars, verifyVars, IInv, TypeOK, LockInv, OwnInv,
          NoSuccessUnderWay, MarkInv, CurrentSuccessIsDeployed, DistinctDirs, LabSteps, Locked, Unlocked, Ended
    <2> QED
      BY <2>1, <2>2, <2>3, <2>4 DEF IInv
  <1>15. CASE RestartUnit
    <2>1. TypeOK'
      BY <1>15 DEF RestartUnit, Goto, linkVars, labVars, verifyVars, IInv, TypeOK, NodeStates, Up,
          PCs, Early, Unlocked, LabSteps, Locked, Ended
    <2>2. LockInv'
      BY <1>15 DEF RestartUnit, Goto, linkVars, labVars, verifyVars, IInv, TypeOK,
          LockInv, LabSteps, Locked, Unlocked, Ended, PCs
    <2>3. OwnInv'
      BY <1>15 DEF RestartUnit, Goto, linkVars, labVars, verifyVars, IInv, TypeOK,
          LockInv, OwnInv, LabSteps, Locked, Ended
    <2>4. NoSuccessUnderWay' /\ MarkInv' /\ CurrentSuccessIsDeployed'
      BY <1>15 DEF RestartUnit, Goto, linkVars, labVars, verifyVars, IInv, TypeOK, LockInv, OwnInv,
          NoSuccessUnderWay, MarkInv, CurrentSuccessIsDeployed, DistinctDirs, LabSteps, Locked, Unlocked, Ended
    <2> QED
      BY <2>1, <2>2, <2>3, <2>4 DEF IInv
  <1>16. CASE Reboot
    <2>1. TypeOK'
      BY <1>16 DEF Reboot, Goto, linkVars, labVars, verifyVars, IInv, TypeOK, NodeStates, Up,
          PCs, Early, Unlocked, LabSteps, Locked, Ended
    <2>2. LockInv'
      BY <1>16 DEF Reboot, Goto, linkVars, labVars, verifyVars, IInv, TypeOK,
          LockInv, LabSteps, Locked, Unlocked, Ended, PCs
    <2>3. OwnInv'
      BY <1>16 DEF Reboot, Goto, linkVars, labVars, verifyVars, IInv, TypeOK,
          LockInv, OwnInv, LabSteps, Locked, Ended
    <2>4. NoSuccessUnderWay' /\ MarkInv' /\ CurrentSuccessIsDeployed'
      BY <1>16 DEF Reboot, Goto, linkVars, labVars, verifyVars, IInv, TypeOK, LockInv, OwnInv,
          NoSuccessUnderWay, MarkInv, CurrentSuccessIsDeployed, DistinctDirs, LabSteps, Locked, Unlocked, Ended
    <2> QED
      BY <2>1, <2>2, <2>3, <2>4 DEF IInv
  <1>17. CASE ContainerChanges
    <2>1. TypeOK'
      BY <1>17 DEF ContainerChanges, Goto, linkVars, labVars, verifyVars, IInv, TypeOK, NodeStates, Up,
          PCs, Early, Unlocked, LabSteps, Locked, Ended
    <2>2. LockInv'
      BY <1>17 DEF ContainerChanges, Goto, linkVars, labVars, verifyVars, IInv, TypeOK,
          LockInv, LabSteps, Locked, Unlocked, Ended, PCs
    <2>3. OwnInv'
      BY <1>17 DEF ContainerChanges, Goto, linkVars, labVars, verifyVars, IInv, TypeOK,
          LockInv, OwnInv, LabSteps, Locked, Ended
    <2>4. NoSuccessUnderWay' /\ MarkInv' /\ CurrentSuccessIsDeployed'
      BY <1>17 DEF ContainerChanges, Goto, linkVars, labVars, verifyVars, IInv, TypeOK, LockInv, OwnInv,
          NoSuccessUnderWay, MarkInv, CurrentSuccessIsDeployed, DistinctDirs, LabSteps, Locked, Unlocked, Ended
    <2> QED
      BY <2>1, <2>2, <2>3, <2>4 DEF IInv
  <1>18. CASE UNCHANGED vars
    BY <1>18 DEF vars, linkVars, IInv, TypeOK, LockInv, OwnInv, NoSuccessUnderWay, MarkInv,
        CurrentSuccessIsDeployed
  <1> QED
    BY <1>1, <1>2, <1>3, <1>4, <1>5, <1>6, <1>7, <1>8, <1>9, <1>10, <1>11, <1>12, <1>13, <1>14, <1>15, <1>16, <1>17, <1>18 DEF Next, Advance

\* The invariant holds in every reachable state.
THEOREM Invariance == Spec => []IInv
  <1> QED
    BY InitIInv, NextIInv, PTL DEF Spec

\* Every reachable state is well typed.
THEOREM TypeCorrect == Spec => []TypeOK
  <1> QED
    BY Invariance, PTL DEF IInv

\* What a run reconciles and verifies is the lab it deployed, whatever runs of
\* whatever programs of this kind are under way beside it.
THEOREM OwnLab == Spec => []VerifiesOwnLab
  <1>1. IInv => VerifiesOwnLab
    BY DEF IInv, OwnInv, VerifiesOwnLab, Locked, LabSteps
  <1> QED
    BY <1>1, Invariance, PTL

\* A run that has announced itself shows no success before it has verified its lab.
THEOREM NoSuccessBefore == Spec => []NoSuccessUnderWay
  <1> QED
    BY Invariance, PTL DEF IInv

\* A success marker in the directory live-current leads to speaks of the topology
\* that is deployed.
THEOREM CurrentSuccess == Spec => []CurrentSuccessIsDeployed
  <1> QED
    BY Invariance, PTL DEF IInv
=============================================================================
