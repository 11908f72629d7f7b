\* Two runs, one restart or reboot.
SPECIFICATION FairSpec
CONSTANTS
    boot = boot
    manual = manual
    bootDir = bootDir
    manualDir = manualDir
    n1 = n1
    n2 = n2
    Runs = {boot, manual}
    Boot = boot
    Dirs = {bootDir, manualDir}
    WorkDir <- MCWorkDir
    Nodes = {n1, n2}
    Topology <- MCTopology
    NoRun = NoRun
    NoDir = NoDir
    MaxRestarts = 1
INVARIANTS
    CurrentSuccessIsDeployed
    NoSuccessUnderWay
    VerifiesOwnLab
PROPERTY RunsEnd
CHECK_DEADLOCK FALSE
