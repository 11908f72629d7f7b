\* The loops of a deployment, run twice, over the services of small labs.
SPECIFICATION ServiceSpec
CONSTANTS
    None = None
    Stem <- MCStem
    Width = 4
    ServiceLabs <- MCLabs
    Contents <- MCContents
    AddressTries = 2
    SocketTries = 2
    MaxRuns = 2
INVARIANTS
    NothingIsMissing
    ReadyMeansServed
    LoopTellsTheTruth
CHECK_DEADLOCK FALSE
