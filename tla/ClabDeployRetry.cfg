\* deploy_lab with the default number of attempts, with and without setsid.
SPECIFICATION FairSpec
CONSTANTS
    DeployAttempts = 3
    FifoLines = 2
    Lines <- MCLines
INVARIANTS
    AcceptedIsClean
    NothingLeftRunning
PROPERTIES
    RetryHasCause
    DeployEnds
    ImplementsContract
