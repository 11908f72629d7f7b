\* An IPv4 and an IPv6 scope, the loop run twice.
SPECIFICATION Spec
CONSTANTS
    s1 = s1
    s2 = s2
    Scripts <- MCScripts
    PortOf <- BothFamilies
    InterfaceTries = 2
    SocketTries = 2
    MaxRuns = 2
INVARIANTS
    ReadyMeansServing
    NoForgottenDaemon
PROPERTIES
    ReconcileEnds
CHECK_DEADLOCK FALSE
