\* Does a run that succeeds leave the same addresses in both files?
SPECIFICATION Spec
CONSTANTS
    job4 = job4
    job6 = job6
    here = here
    elsewhere = elsewhere
    Scope = here
    Network <- MCNetwork
    NoIdentity = NoIdentity
    NoHost = NoHost
    Bad = {"-x"}
    Dotted = {"a.b"}
    Folded <- MCFolded
    Lists <- AcceptedLists
    Jobs = {job4, job6}
    Family <- MCFamily
    Classes <- MCClasses
    NoJob = NoJob
    Missing = Missing
    Partial = Partial
INVARIANTS
    RunAgrees
