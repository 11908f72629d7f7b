\* The source is replaced by contents both readers accept, one of them, or none.
SPECIFICATION Spec
CONSTANTS
    job4 = job4
    job6 = job6
    here = here
    elsewhere = elsewhere
    Scope = here
    Network <- MCNetwork
    NoIdentity = NoIdentity
    NoHost = NoHost
    Bad = {"-x"}
    Dotted = {"a.b"}
    Folded <- MCFolded
    Lists <- MCLists
    Jobs = {job4, job6}
    Family <- MCFamily
    Classes <- MCClasses
    NoJob = NoJob
    Missing = Missing
    Partial = Partial
INVARIANTS
    FailureKeepsKea
    LeasesDistinct
    QuietRunAgrees
