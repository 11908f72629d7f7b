\* Runs of two versions of the inputs on one tag, one of which always rebuilds; they
\* begin four times in all, overlap, and may be killed.
SPECIFICATION CacheSpec
CONSTANTS
    r1 = r1
    r2 = r2
    r3 = r3
    k1 = k1
    k2 = k2
    Keys = {k1, k2}
    Runs = {r1, r2, r3}
    KeyOf <- TwoVersions
    ForceRebuild <- FirstOnly
    SaveCache = TRUE
    AllowExisting <- Nobody
    NoKey = NoKey
    MaxRuns = 4
INVARIANTS
    CacheHoldsItsKey
    ReadyMeansCached
CHECK_DEADLOCK FALSE
