\* Routers come and go between any two commands of the script.
SPECIFICATION SyncSpec
CONSTANTS
    Routers = {r1, r2, r3}
    Attempts = 3
    MaxPending = 2
INVARIANTS
    RestMeansFollowing
PROPERTY Converges
