\* A rolling update with leader election; two crashes, failures or
\* lost leases.
CONSTANTS
    helmRelease = helmRelease
    ociRepository = ociRepository
    copy = copy
    Keys <- MCKeys
    Owned <- MCOwned
    Before <- MCBefore
    Plans <- MCPlans
    MaxUpsets = 2
    LeaderElection = TRUE
SPECIFICATION FairSpec
INVARIANTS
    TypeOK
    NothingLeft
PROPERTIES
    PromiseKept
    EventuallyReleased
CHECK_DEADLOCK FALSE
