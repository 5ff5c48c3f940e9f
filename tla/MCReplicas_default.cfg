\* manager-pattern.md:88 on what a deletion leaves, refuted by a rolling update
\* with the default flags; nothing fails.
CONSTANTS
    helmRelease = helmRelease
    ociRepository = ociRepository
    copy = copy
    Keys <- MCKeys
    Owned <- MCOwned
    Before <- MCBefore
    Plans <- MCPlans
    MaxUpsets = 0
    LeaderElection = FALSE
SPECIFICATION Spec
INVARIANT NothingLeft
CHECK_DEADLOCK FALSE
