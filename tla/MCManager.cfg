\* A call, its verdict, Teardown's promise, and the end of deletion under fairness;
\* two upsets.
CONSTANTS
    helmRelease = helmRelease
    ociRepository = ociRepository
    copyA = copyA
    copyB = copyB
    Keys <- MCKeys
    Owned <- MCOwned
    Before <- MCBefore
    Plans <- AllPlans
    MaxUpsets = 2
SPECIFICATION FairSpec
INVARIANTS
    TypeOK
    CallInv
    
    VerdictSound
PROPERTIES
    PromiseKept
    EventuallyReleased
