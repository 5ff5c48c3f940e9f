\* The start of the controller despite three failures, timeouts or crashes.
CONSTANT MaxUpsets = 3
SPECIFICATION FairSpec
INVARIANTS
    TypeOK
    RunningSound
PROPERTY EventuallyRunning
CHECK_DEADLOCK FALSE
