\* Deletion and convergence under fairness, what they leave behind in one
\* namespace, and refinement of Manager; one upset, one change.  The namespace
\* does not exist until the HelmRelease creates it, and sources may be missing
\* at first.
CONSTANTS
    Versions = {"v1"}
    Secrets = {"a"}
    Foreign = {}
    Namespaces = {"flux-system"}
    ProviderConfigs <- SimpleConfigs
    Retries = 1
    MaxUpsets = 1
    MaxChanges = 1
SPECIFICATION FairSpec
INVARIANTS
    ReadySound
    NothingLeft
PROPERTIES
    RunsManager
    EventuallyReleased
    Converges
    StallShows
CHECK_DEADLOCK FALSE
