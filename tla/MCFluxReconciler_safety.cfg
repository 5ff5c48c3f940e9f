\* Safety of the controller, with a namespace that changes from one configuration
\* to the next, and refinement of Teardown; one upset, two changes.
CONSTANTS
    Versions = {"v1"}
    Secrets = {"a"}
    Namespaces = {"flux-system", "other"}
    Foreign <- MCForeign
    ProviderConfigs <- ReachConfigs
    Retries = 1
    MaxUpsets = 1
    MaxChanges = 2
SPECIFICATION Spec
INVARIANTS
    TypeOK
    ReadySoundHere
    VerdictSoundHere
PROPERTIES
    PromiseKept
    ForeignUntouched
    CleanersSpareUnlabelled
    WantedSurvive
CHECK_DEADLOCK FALSE
