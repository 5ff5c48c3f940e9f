\* README.md:14 on the status of managed resources, refuted by a new version.
CONSTANTS
    Versions = {"v1"}
    Secrets = {"a"}
    Foreign <- MCForeign
    Namespaces = {"flux-system"}
    ProviderConfigs <- SimpleConfigs
    Retries = 1
    MaxUpsets = 0
    MaxChanges = 1
SPECIFICATION Spec
INVARIANT ReadyMeansRolledOut
CHECK_DEADLOCK FALSE
