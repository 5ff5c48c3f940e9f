\* manager.go:48 on the removal of orphans, refuted by a new namespace.
CONSTANTS
    Versions = {"v1"}
    Secrets = {"a"}
    Foreign <- MCForeign
    Namespaces = {"flux-system", "other"}
    ProviderConfigs <- MovedConfigs
    Retries = 1
    MaxUpsets = 0
    MaxChanges = 1
SPECIFICATION Spec
INVARIANT OrphansRemoved
CHECK_DEADLOCK FALSE
