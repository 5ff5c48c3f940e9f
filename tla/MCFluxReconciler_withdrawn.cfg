\* manager-pattern.md:88 on what a deletion leaves, refuted by a version that
\* is withdrawn before the deletion.
CONSTANTS
    Versions = {"v1"}
    Secrets = {"a"}
    Foreign <- MCForeign
    Namespaces = {"flux-system"}
    ProviderConfigs <- WithdrawnConfigs
    Retries = 1
    MaxUpsets = 0
    MaxChanges = 1
SPECIFICATION Spec
INVARIANT NothingLeft
CHECK_DEADLOCK FALSE
