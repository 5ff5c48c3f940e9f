\* The status and deletions under configurations that cannot be deployed, while the
\* version and the configuration change; nothing fails.
CONSTANTS
    Versions = {"v1", "v2"}
    Secrets = {"a"}
    Foreign <- MCForeign
    Namespaces = {"flux-system"}
    ProviderConfigs <- BrokenConfigs
    Retries = 1
    MaxUpsets = 0
    MaxChanges = 2
SPECIFICATION FairSpec
PROPERTIES
    BrokenShows
    EventuallyReleasedOnceRepaired
CHECK_DEADLOCK FALSE
