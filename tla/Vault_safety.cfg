SPECIFICATION VaultSpec
CONSTANTS
    None = None
    Torn = Torn
    MaxTime = 2
    MaxIds = 2
    Kinds <- GoogleOnly
    EnvKinds <- OneKind
    Lifetimes = {1}
    TTL = 2
    Interval = 1
    MaxKey = 1
    VaultFaults = {"disk", "torn"}
INVARIANTS CacheCurrent StaleBounded DiskKept
CONSTRAINT Bounds
