SPECIFICATION MCSpec
CONSTANTS
    None = None
    Torn = Torn
    t1 = t1
    t2 = t2
    w1 = w1
    w2 = w2
    MaxTime = 2
    Tokens = {t1}
    Workers = {w1}
    Owner <- OneToken
    Lives = {1, 3}
    Limit = 1
    Window = 1
    Extensions = {1}
    TokenFaults = {"redis"}
    MaxIds = 1
    Kinds = {}
    EnvKinds <- GithubOnly
    Lifetimes = {}
    TTL = 1
    Interval = 1
    MaxKey = 0
    VaultFaults = {"disk"}
    MaxCalls = 2
    AuditFaults = {"part"}
    Reqs = {r1, r2}
    Services <- ThreeServices
    May <- NotMatrix
    EnvKeys = {}
    Configured = {}
INVARIANTS RevokedForGood ExtendedLives NoneSpoilt
PROPERTY ExitLosesNothing
