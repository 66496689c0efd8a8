SPECIFICATION MCSpec
CONSTANTS
    None = None
    Torn = Torn
    t1 = t1
    t2 = t2
    w1 = w1
    w2 = w2
    MaxTime = 3
    Tokens = {t1}
    Workers = {w1}
    Owner <- OneToken
    Lives = {1, 4}
    Limit = 1
    Window = 1
    Extensions = {4}
    TokenFaults = {"redis"}
    MaxIds = 1
    Kinds = {}
    EnvKinds <- GithubOnly
    Lifetimes = {}
    TTL = 1
    Interval = 1
    MaxKey = 0
    VaultFaults = {}
    MaxCalls = 2
    AuditFaults = {"append", "part"}
    Reqs = {r1, r2}
    Services <- ThreeServices
    May <- NotMatrix
    EnvKeys = {}
    Configured = {}
INVARIANTS TypeOK RevokedRefused RateBounded AuditAccounted
PROPERTY RequestsEnd
