\* What a test of the version race says of the truth cache.
\* Requests run once, so the system may stop.
SPECIFICATION ServiceSpec
CONSTANTS
    a = a
    b = b
    c1 = c1
    n1 = n1
    x1 = x1
    v1 = v1
    v2 = v2
    v3 = v3
    Lease = {l1}
    Request = {c1, n1, x1, v1, v2, v3}
    Instance = {a, b}
    Kind <- MCKind
    Home <- MCHome
    Presents <- MCPresents
    OnTarget = {v1, v2, v3}
    TTL <- MCTTL
    MaxTime = 3
    LocalMax = 1
    Sites <- MCPrompt
    KeyReuse = FALSE
    NoRow = NoRow
    NoEntry = NoEntry
PROPERTY NoTruthAcrossVersions
CHECK_DEADLOCK FALSE
