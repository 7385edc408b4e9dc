\* Readers, writers and checks run once, so the system may stop.
SPECIFICATION MCSpec
CONSTANTS
    Proxy = {1, 2, 3}
    Instance = {a, b}
    Weight <- MCWeight
    Quantum = 6
    Modes <- MCModes
    Evals = 2
    MaxClock = 2
    None = None
    Refusal = Refusal
    a = a
    b = b
    Host = {h1, h2}
    Check = {c1, c2, c3}
    HostOf <- MCHostOf
    KeepTime = 1
    CacheMax = 1
    Patience = 1
    Horizon = 2
    Impatient = {c1, c2}
    Changes = 1
    Nobody = Nobody
    h1 = h1
    h2 = h2
    c1 = c1
    c2 = c2
    c3 = c3
    Reader = {r1, r2}
    Writer = {w1, w2}
    TTL = 1
    Blank = {1}
    MaxStored = 2
    MaxTime = 1
    NoEntry = NoEntry
    NoCall = NoCall
    Failed = Failed
    r1 = r1
    r2 = r2
    w1 = w1
    w2 = w2
INVARIANTS ReadYourWrites StaleForLessThanTTL NeverRefusedInVain NeverOvercharged FairTogether CreditIsBounded SafeIsRecent RefusedForCause
PROPERTIES EveryReaderIsAnswered EveryCheckEnds
CHECK_DEADLOCK FALSE
