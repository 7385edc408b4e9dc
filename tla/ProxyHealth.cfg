\* Every store; the queue overflows, statements fail and commit late.
\* A process that has closed its recorder stops.
SPECIFICATION FairSpec
CONSTANTS
    p1 = p1
    p2 = p2
    Proxy = {p1, p2}
    Deployments <- MCDeployments
    Full = 4
    Reward = 1
    Penalties = {2}
    Threshold = 2
    BaseCooldown = 1
    MaxCooldown = 2
    MaxFlight = 1
    MaxEvents = 3
    NoRow = NoRow
INVARIANTS CoalesceIsFaithful AtMostTwice NothingLeftBehind
PROPERTY CloseReturns
CHECK_DEADLOCK FALSE
