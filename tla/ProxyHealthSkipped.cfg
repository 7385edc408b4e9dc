\* SQLite and nothing goes wrong: two requests fail, and their proxy still has
\* half its score.
\* A process that has closed its recorder stops.
SPECIFICATION FairSpec
CONSTANTS
    p1 = p1
    p2 = p2
    Proxy = {p1, p2}
    Deployments <- MCQuiet
    Full = 4
    Reward = 1
    Penalties = {1}
    Threshold = 2
    BaseCooldown = 1
    MaxCooldown = 2
    MaxFlight = 1
    MaxEvents = 2
    NoRow = NoRow
PROPERTY SkippedForAWhile
CHECK_DEADLOCK FALSE
