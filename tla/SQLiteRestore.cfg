\* A process may have ended, and commands and transactions are bounded.
SPECIFICATION MCSpec
CONSTANTS
    plain = plain
    tunnel = tunnel
    refresh = refresh
    Request = {plain, tunnel}
    Forward = {plain}
    Connect = {tunnel}
    Task = {refresh}
    Stages = 2
    Total = 5
    Second = 2
    ProbeEvery = 1
    i1 = i1
    i2 = i2
    l1 = l1
    l2 = l2
    Member = {i1, i2}
    Lease = {l1, l2}
    Skew <- MCSkew
    LeaderTTL = 2
    Lifetime = 1
    BatchLimit = 1
    Floor = 2
    Crashes = 1
    Nobody = Nobody
    Page = {1, 2}
    MaxWrite = 3
    Kills = 2
    Checks = {"metadata"}
    Hole = Hole
    NoFile = NoFile
INVARIANT DatabaseIsWhole
CHECK_DEADLOCK FALSE
