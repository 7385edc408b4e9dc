\* Calls run once, so the system may stop.
SPECIFICATION ClientSpec
CONSTANTS
    Lease = {c1, c2, c3}
    Holder = {1, 2}
    Longest = 3
    Shortest = 2
    NoLease = NoLease
    c1 = c1
    c2 = c2
    c3 = c3
    Clients <- MCClients
    MaxAttempts = 2
    Missing = Missing
    Silence = Silence
    Refused = Refused
    NoCall = NoCall
INVARIANTS PasswordIsRightOrLost CacheFollowsServer ReleaseAnswerHolds
INVARIANT RevivedOnlyByRenewal
PROPERTIES NoNeedlessCreate EveryCallReturns
CHECK_DEADLOCK FALSE
