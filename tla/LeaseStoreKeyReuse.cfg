\* Two creates, two renewals and a revoke of one lease; a caller may
\* reuse a key whose row is deleted.
SPECIFICATION MCSpec
CONSTANTS
    c1 = c1
    c2 = c2
    n1 = n1
    n2 = n2
    v1 = v1
    Lease = {l1}
    Request = {c1, c2, n1, n2, v1}
    Kind <- MCKind
    TTL <- MCTTL
    MaxTime = 3
    KeyReuse = TRUE
    Drivers = {"mysql"}
    Longest = 2
    NoRow = NoRow
    e1 = e1
    e2 = e2
    e3 = e3
    e4 = e4
    e5 = e5
    e6 = e6
    e7 = e7
    e8 = e8
    u1 = u1
    u2 = u2
    u3 = u3
    a1 = a1
    a2 = a2
    ta = ta
    tb = tb
    Event = {e1, e2, e3, e4, e5, e6, e7, e8}
    EventID <- MCEventID
    TenantID <- MCTenantID
    NoID = NoID
    NoTenant = NoTenant
    Old = {e1, e3, e5}
    Call = {u1, u2, u3, a1, a2}
    Table <- MCTable
    Route <- MCRoute
    Events <- MCEvents
    Worker = {w1, w2}
    NoJob = NoJob
    Stores = {"mysql"}
    Parts = {"leases"}
INVARIANT RowKeepsItsPassword
CHECK_DEADLOCK FALSE
