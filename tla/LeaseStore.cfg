\* Two creates, two renewals and a revoke of one lease, on each of the three
\* stores, where no key is reused after its row is deleted; and five calls that
\* append events there, two of them at a time.  Requests run once, so the system
\* may stop.
SPECIFICATION MCSpec
CONSTANTS
    c1 = c1
    c2 = c2
    n1 = n1
    n2 = n2
    v1 = v1
    Lease = {l1}
    Request = {c1, c2, n1, n2, v1}
    Kind <- MCKind
    TTL <- MCTTL
    MaxTime = 2
    KeyReuse = FALSE
    Drivers = {"mysql", "sqlite", "memory"}
    Longest = 2
    NoRow = NoRow
    e1 = e1
    e2 = e2
    e3 = e3
    e4 = e4
    e5 = e5
    e6 = e6
    e7 = e7
    e8 = e8
    u1 = u1
    u2 = u2
    u3 = u3
    a1 = a1
    a2 = a2
    ta = ta
    tb = tb
    Event = {e1, e2, e3, e4, e5, e6, e7, e8}
    EventID <- MCEventID
    TenantID <- MCTenantID
    NoID = NoID
    NoTenant = NoTenant
    Old = {e1, e3, e5}
    Call = {u1, u2, u3, a1, a2}
    Table <- MCTable
    Route <- MCRoute
    Events <- MCEvents
    Worker = {w1, w2}
    NoJob = NoJob
    Stores = {"mysql", "sqlite", "memory"}
    Parts = {"leases", "ledger"}
INVARIANTS OnePassword RowKeepsItsPassword NoSilentOverwrite WholeBatches
PROPERTIES DeadStaysDead RevokeAnswerHolds KeepsThePromise RowsAreFinal
SYMMETRY Callers
CHECK_DEADLOCK FALSE
