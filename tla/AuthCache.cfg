\* One instance that refreshes and may lose every message; two tenants.
SPECIFICATION FairSpec
CONSTANTS
    k1 = k1
    k2 = k2
    t1 = t1
    t2 = t2
    Tenant = {t1, t2}
    Key = {k1, k2}
    Owner <- MCTwoOwners
    Instance = {i1}
    MaxVersion = 5
    MaxInbox = 2
    BootRace = FALSE
INVARIANTS CurrentVersionCurrentKeys
PROPERTIES VersionTellsTheTruth CopyNeverGoesBack RevocationConverges
