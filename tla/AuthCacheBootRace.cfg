\* An admin transaction commits between the two queries of an initial load.
SPECIFICATION FairSpec
CONSTANTS
    k1 = k1
    k2 = k2
    t1 = t1
    t2 = t2
    Tenant = {t1}
    Key = {k1, k2}
    Owner <- MCOneOwner
    Instance = {i1}
    MaxVersion = 4
    MaxInbox = 1
    BootRace = TRUE
PROPERTY RevocationConverges
