SPECIFICATION CachesSpec
CONSTANTS
    Threads = {t1, t2}
    TTL = 2
    MaxClock = 5
    Scans = {s1, s2}
    Hosts = {h1}
    PortsOfHost = {22, 2222}
    MaxActive = 2
    MaxVersion = 1
SYMMETRY Symmetry
INVARIANTS
    BoundedStaleness
    OutageSurvived
    QueriesBounded
CHECK_DEADLOCK FALSE
