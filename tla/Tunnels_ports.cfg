SPECIFICATION Spec
CONSTANTS
    Targets = {t1, t2}
    Ports = {p1, p2}
    PortAttempts = 2
    TakenPorts = {p2}
    Nobody = Nobody
    Stranger = Stranger
    NoPort = NoPort
INVARIANTS
    ProcessesReaped
    OwnForward
PROPERTY EveryScanEnds
CHECK_DEADLOCK FALSE
