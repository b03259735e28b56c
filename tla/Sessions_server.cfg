SPECIFICATION Spec
CONSTANTS
    Kinds = {"kexinit", "host_key", "auth"}
    Servers <- MCServers
    LineLimit = 2
    ReadLimit = 2
    AuthLimit = 2
    NoiseLimit = 3
INVARIANTS
    SequenceAgree
    KeyIsReal
    FailureHasCause
    ReadsBounded
CHECK_DEADLOCK FALSE
