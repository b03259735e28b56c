SPECIFICATION Spec
CONSTANTS
    N = 3
    Concurrency = 2
    Faults = {"exception", "exit", "callback", "thread", "plugin", "interrupt"}
INVARIANTS
    ReportComplete
    NotifiedOnce
    ThreadsJoined
PROPERTIES
    Promise
    EveryScanReturns
CHECK_DEADLOCK FALSE
