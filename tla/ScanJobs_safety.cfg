SPECIFICATION Spec
CONSTANTS
    Jobs = {j1, j2, j3}
    Clients = {c1}
    MaxRunning = 2
    MaxJobs = 2
    Total = 1
    ScanOutcomes = {"report", "exception", "exit"}
    NoJob = NoJob
SYMMETRY Symmetry
INVARIANTS
    TypeOK
    SlotsAccounted
    NoGhostJob
    DoneIsComplete
    DoneThenNoConflict
CHECK_DEADLOCK FALSE
