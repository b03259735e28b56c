SPECIFICATION Spec
CONSTANTS
    Jobs = {j1, j2, j3}
    Clients = {}
    MaxRunning = 1
    MaxJobs = 2
    Total = 1
    ScanOutcomes = {"report", "exception", "exit"}
    NoJob = NoJob
PROPERTIES
    SlotsComeBack
    AcceptedEnds
CHECK_DEADLOCK FALSE
