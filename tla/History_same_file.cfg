SPECIFICATION Spec
CONSTANTS
    Runs = {r1, r2}
    Recording = {r1, r2}
    Gating = {r1, r2}
    Wide = {}
    Split = {}
    MaxScore = 1
    Failures = FALSE
INVARIANT GateHonest
CHECK_DEADLOCK FALSE
