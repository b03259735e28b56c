SPECIFICATION Spec
CONSTANTS
    Runs = {r1, r2, r3}
    Recording = {r1, r2, r3}
    Gating = {r3}
    Wide = {r1, r2, r3}
    Split = {}
    MaxScore = 1
    Failures = TRUE
INVARIANT StillReadable
CHECK_DEADLOCK FALSE
