SPECIFICATION Spec
CONSTANTS
    Runs = {r1, r2, r3, r4}
    Recording = {r1, r2, r3}
    Gating = {r4}
    Wide = {r2, r3}
    Split = {r3}
    MaxScore = 1
    Failures = TRUE
INVARIANTS
    LossBounded
    GateHonest
CHECK_DEADLOCK FALSE
