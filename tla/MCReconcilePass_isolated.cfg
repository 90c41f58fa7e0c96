\* One failing read.
CONSTANTS
    Rows = {r1, r2, r3}
    Passes = {startup}
    Limit = 2
    Budget = 1
    Faults = 1
SPECIFICATION Spec
INVARIANTS
    FailureIsolated
