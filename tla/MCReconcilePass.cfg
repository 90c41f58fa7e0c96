\* Three rows, two to a batch, one pass after another beside request threads.
CONSTANTS
    Rows = {r1, r2, r3}
    Passes = {startup}
    Limit = 2
    Budget = 1
    Faults = 1
SPECIFICATION FairSpec
INVARIANTS
    TypeOK
    ReportAccounts
PROPERTIES
    EveryRowReached
