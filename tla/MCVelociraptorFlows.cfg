\* A submission, an investigate() with one poll before its deadline, and an
\* unsupported request; three faults.
CONSTANTS
    o1 = o1
    o2 = o2
    o3 = o3
    h1 = h1
    c1 = c1
    c2 = c2
    None = None
    Operations = {o1, o2, o3}
    Legacy = {o2}
    Unsupported = {o3}
    Hosts = {h1}
    Target <- MCTarget
    Clients = {c1, c2}
    Mappings <- MCMappings
    Flows = {F1, F2}
    Polls = 1
    Faults = 3
SPECIFICATION FairSpec
INVARIANTS
    TypeOK
    RejectedIsFinal
    HoldsOwnFlow
    ReportsAreTrue
PROPERTIES
    InvestigateEnds
    FinishedIsReported
CHECK_DEADLOCK FALSE
