\* One row, one request thread, and an operator who keeps running passes.
CONSTANTS
    a1 = a1
    a3 = a3
    b1 = b1
    b2 = b2
    None = None
    StartupPass = startup
    Ids = {i1}
    Keys = {k1}
    Alerts = {a1}
    Severe = {a1}
    Source <- OneSource
    Backends = {b1}
    Configs <- OneBackend
    Operations = {o1}
    Requests = {r1}
    OperatorPasses = {operator}
    Limit = 1
SPECIFICATION FairSpec
PROPERTIES
    RowsSurface
    RequestsAnswered
