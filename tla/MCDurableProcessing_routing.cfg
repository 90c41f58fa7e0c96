\* Any routing at every start of either process: no backend, one, or two.
CONSTANTS
    a1 = a1
    a3 = a3
    b1 = b1
    b2 = b2
    None = None
    StartupPass = startup
    Ids = {i1}
    Keys = {k1}
    Alerts = {a1}
    Severe = {a1}
    Source <- OneSource
    Backends = {b1, b2}
    Configs <- AnyRouting
    Operations = {o1}
    Requests = {r1}
    OperatorPasses = {operator}
    Limit = 1
SPECIFICATION Spec
INVARIANTS
    NoEffectWithoutClaim
    RepliesDurable
