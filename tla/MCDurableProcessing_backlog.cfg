\* Two rows at once: one request thread and a pass that work on either of them.
CONSTANTS
    a1 = a1
    a3 = a3
    b1 = b1
    b2 = b2
    None = None
    StartupPass = startup
    Ids = {i1, i2}
    Keys = {k1, k2}
    Alerts = {a1}
    Severe = {a1}
    Source <- OneSource
    Backends = {b1}
    Configs <- OneBackend
    Operations = {o1, o2}
    Requests = {r1}
    OperatorPasses = {}
    Limit = 2
VIEW ExceptReplies
SYMMETRY Symmetry
SPECIFICATION Spec
INVARIANTS
    OutcomeIsRemote
