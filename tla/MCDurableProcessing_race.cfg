\* Two requests under one key, with different alerts, race each other and a startup pass.
CONSTANTS
    a1 = a1
    a3 = a3
    b1 = b1
    b2 = b2
    None = None
    StartupPass = startup
    Ids = {i1, i2}
    Keys = {k1}
    Alerts = {a1, a3}
    Severe = {a1}
    Source <- OneSource
    Backends = {b1}
    Configs <- OneBackend
    Operations = {o1, o2}
    Requests = {r1, r2}
    OperatorPasses = {}
    Limit = 1
SYMMETRY Symmetry
SPECIFICATION Spec
INVARIANTS
    TypeOK
    RowsAgree
    AtMostOneOperation
    OrphansAwaitRecovery
    ScopedKeyUnique
    RepliesDurable
PROPERTIES
    TransitionsAllowed
    SettledFactsFrozen
    ImplementsContract
    ImplementsRows
