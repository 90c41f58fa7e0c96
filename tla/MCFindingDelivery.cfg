\* Two findings under one key: one sent up to twice, late, copied or abandoned,
\* the other once.
CONSTANTS
    s1 = s1
    s2 = s2
    event = event
    spelling = spelling
    k1 = k1
    alert1 = alert1
    alert2 = alert2
    None = None
    Senders = {s1, s2}
    Finding <- TwoFindings
    Identity <- SharedKey
    Canonical <- TwoAlerts
    Calls = {c1, c2}
    Ids = {i1, i2}
    MaximumAttempts = 2
    Posts <- MCPosts
    Copied <- MCCopied
CHECK_DEADLOCK FALSE
SYMMETRY Alike
SPECIFICATION Spec
INVARIANTS
    TypeOK
    OneProcessingPerAlert
    AcceptanceTraceable
    SuccessIsDurable
    ConflictIsReal
    ReportedIdIsOwn
