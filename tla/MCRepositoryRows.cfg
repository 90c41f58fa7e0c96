\* Two new processings, one or two idempotency keys, one legacy row.
CONSTANTS
    NewIds = {i1, i2}
    LegacyIds = {old1}
    Keys = {k1, k2}
    None = None
SPECIFICATION Spec
INVARIANTS
    TypeOK
    NeverRefused
    RepositoriesAgree
    LegacySettled
