\* Two requests and two passes over the same rows.
CONSTANTS
    None = None
    Pass = Pass
    Requests = {r1, r2}
    Processings = {p1, p2}
    Passes = 2
CHECK_DEADLOCK FALSE
SYMMETRY Symmetry
SPECIFICATION Spec
INVARIANTS
    ContextIsOfWork
    OperationIsNamed
    AnswerIsNamed
