\* Every pair of invocations.
CONSTANTS
    None = None
    Invalid = Invalid
    Overflow = Overflow
    Inputs <- MCInputs
    HostNames = {"ws1", "ws2"}
    EarliestTime <- MCEarliest
    EndOfTime = 6
    EventCodeMaximum = 1
    RecordIdMaximum = 2
SPECIFICATION Spec
CHECK_DEADLOCK FALSE
INVARIANTS
    SkippedIsHeld
    RepeatIsReplayed
    SenderIsStricter
