SPECIFICATION Spec
CONSTANTS
    Msg = {m1, m2, m3}
    NoMsg = NoMsg
    QLen = 4
INVARIANTS
    SlotOwnership
PROPERTIES
    ImplementsFifo

