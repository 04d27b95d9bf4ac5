SPECIFICATION Spec
CONSTANTS
    Names = {x, y}
    Data = {d1, d2}
    BatchId = {b1}
    None = None
    NoBatch = NoBatch
    MaxEdits = 0
INVARIANTS
    AlwaysRecoverable
CHECK_DEADLOCK FALSE
