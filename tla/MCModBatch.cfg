SPECIFICATION Spec
CONSTANTS
    Names = {x, y}
    Data = {d1, d2}
    BatchId = {b1, b2}
    None = None
    NoBatch = NoBatch
    MaxEdits = 1
CONSTRAINT EditsWhileRead
SYMMETRY Symmetry
INVARIANTS
    TypeOK
    OnePending
    Restorable
    SuccessIsInstalled
PROPERTIES
    WriteAhead
    Atomic
