SPECIFICATION Spec
CONSTANTS
    a = a
    b = b
    a1 = a1
    a2 = a2
    b1 = b1
    Names = {x, y}
    None = None
    Transaction = {t1}
    NoTransaction = NoTransaction
    Data <- MCData
    Installations <- MCInstallations
    ProjectOf <- MCProjectOf
    MaxEdits = 1
CONSTRAINT EditsWhileCalm
SYMMETRY Symmetry
INVARIANTS
    TypeOK
    PreviousRemainUnlessMet
    ListIsCurrent
PROPERTIES
    Atomic
