SPECIFICATION Spec
CONSTANTS
    a = a
    b = b
    a1 = a1
    a2 = a2
    b1 = b1
    Names = {x, y}
    None = None
    Transaction = {t1, t2}
    NoTransaction = NoTransaction
    Data <- MCData
    Installations <- MCInstallations
    ProjectOf <- MCProjectOf
    MaxEdits = 0
INVARIANTS
    PreviousRemain
