CONSTANTS
    Thread = {render, loader}
    Window = {w1, w2}
    Context = {c1}
    None = None
    Freed = Freed
    MaxUse = 1
    MaxLate = 1
SPECIFICATION Spec
INVARIANTS TypeOK CurrentIsBound
PROPERTIES DestroyedUnused ViewsGoFirst ShutsDown
