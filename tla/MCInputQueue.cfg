SPECIFICATION Spec
CONSTANTS
    Producer = {p1, p2}
    Window = {w1, w2}
    NoWindow = NoWindow
    Nobody = Nobody
    Render = Render
    Capacity = 2
    MaxSent = 3
    Place = {here, there}
INVARIANTS
    TypeOK
    NothingLost
PROPERTIES
    OneStream
    Delivered
    CursorTold
