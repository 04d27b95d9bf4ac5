SPECIFICATION Spec
CONSTANTS
    Size = {portrait, landscape}
    NoSize = NoSize
    Buffer = {m1, m2, m3}
    NoBuffer = NoBuffer
INVARIANTS
    TypeOK
    OneFrame
    FrameReadableIfCalm
PROPERTIES
    FramesKeepComing
    StopsInBackground
