SPECIFICATION Spec
CONSTANTS
    Task = {t1}
    NoTask = NoTask
    Meta = Meta
    Index = Index
    Libs = {lib}
    Assets = {asset}
    Unsized = {}
INVARIANTS
    TypeOK
    LaunchedWhenReceived
    LaunchedOnce
PROPERTIES
    PlayAgain
CHECK_DEADLOCK FALSE
