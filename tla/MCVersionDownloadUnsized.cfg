SPECIFICATION Spec
CONSTANTS
    Task = {t1}
    NoTask = NoTask
    Meta = Meta
    Index = Index
    Libs = {lib}
    Assets = {asset}
    Unsized = {lib}
INVARIANTS
    NothingToDownload
CHECK_DEADLOCK FALSE
