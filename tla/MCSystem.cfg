SPECIFICATION SysSpec
CONSTANTS
    CPU = {c1, c2}
    Task = {t1, t2}
    Obj = {o1, o2, o3}
    Null = Null
    NoGuard = NoGuard
INVARIANTS
    SafeReclamation
    BootHandsOver
    RemappingComplete
    SpinsEnd
    PointersOwn
    UnmapExact
PROPERTIES
    BusyEnds
    RetiredIsDropped
    BootCompletes
CHECK_DEADLOCK FALSE
