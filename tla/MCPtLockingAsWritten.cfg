SPECIFICATION Spec
CONSTANTS
    Thread = {t1, t2}
    NodesPerPosition = 3
    MaxStray = 0
    NR_LEVELS = 2
    NR_ENTRIES = 3
    ItemLevels = {1}
    ItemPages = {0, 3}
    Ranges = {{0, 1, 2, 3, 4}}
    ReleaseEveryChild = FALSE
INVARIANT LocksReturned
