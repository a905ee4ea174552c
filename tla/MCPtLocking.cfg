SPECIFICATION Spec
CONSTANTS
    Thread = {t1, t2}
    NodesPerPosition = 3
    MaxStray = 0
    NR_LEVELS = 3
    NR_ENTRIES = 2
    ItemLevels = {1, 2}
    ItemPages = {0}
    Ranges = {{0}, {1, 2}, {3, 4}, {0, 1, 2, 3, 4, 5, 6, 7}}
    ReleaseEveryChild = TRUE
INVARIANTS
    RangeOwned
    NodesAccounted
PROPERTIES
    SomeoneGetsTheRange
