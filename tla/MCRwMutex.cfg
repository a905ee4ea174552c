CONSTANTS
    MAX_READER = 4
    Thread = {t1, t2, t3}
    MaxWakers = 1
    WaiterDrop = TRUE
    Workloads = {{"block"}, {"block", "try"}}
SPECIFICATION Spec
INVARIANTS
    NoSleeperIfAllBlock
PROPERTIES
    ImplementsAbstract
CHECK_DEADLOCK FALSE
SYMMETRY Symmetry
