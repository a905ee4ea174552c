CONSTANTS
    Thread = {t1, t2, t3}
    MaxWakers = 2
    WaiterDrop = TRUE
SPECIFICATION MutexSpec
INVARIANTS
    MutualExclusion
    NoSleeperWhenUnlocked
PROPERTIES
    EveryLockReturns
