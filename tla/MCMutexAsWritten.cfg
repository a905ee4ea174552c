CONSTANTS
    Thread = {t1, t2}
    MaxWakers = 2
    WaiterDrop = FALSE
SPECIFICATION MutexSpec
INVARIANTS
    NoSleeperWhenUnlocked
