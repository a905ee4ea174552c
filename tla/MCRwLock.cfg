CONSTANTS
    MAX_READER = 2
    Thread = {t1, t2, t3}
SPECIFICATION Spec
INVARIANTS
    WordAccounts
PROPERTIES
    ReaderTurnedAwayForCause
    ImplementsAbstract
    UpgradeCompletes
CHECK_DEADLOCK TRUE
