SPECIFICATION Spec
CONSTANTS
    NR_LEVELS = 3
    NR_ENTRIES = 2
    Items <- MCItems
    Props = {"rw", "ro"}
    NewProps = {"ro"}
    Ranges <- MCRanges
    MapsAt <- MapsTwo
    HIGHEST_TRANSLATION_LEVEL = 2
    TOP_LEVEL_CAN_UNMAP = FALSE
CHECK_DEADLOCK FALSE
PROPERTIES
    CursorSound
    CallsReturn
    Refines
