SPECIFICATION MemSpec
INVARIANTS
    PhysicalMemoryAccounted
    TranslationsExact
    VmIoExact
    PageTablesOwn
    PciDevicesKept
    IoResourcesKept
    InterruptsAccounted
    BitmapsExact
PROPERTIES
    FramesSound
    ListIsSequence
CHECK_DEADLOCK FALSE
