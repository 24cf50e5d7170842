CONSTANTS
    Byte = {0, 1, 3}
    Erased = 3
    And <- MCAnd
    PageSize = 2
    SectorSize = 4
    Sectors = 2
    Text <- MCText
    ChipID = 61206
SPECIFICATION Spec
INVARIANTS
    TypeOK
    CallersKeepConditions
PROPERTIES
    OtherSectorsKept
    ImplementsByteStore
