\* Two of three sectors at a time; requests run past the last sector, which is
\* also the last one that an address can name.
CONSTANTS
    SectorCount = 3
    SectorSpan = 3
    MaxSector = 3
    Data = {a, b}
    MaxLength = 2
    MaxTries = 2
    InitTimes = 2
SPECIFICATION FairSpec
INVARIANTS
    TypeOK
    ReadDelivers
    WritesInOrder
PROPERTIES
    CallEnds
CHECK_DEADLOCK FALSE
