\* Every program of one or two segments in three pages of three bytes, with
\* memory enough or not.
CONSTANTS
    PAGE_SIZE = 3
    PageCount = 4
    RegionPages = 2
    Programs <- SmallPrograms
    Memory = {3, 6}
SPECIFICATION Spec
INVARIANTS
    TypeOK
    LoadedAsLinked
    FaultsOnlyAtBareHeads
    MapsOnlySegments
CHECK_DEADLOCK FALSE
