\* A parent that reads what its child writes; both start with both ends.
CONSTANTS
    Proc = {parent, child}
    Creator = parent
    Reader = parent
    Writer = child
    BY2PIPE = 2
    MaxCount = 2
    MaxBytes = 3
    MaxOthers = 1
SPECIFICATION FairSpec
INVARIANTS
    TypeOK
    BytesInOrder
PROPERTIES
    ClosedOrRaced
    WaitsEnd
CHECK_DEADLOCK FALSE
