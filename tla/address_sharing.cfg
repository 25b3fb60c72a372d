\* Two processes that map each other's pages at will.
CONSTANTS
    Proc = {p1, p2}
    First = p1
    Va <- CodeAndStack
    GigaOf <- MCGigaOf
    RegionOf <- MCRegionOf
    ProgramVa = 1
    PageNum = 16
    SetupPages = 4
    TableAfter <- MCTableAfter
    IdentityAfter <- MCIdentityAfter
    Data = {0}
    Zero = 0
    Asked <- AllPages
    NULL = NULL
    ExplicitSharing = TRUE
SPECIFICATION Spec
INVARIANTS
    TypeOK
    RefExact
    
    
\* The kernel panics, or a process exits.
CHECK_DEADLOCK FALSE
