\* Three processes, so that what a fork shared is shared again by the next;
\* memory runs out at every point of the set-up of the later ones.
CONSTANTS
    Proc = {p1, p2, p3}
    First = p1
    Va <- CodeAndStack
    GigaOf <- OneGiga
    RegionOf <- MCRegionOf
    ProgramVa = 1
    PageNum = 12
    SetupPages = 2
    TableAfter <- MCTableAfter
    IdentityAfter <- MCIdentityAfter
    Data = {0, 1}
    Zero = 0
    Asked <- UserPages
    NULL = NULL
    ExplicitSharing = FALSE
SPECIFICATION Spec
INVARIANTS
    SharedAreReadOnly
PROPERTIES
    ImplementsPrivateMemory
    CopyOnWriteUnseen
SYMMETRY OthersSymmetry
\* The kernel panics, or a process exits.
CHECK_DEADLOCK FALSE
