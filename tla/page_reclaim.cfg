\* What the reclaiming of unmapped pages should give.
CONSTANTS
    Proc = {p1, p2}
    First = p1
    Va <- CodeAndStack
    GigaOf <- OneGiga
    RegionOf <- MCRegionOf
    ProgramVa = 1
    PageNum = 11
    SetupPages = 2
    TableAfter <- MCTableAfter
    IdentityAfter <- MCIdentityAfter
    Data = {0, 1}
    Zero = 0
    Asked <- UserPages
    NULL = NULL
    ExplicitSharing = FALSE
SPECIFICATION Spec
PROPERTIES
    UnmapReleases
CHECK_DEADLOCK FALSE
