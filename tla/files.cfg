\* Three small disks; Followed cuts off what the server makes of words it did not write.
CONSTANTS
    NBLOCK = 9
    NDIRECT = 1
    NINDIRECT = 3
    BY2BLK = 2
    FILE2BLK = 2
    Names = {"motd", "newmotd"}
    Images <- SmallImages
    Paths <- SmallPaths
    Sizes = {0, 1, 2, 5}
    Contents <- SmallContents
SPECIFICATION Spec
CONSTRAINT Followed
INVARIANTS
    TypeOK
    BlocksUnsharedIfClean
    UsedBlocksTaken
    NothingLeaks
    DiskBitmapSafe
CHECK_DEADLOCK FALSE
