\* The disks of files.cfg, without the root directory as a file, and the states
\* after stale words are used as well.
CONSTANTS
    NBLOCK = 9
    NDIRECT = 1
    NINDIRECT = 3
    BY2BLK = 2
    FILE2BLK = 2
    Names = {"motd", "newmotd"}
    Images <- SmallImages
    Paths <- NamedPaths
    Sizes = {0, 1, 2, 5}
    Contents <- SmallContents
SPECIFICATION Spec
INVARIANT BlocksUnshared
CHECK_DEADLOCK FALSE
