\* Four entries, all of which a run may fill and empty.
CONSTANTS
    PROCESS_TOTAL_NUMBER = 4
    NULL = NULL
SPECIFICATION FairSpec
INVARIANTS
    TypeOK
    RunQueueExact
    FreeListExact
    BlockedIffReceiving
    CurrentIsRunnable
    SpinsOnlyWhenStuck
    PidsResolve
PROPERTIES
    NoOvertaking
    NoStarvation
\* The kernel does stop: every process blocked, or exit in pgdir_free.
CHECK_DEADLOCK FALSE
