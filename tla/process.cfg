\* Two entries: every pair of contexts can be switched, forked and lost.
CONSTANTS
    PROCESS_TOTAL_NUMBER = 2
    NULL = NULL
    Regs = {r0, r1}
    Entry = r0
    Values = {7}
    Keys = {10}
SPECIFICATION ProcessSpec
INVARIANTS
    ContextTypeOK
    ParentIsOlder
PROPERTIES
    ImplementsVirtualCpus
CHECK_DEADLOCK FALSE
