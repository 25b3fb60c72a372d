\* Two programs and the file server; two requests stand for the seven.
CONSTANTS
    Program = {a, b}
    Client = a
    Server = fs
    Requests = {"open", "map"}
    MaxSends <- TwiceAndOnce
SPECIFICATION FairSpec
INVARIANTS
    TypeOK
PROPERTIES
    ImplementsMailbox
    AnswersMatch
    CallsReturn
CHECK_DEADLOCK FALSE
