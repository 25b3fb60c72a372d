\* What a program and the one it sends to do within a few messages.
CONSTANTS
    Program = {a, b}
    Client = a
    Server = fs
    Requests = {"close"}
    MaxSends <- TwiceAndOnce
SPECIFICATION Spec
PROPERTY SendWaitsForReceiver
CHECK_DEADLOCK FALSE
