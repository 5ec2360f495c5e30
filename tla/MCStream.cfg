CONSTANTS
    MaxIn = 2
    MaxOut = 1
    Wire = 2
    Room = 1
    Events = {"shut", "quit", "unreadable"}
SPECIFICATION FairSpec
INVARIANTS TypeOK ExitAfterOutput StdinIntact
PROPERTIES ClientReturns EndOfInputArrives
CHECK_DEADLOCK FALSE
