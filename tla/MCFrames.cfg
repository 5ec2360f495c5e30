CONSTANTS
    w1 = w1
    w2 = w2
    w3 = w3
    Writers = {w1, w2, w3}
    NoWriter = NoWriter
    HeaderLen = 2
    MaxPayload = 2
    MaxCalls = 1
    MaxWrite = 3
    Room = 2
SPECIFICATION FairSpec
INVARIANTS TypeOK StreamsInOrder
PROPERTIES ImplementsQueue CallsReturn
CHECK_DEADLOCK FALSE
