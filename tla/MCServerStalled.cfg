CONSTANTS
    Handshakes = {h1, h2}
    Sessions = {s1, s2}
    Sandboxes = {box}
    MaxGeneration = 1
    MaxLiveTickets = 2
    Commands = {"allowed"}
    Events = {"retire", "stall"}
    None = None
SPECIFICATION FairSpec
PROPERTY RevocationReachesReaders
CHECK_DEADLOCK FALSE
