CONSTANTS
    Handshakes = {h1, h2}
    Sessions = {s1, s2}
    Sandboxes = {box}
    MaxGeneration = 1
    MaxLiveTickets = 2
    Commands = {"withheld"}
    Events = {"retire", "unreadable"}
    None = None
SPECIFICATION FairSpec
PROPERTY RetiredSessionsEnd
CHECK_DEADLOCK FALSE
