CONSTANTS
    Handshakes = {h1, h2}
    Sessions = {s1, s2}
    Sandboxes = {box}
    MaxGeneration = 1
    MaxLiveTickets = 1
    Commands = {"withheld"}
    Events = {"retire", "disconnect", "stall", "flood", "unreadable", "signal", "acceptfails"}
    None = None
SPECIFICATION Spec
INVARIANTS TypeOK OneTicketOneSession CommandsHadCurrentTokens CommandsAreTracked EndedForCause
PROPERTIES SessionsTakeTurns ImplementsWarden
SYMMETRY Symmetry
CHECK_DEADLOCK FALSE
