CONSTANTS
    Handshakes = {h1}
    Sessions = {s1}
    Sandboxes = {box}
    MaxGeneration = 2
    MaxLiveTickets = 1
    Commands = {"unlisted", "unresolvable", "denied", "allowed", "withheld"}
    Events = {"retire", "disconnect", "unreadable", "signal", "acceptfails"}
    None = None
SPECIFICATION FairSpec
INVARIANT OnlyPermittedCommands
PROPERTIES CancelledNeverRuns DisconnectKillsCommand ShutdownCompletes
CHECK_DEADLOCK FALSE
