CONSTANTS
    Catalog <- MCCatalog
    Spelling <- MCSpelling
    NoBox = NoBox
    Host = Host
    HostResource = Host
    ActionGroups <- MCActionGroups
    AnyAction = AnyAction
    Calls = {c1, c2}
    Requests <- MCRequests
    Maps <- MCMaps
    RefName <- MCNames
    Malformed = Malformed
    NoRequest = NoRequest
    MaxTokens = 4
    Alphabets <- MCAlphabets
    Caller <- MCSelf
    Workdirs <- MCWorkdirs
    Directories <- MCDirectories
SPECIFICATION Spec
INVARIANTS ResolvesAsRead RefusesTheUnread DescribedAsRead PolicyTypeOK
PROPERTY ImplementsJudge
CHECK_DEADLOCK FALSE
