CONSTANTS
    Catalog <- MCCatalog
    Spelling <- MCSpelling
    NoBox = NoBox
    Host = Host
    HostResource = Host
    ActionGroups <- MCActionGroups
    AnyAction = AnyAction
    Calls = {c1}
    Requests <- MCRequests
    Maps <- MCMaps
    RefName <- MCOneName
    Malformed = Malformed
    NoRequest = NoRequest
SPECIFICATION PolicySpec
INVARIANT ForbidsHold
CHECK_DEADLOCK FALSE
