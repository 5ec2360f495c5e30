CONSTANTS
    TicketNames = {t1, t2, t3}
    Callers <- MCCallers
    NoCaller = NoCaller
    MaxLiveTickets = 2
    TTL = 1
    MaxTime = 2
    Processes = {g1, g2, s1, s2}
    Grants = {g1, g2}
    NoKey = NoKey
    NoServer = NoServer
SPECIFICATION AdmissionSpec
INVARIANTS AdmissionTypeOK KeysAgree AdmittedAsGranted
PROPERTIES ImplementsStore FullMeansRedeemable
SYMMETRY Symmetry
CHECK_DEADLOCK FALSE
