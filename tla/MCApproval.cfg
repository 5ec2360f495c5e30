CONSTANTS
    Calls = {c1, c2}
    MaxLines = 3
SPECIFICATION FairSpec
INVARIANTS OneLineOneQuestion StaleByAtMostOne
PROPERTIES ImplementsApprover EveryCallReturns
CHECK_DEADLOCK FALSE
