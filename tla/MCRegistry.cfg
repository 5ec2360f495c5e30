CONSTANTS
    Commands = {c1, c2, c3}
    Sandboxes = {a, b}
    Overrides = {0, 1}
    Overlaps = {"other", "same", "writes"}
    Failures = {"delivery", "write", "crash", "power"}
SPECIFICATION MCSpec
INVARIANTS TypeOK NeverTorn RetirementHolds FailedGrantsCutNobodyOff
PROPERTY BarsRiseByOne
SYMMETRY Symmetry
CHECK_DEADLOCK FALSE
