CONSTANTS
    Commands = {c1, c2, c3}
    Sandboxes = {a, b}
    Overrides = {0}
    Overlaps = {"other", "writes"}
    Failures = {}
SPECIFICATION Spec
INVARIANT RetiredStayRetired
CHECK_DEADLOCK FALSE
