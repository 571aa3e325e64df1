SPECIFICATION Spec
CONSTANTS
    None = None
    Star = Star
    x = x
    y = y
    z = z
INVARIANTS
    MatchingAgrees
    StackingAgrees
    FilesAgree
CHECK_DEADLOCK FALSE
