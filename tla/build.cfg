SPECIFICATION Spec
CONSTANTS
    PFs = {p1, p2}
    MaxRuns = 3
    MaxFaults = 1
    None = None
SYMMETRY Symmetry
INVARIANTS
    MergedIsOneBuild
    OwnEnvironment
    BuiltInOrder
    NothingMissing
CHECK_DEADLOCK FALSE
