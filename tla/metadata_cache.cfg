SPECIFICATION Spec
CONSTANTS
    Pkgs = {"p", "q"}
    Eclasses = {"e"}
    Inherits <- MCInherits
    Sound <- MCSound
    Programs = {"a", "b"}
    MaxEdits = 1
    MaxCrashes = 1
    None = None
INVARIANTS
    NoneOlder
    QuietMeansComplete
CHECK_DEADLOCK FALSE
