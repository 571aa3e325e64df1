SPECIFICATION Spec
CONSTANTS
    p = p
    q = q
    r = r
    eutils = eutils
    toolchain = toolchain
    unknown = unknown
    None = None
    Pkgs = {p, q, r}
    Inherits <- MCInherits
    Eclasses = {eutils, toolchain}
    MaxLate = 1
    FaultSets = {{"preload"}}
INVARIANT KeysAreThePackagesOwn
CHECK_DEADLOCK FALSE
