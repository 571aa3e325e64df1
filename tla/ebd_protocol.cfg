SPECIFICATION FairSpec
CONSTANTS
    p = p
    q = q
    r = r
    eutils = eutils
    toolchain = toolchain
    unknown = unknown
    None = None
    Pkgs = {p, q, r}
    Inherits <- MCInherits
    Eclasses = {eutils, toolchain}
    MaxLate = 1
    FaultSets = {{"envkey"}, {"envkey", "envfail", "preload", "sandboxlog", "slow", "ipc"}}
INVARIANTS
    InStep
    ReadersGetTheirOwn
    NothingLingers
PROPERTY CallsReturn
CHECK_DEADLOCK FALSE
