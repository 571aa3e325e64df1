SPECIFICATION FairSpec
CONSTANTS
    w1 = w1
    w2 = w2
    None = None
    Main = Main
    Sentinel = Sentinel
    Workers = {w1, w2}
    Procs <- MCProcs
    PkgList <- MCPkgList
    Worlds <- MCWorlds
    MaxFaults = 1
INVARIANTS
    OneHolder
    EverythingSettled
    NoneOutlives
 
CHECK_DEADLOCK FALSE
