SPECIFICATION FairSpec
CONSTANTS
    a1 = a1
    a2 = a2
    b1 = b1
    b2 = b2
    b3 = b3
    c2 = c2
    NewA = NewA
    OldA = OldA
    AnyB = AnyB
    OnlyC = OnlyC
    Nothing = Nothing
    NotOldA = NotOldA
    NotOldB = NotOldB
    NotNewB = NotNewB
    PastOldB = PastOldB
    SomeB = SomeB
    OnlyB = OnlyB
    Pkgs <- MCPkgs
    Livefs <- MCLivefs
    Built <- MCLivefs
    SlotOf <- MCSlotOf
    CpvOf <- MCCpvOf
    Atoms <- MCAtoms
    Matches <- MCMatches
    Blockers <- MCBlockers
    Past <- MCPast
    Worlds <- MCWorlds
    MaxDepth = 7
    MaxMade = 40
    None = None
INVARIANTS
    
    AnswersHold
PROPERTIES
    BuildDepsComeFirst
    SearchEnds
CHECK_DEADLOCK FALSE
