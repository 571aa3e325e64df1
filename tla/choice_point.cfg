SPECIFICATION CPSpec
CONSTANTS
    a = a
    b = b
    DepAtoms = {a, b}
    Candidates <- MCCandidates
INVARIANTS
    NoSolublePackageLost
    OfferIsSoluble
    DepsAreTheOffersOwn
CHECK_DEADLOCK FALSE
