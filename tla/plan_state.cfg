SPECIFICATION Spec
CONSTANTS
    v = v
    n = n
    w = w
    cv = cv
    cn = cn
    co = co
    x = x
    y = y
    r = r
    None = None
    Pkgs <- MCPkgs
    Livefs <- MCLivefs
    SlotOf <- MCSlotOf
    Choices <- MCChoices
    PkgOf <- MCPkgOf
    TagOf <- MCOneTag
    Atoms = {x, y}
    Blocks <- MCBlocks
    BlockersOf <- MCBlockers
    Restricts = {r}
    Removable <- MCLivefs
    MaxBackrefs = 1
    MaxPlan = 5
INVARIANTS
    OnePerSlot
    BooksAgree
    HiddenForCause
    NeverRaises
PROPERTIES
    IsUndoStack
