SPECIFICATION Spec
CONSTANTS
    a1 = a1
    a2 = a2
    b = b
    c = c
    conf = conf
    gone = gone
    common = common
    lib = lib
    lib64 = lib64
    link = link
    Packages <- MCPackages
    SlotOf <- MCSlotOf
    Files <- MCFiles
    Place <- MCPlace
    Protected <- MCProtected
    Image <- MCImage
    Mine = "mine"
    Absent = Absent
    None = None
    Torn = Torn
    Rules <- MCRules
    MaxUpdates = 2
    MaxOps = 4
INVARIANTS
    OnePerSlot
    FilesAndEntriesAgree
PROPERTIES
    EditsSurvive
    UpdatesKept
    RecordOutlivesFiles
CHECK_DEADLOCK FALSE
