SPECIFICATION FairSpec
CONSTANTS
    aOld = aOld
    aNew = aNew
    lib = lib
    tool = tool
    idle = idle
    tar = tar
    patch = patch
    lost = lost
    None = None
    OpSeq <- MCOpSeq
    Built = {lib}
    FilesOf <- MCFilesOf
    Uris <- MCUris
    Attempts = 3
    Settings <- MCSettings
    KeyOf <- MCKeyOf
INVARIANTS
    MergedIsWhole
    DoesAsTold
    NothingLeftBuilt
PROPERTY
    RunEnds
CHECK_DEADLOCK FALSE
