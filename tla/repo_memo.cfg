SPECIFICATION MemoSpec
CONSTANTS
    x1 = x1
    x2 = x2
    y1 = y1
    X = X
    Y = Y
    dev = dev
    Unread = Unread
    Entries <- MCEntries
    Keys = {X, Y}
    Cats = {dev}
    KeyOf <- MCKeyOf
    CatOf <- MCCatOf
INVARIANTS
    ShowsTheDisk
    NeverRaises
CHECK_DEADLOCK FALSE
