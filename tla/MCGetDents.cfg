SPECIFICATION DirFairSpec
CONSTANTS
    NameLens = {4, 5, 36}
    MaxEntries = 4
    BufLens = {0, 23, 24, 56}
INVARIANTS NoEntryLost NeverPastBuffer
PROPERTIES AllGiven
