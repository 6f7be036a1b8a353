SPECIFICATION FairSpec
CONSTANTS
    Key = {a, b}
    NoKey = NoKey
    MaxVersion = 3
    MaxBreaks = 1
    MaxNotes = 1
INVARIANTS TypeOK SeenIsKept QueueIsItems ToldAsStored SyncedWithFirstList
PROPERTY CatchesUp
CHECK_DEADLOCK FALSE
