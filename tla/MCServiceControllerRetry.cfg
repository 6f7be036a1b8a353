CONSTANTS
    Key = {k1}
    Worker = {w1}
    NoKey = NoKey
    None = None
    Shapes = {"exposed"}
    MaxLag = 1
    MaxVersion = 1
    MaxFaults = 1
    MaxRestarts = 0
\* With the bounds used up and no Service left, the controller rightly rests.
CHECK_DEADLOCK FALSE
SPECIFICATION Spec
INVARIANT FailedItemIsPutBack
