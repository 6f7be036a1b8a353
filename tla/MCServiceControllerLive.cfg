CONSTANTS
    Key = {k1}
    Worker = {w1}
    NoKey = NoKey
    None = None
    Shapes = {"internal", "exposed", "portless"}
    MaxLag = 1
    MaxVersion = 2
    MaxFaults = 1
    MaxRestarts = 1
\* With the bounds used up and no Service left, the controller rightly rests.
CHECK_DEADLOCK FALSE
SPECIFICATION FairSpec
PROPERTIES
    Converges
    UsesQueue
