CONSTANTS
    Key = {k1}
    Worker = {w1, w2}
    NoKey = NoKey
    None = None
    Shapes = {"internal", "exposed"}
    MaxLag = 2
    MaxVersion = 2
    MaxFaults = 1
    MaxRestarts = 1
\* With the bounds used up and no Service left, the controller rightly rests.
CHECK_DEADLOCK FALSE
SPECIFICATION Spec
SYMMETRY Symmetry
INVARIANTS
    TypeOK
    NoVersionMissed
    SuccessMeansServed
    RestIsRight
