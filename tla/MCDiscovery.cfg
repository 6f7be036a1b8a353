CONSTANTS
    n1 = n1
    a = a
    b = b
    Node = {n1}
    Type = {Cluster}
    WatchId = {1, 2}
    Version = {1, 2}
    MaxVersion = 2
    MaxNonce = 3
    MaxBreaks = 1
    MaxPodMoves = 1
    Stream = {s1}
    Rules <- Disjoint
    Conf = {c1, c2}
    Content = {a, b}
    Rejected = {}
    Nil = Nil
\* With the bounds used up and no Configuration, the server rightly rests.
CHECK_DEADLOCK FALSE
SPECIFICATION DFairSpec
CONSTRAINT NoncesLeft
INVARIANTS
    DTypeOK
    WaitingHasLatest
PROPERTIES
    UsesAdsServer
    Converges
