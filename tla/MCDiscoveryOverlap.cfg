CONSTANTS
    n1 = n1
    a = a
    b = b
    Node = {n1}
    Type = {Cluster}
    WatchId = {1, 2, 3}
    Version = {1}
    MaxVersion = 1
    MaxNonce = 2
    MaxBreaks = 0
    MaxPodMoves = 1
    Stream = {s1}
    Rules <- Overlapping
    Conf = {c1}
    Content = {a, b}
    Rejected = {}
    Nil = Nil
\* With the bounds used up and no Configuration, the server rightly rests.
CHECK_DEADLOCK FALSE
SPECIFICATION DSpec
INVARIANT WaitingHasLatest
