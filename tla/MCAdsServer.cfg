CONSTANTS
    Node = {n1}
    Type = {Cluster, Listener}
    WatchId = {1, 2, 3, 4}
    Version = {1, 2}
    Content = {good, bad}
    Rejected = {bad}
    Nil = Nil
    Stream = {s1, s2}
    MaxNonce = 2
    MaxBreaks = 1
\* With the responses of a stream used up, nothing may be left to do.
CHECK_DEADLOCK FALSE
SPECIFICATION ASpec
CONSTRAINT SecondIsRejected
SYMMETRY Symmetry
INVARIANTS
    ATypeOK
    ChannelHasRoom
    WaitingIsUpToDate
    NoWatchLeaks
    OneTurn
    WaitingHasAcked
PROPERTY
    RefinesDelivery
