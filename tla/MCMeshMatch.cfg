CONSTANTS
    Ns = {"n", "m"}
    Name = {"s1", "s2"}
    Services <- SomeServices
    Conf = {c1}
    Stored = {}
    Rules <- FewRules
    Port = {80, 81, 82}
    Domain = {"d", "e"}
    MaxWrites = 1
    MaxConfigures = 1
    MaxPods = 2
    MaxFaults = 0
    Pod <- Pods
    IP <- Addresses
    None = None
\* Nothing changes any more once all is served.
CHECK_DEADLOCK FALSE
SPECIFICATION Spec
INVARIANT MatchesAsWritten
