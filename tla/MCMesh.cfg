CONSTANTS
    Ns = {"n", "m"}
    Name = {"s1", "s2"}
    Services <- SomeServices
    Conf = {c1}
    Stored <- StoredRules
    Rules <- FewRules
    Port = {80, 81, 82}
    Domain = {"d", "e"}
    MaxWrites = 2
    MaxConfigures = 1
    MaxPods = 2
    MaxFaults = 1
    Pod <- Pods
    IP <- Addresses
    None = None
\* Nothing changes any more once all is served.
CHECK_DEADLOCK FALSE
SPECIFICATION FairSpec
CONSTRAINT StoredRulesOnce
INVARIANTS
    MTypeOK
    SelectsItsOwn
    RoutesAsRuled
PROPERTY MeshWorks
