CONSTANTS
    Program = {"controller", "discovery"}
    Type = {"Deployment", "K8sService", "Pod", "Service", "Configuration"}
    Factory = {"kube", "mesh"}
    FactoryOf <- TheFactories
    Needs <- TheirNeeds
    Handled <- TheirHandlers
    Servers = {"discovery"}
    Signal = {"SIGINT", "SIGTERM", "SIGHUP"}
    MaxSignals = 3
\* A process that has ended does nothing.
CHECK_DEADLOCK FALSE
SPECIFICATION FairSpec
INVARIANTS
    TypeOK
    WorksOnCompleteCopies
    AwaitedIsStarted
    ExitTellsWhy
PROPERTIES
    ComesUp
    SignalEndsIt
