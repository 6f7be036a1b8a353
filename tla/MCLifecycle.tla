----------------------------- MODULE MCLifecycle -----------------------------
\* The two processes as cmd/controller and cmd/discovery wire them.
EXTENDS Lifecycle

TheFactories ==
    [t \in {"Deployment", "K8sService", "Pod", "Service", "Configuration"} |->
        IF t \in {"Service", "Configuration"} THEN "mesh" ELSE "kube"]

ControllerInformers == <<"Deployment", "K8sService", "Service">>
DiscoveryInformers == <<"Pod", "Configuration">>

TheirNeeds ==
    [controller |-> ControllerInformers, discovery |-> DiscoveryInformers]

TheirHandlers == [controller |-> "Service", discovery |-> "Configuration"]
=============================================================================
