------------------------------ MODULE Resources ------------------------------
(***************************************************************************)
(* The Kubernetes objects that the controller makes of a mesh Service      *)
(* (pkg/controller/resource.go and meta.go), what the API server and the   *)
(* Kubernetes controllers make of their labels, and the label selectors of *)
(* apimachinery.  Operators only; a text that is not set is "".            *)
(***************************************************************************)
EXTENDS Integers, Sequences

\* Service: its metadata, and its spec with the container's name and ports.
\* gateway is <<>> or holds one record with the gateway's ports.
NoGateway == <<>>
Gateway(ports) == <<[ports |-> ports]>>

\* A pod template needs distinct containers, a selector must select its pods.
Distinct(s) == \A i, j \in DOMAIN s : s[i] = s[j] => i = j

-----------------------------------------------------------------------------
(* Labels.                                                                   *)

\* Mutant: the labels of the Service alone.
createLabelsOfUser(service) == service.labels

\* The label app is the Service's name unless the Service has one of its own.
createLabels(service) ==
    [l \in DOMAIN service.labels \cup {"app"} |->
        IF l \in DOMAIN service.labels THEN service.labels[l] ELSE service.name]

createSelector(service) == createLabels(service)

createServiceOwnerRef(service) ==
    [kind |-> "Service", name |-> service.name, controller |-> TRUE]

\* A selector that is a map of labels selects what has all of them.
Selects(selector, labels) ==
    \A l \in DOMAIN selector : l \in DOMAIN labels /\ labels[l] = selector[l]

\* A value that no label can have: it is too long or has a blank in it.
BadValue == "not a label value"
Everything == [l \in {} |-> ""]

\* SelectorFromSet: a map with a pair that is no label selects everything, as
\* an empty map does.
SelectorFromSet(match) ==
    IF \E l \in DOMAIN match : match[l] = BadValue THEN Everything ELSE match

-----------------------------------------------------------------------------
(* The Deployment.                                                           *)

\* Mutant: the Deployment is named after the container.
deploymentNameOfContainer(service) == service.container

deploymentName(service) == service.name
k8sServiceName(service) == service.name

OrElse(text, default) == IF text # "" THEN text ELSE default

envoyLogLevel(service) == OrElse(service.envoy.logLevel, "info")
envoyDiscoveryAddress(service) ==
    OrElse(service.envoy.discoveryAddress, "10.100.5.46")
envoyDiscoveryPort(service) == OrElse(service.envoy.discoveryPort, "9000")

\* The proxy's arguments, a value for each flag, and its environment, a field
\* of the pod for each variable.
ProxyContainer(service) ==
    [name |-> "envoy-proxy",
     args |-> [bootstrapTemplate |-> "/etc/conf/envoy-bootstrap-template.yaml",
               bootstrapConfig |-> "/etc/conf/envoy-bootstrap.yaml",
               envoyBinary |-> "/usr/local/bin/envoy",
               logLevel |-> envoyLogLevel(service),
               serviceCluster |-> service.name,
               discoveryAddress |-> envoyDiscoveryAddress(service),
               discoveryPort |-> envoyDiscoveryPort(service)],
     env |-> [POD_NAME |-> "metadata.name", POD_IP |-> "status.podIP"]]

\* A gateway has the proxy only; the container of another Service follows it,
\* and is named after the Service if it has no name.
Containers(service) ==
    IF service.gateway = NoGateway
    THEN <<"envoy-proxy", OrElse(service.container, service.name)>>
    ELSE <<"envoy-proxy">>

CreateServiceDeployment(service) ==
    [name |-> deploymentName(service), ns |-> service.ns,
     labels |-> createLabels(service), owner |-> createServiceOwnerRef(service),
     selector |-> createSelector(service),
     template |-> [labels |-> createLabels(service),
                   proxy |-> ProxyContainer(service),
                   containers |-> Containers(service)]]

\* What the API server asks of a Deployment.
DeploymentIsValid(d) ==
    /\ Selects(d.selector, d.template.labels)
    /\ DOMAIN d.selector # {}
    /\ Distinct(d.template.containers)

-----------------------------------------------------------------------------
(* The Kubernetes Service.                                                   *)

\* ServiceSpec.Ports: the container's ports, as often as they are listed.
Ports(service) == service.ports

CreateServiceK8sService(service) ==
    [name |-> k8sServiceName(service), ns |-> service.ns,
     labels |-> createLabels(service), owner |-> createServiceOwnerRef(service),
     ports |-> IF service.gateway # NoGateway THEN service.gateway[1].ports
               ELSE Ports(service),
     selector |-> createLabels(service)]

\* What the API server asks of a Service: ports, and none of them twice (they
\* are all named and numbered alike, and TCP).
K8sServiceIsValid(s) == s.ports # <<>> /\ Distinct(s.ports)
=============================================================================
