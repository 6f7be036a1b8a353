-------------------------------- MODULE Mesh --------------------------------
(***************************************************************************)
(* The whole mesh, as far as data goes: of a Service the controller makes  *)
(* a Deployment and a Kubernetes Service, the cluster makes pods of the    *)
(* Deployment, the pods' Envoys come up (module Bootstrap), and the        *)
(* discovery server gives them what the rules of Configurations ask for.   *)
(*                                                                         *)
(* A reconciliation, an update and an answer are one step each here: how   *)
(* their steps interleave is the subject of ServiceController, Discovery   *)
(* and AdsServer.  A pod is named <<key, i>>, the i-th of its Deployment.  *)
(***************************************************************************)
EXTENDS Bootstrap, Resources, EnvoyConfig, FiniteSets

CONSTANTS
    Ns, Name,     \* namespaces; names of Services
    Services,     \* bound: the Services that users write
    Conf,         \* names of Configurations
    Stored, Rules,\* bound: the rule lists that Configurations have at the
                  \* start, or are given later
    Port, Domain, \* ports and domains of requests
    MaxWrites,    \* bound: writes of Services
    MaxConfigures,\* bound: writes of Configurations
    MaxPods       \* bound: pods made of one Deployment

Key == Ns \X Name

ASSUME MeshAssumption ==
    /\ Pod = Key \X (1..MaxPods)
    /\ \A s \in Services : <<s.ns, s.name>> \in Key
    /\ \A s \in Services : None # createLabels(s) /\ None # ProxyContainer(s)
    /\ \A rules \in Stored \cup Rules :
          /\ rules \in Seq({rules[i] : i \in DOMAIN rules})
          /\ \A i \in DOMAIN rules : IsRule(rules[i]) /\ rules[i] # None
    /\ AnyPort \notin Port
    /\ MaxWrites \in Nat /\ MaxConfigures \in Nat

VARIABLES
    services,     \* services[k]: the mesh Service, or None
    deployments,  \* deployments[k]: its Deployment, or None
    k8sServices,  \* k8sServices[k]: its Kubernetes Service, or None
    confs,        \* confs[c]: the rules of a Configuration, or None
    labels,       \* labels[p]: the labels of pod p, or None
    snapshots,    \* snapshots[n]: the rule node n's snapshot is built of
    config,       \* config[p]: the rules that Envoy p has its clusters and
                  \* its listener of
    writes, configures,
    labelled      \* history: all labels that Service k has had

cluster == <<services, deployments, k8sServices, writes, labelled>>
control == <<confs, snapshots, configures>>
vars == <<cluster, control, labels, config, bvars>>

Fresh == [clusters |-> None, chains |-> None]

-----------------------------------------------------------------------------
(* Users, the controller and the cluster.                                    *)

\* A Service is created or updated.
WriteService(s) ==
    /\ writes < MaxWrites /\ services[<<s.ns, s.name>>] # s
    /\ writes' = writes + 1
    /\ services' = [services EXCEPT ![<<s.ns, s.name>>] = s]
    /\ labelled' = [labelled EXCEPT ![<<s.ns, s.name>>] = @ \cup {s.labels}]
    /\ UNCHANGED <<deployments, k8sServices, control, labels, config, bvars>>

\* The pods of a set go, and their names are not used again.
Stopped(pods) ==
    LET After(f, with) == [p \in Pod |-> IF p \in pods THEN with ELSE f[p]]
    IN  /\ labels' = After(labels, None)
        /\ proxy' = After(proxy, None)
        /\ process' = After(process, "gone")
        /\ envoy' = After(envoy, None) /\ file' = After(file, None)
        /\ config' = After(config, Fresh)

\* The pods of key k that run.
PodsOf(k) == {p \in Pod : p[1] = k /\ labels[p] # None}

\* Somebody deletes a child, to have it made anew; a Deployment takes its pods
\* with it.
DeleteChild(k) ==
    /\ Fault
    /\ \/ /\ deployments[k] # None
          /\ deployments' = [deployments EXCEPT ![k] = None]
          /\ Stopped(PodsOf(k)) /\ UNCHANGED k8sServices
       \/ /\ k8sServices[k] # None
          /\ k8sServices' = [k8sServices EXCEPT ![k] = None]
          /\ Stopped({}) /\ UNCHANGED deployments
    /\ UNCHANGED <<services, writes, labelled, control>>

\* Get of a namespace's lister: an object, or None if it is not found.
ServicesOf(ns) == [name \in Name |-> services[<<ns, name>>]]
Get(k) == ServicesOf(k[1])[k[2]]

\* What a child is after the controller has looked for it: the one that is
\* there, or a new one unless the API server refuses it.
Ensure(there, new, valid) ==
    IF there # None THEN there ELSE IF valid THEN new ELSE None

DeploymentFor(k) ==
    LET d == CreateServiceDeployment(Get(k))
    IN  Ensure(deployments[k], d, DeploymentIsValid(d))

K8sServiceFor(k) ==
    LET s == CreateServiceK8sService(Get(k))
    IN  Ensure(k8sServices[k], s, K8sServiceIsValid(s))

Exposed(s) == Len(Ports(s)) > 0 \/ s.gateway # NoGateway

\* reconcile: the Deployment, and then the Kubernetes Service if there are
\* ports; an error of the first ends it.
Reconcile(k) ==
    /\ Get(k) # None
    /\ deployments' = [deployments EXCEPT ![k] = DeploymentFor(k)]
    /\ k8sServices' =
          IF DeploymentFor(k) # None /\ Exposed(Get(k))
          THEN [k8sServices EXCEPT ![k] = K8sServiceFor(k)]
          ELSE k8sServices
    /\ UNCHANGED <<services, writes, labelled, control, labels, config, bvars>>

\* A Deployment without a pod gets one of its template, under a new name.
StartPod(k, i) ==
    /\ deployments[k] # None /\ PodsOf(k) = {}
    /\ \A p \in Pod : p[1] = k => (process[p] = "gone" <=> p[2] < i)
    /\ labels' = [labels EXCEPT ![<<k, i>>] = deployments[k].template.labels]
    /\ proxy' = [proxy EXCEPT ![<<k, i>>] = deployments[k].template.proxy]
    /\ UNCHANGED <<cluster, control, config, process, file, envoy, faults>>

\* A pod goes by a fault: its node fails, or somebody deletes it.
StopPod(p) ==
    /\ labels[p] # None /\ Fault
    /\ Stopped({p})
    /\ UNCHANGED <<cluster, control>>

-----------------------------------------------------------------------------
(* The discovery server.                                                     *)

Configure(c, rules) ==
    /\ configures < MaxConfigures
    /\ configures' = configures + 1
    /\ confs' = [confs EXCEPT ![c] = rules]
    /\ UNCHANGED <<cluster, snapshots, labels, config, bvars>>

\* PodLister.List(labels.SelectorFromSet(rule.Match)): of all namespaces.
List(match) ==
    {p \in Pod : labels[p] # None /\ Selects(SelectorFromSet(match), labels[p])}

\* The loops of update: a later rule writes over an earlier one's snapshot.
Update(c) ==
    /\ confs[c] # None
    /\ LET Of(p) == {i \in DOMAIN confs[c] : p \in List(confs[c][i].match)}
           Last(p) == CHOOSE i \in Of(p) : \A j \in Of(p) : j <= i
       IN  snapshots' = [p \in Pod |->
               IF Of(p) = {} THEN snapshots[p] ELSE confs[c][Last(p)]]
    /\ UNCHANGED <<cluster, confs, configures, labels, config, bvars>>

\* ID of a node: what follows the @.
ID(id) == id[2]

-----------------------------------------------------------------------------
(* The Envoys.                                                               *)

\* An Envoy reaches the server at the address that its file names.
Connected(p) ==
    /\ envoy[p] # None /\ Loads(envoy[p])
    /\ envoy[p].address = "10.100.5.46" /\ envoy[p].port = "9000"

\* What the server has for the Envoy of pod p, under the node that it names.
Offered(p) ==
    IF Connected(p) /\ ID(envoy[p].id) \in Pod THEN snapshots[ID(envoy[p].id)]
    ELSE None

\* Clusters and listener come in any order, each when it differs.
FetchClusters(p) ==
    /\ Offered(p) # None
    /\ config' = [config EXCEPT ![p].clusters = Offered(p)]
    /\ UNCHANGED <<cluster, control, labels, bvars>>

\* The clusters that an Envoy has, if any have come.
ClustersOf(p) ==
    IF config[p].clusters = None THEN <<>> ELSE config[p].clusters.clusters

\* The listener is accepted if the routes name clusters that are there.  One
\* that is rejected leaves the Envoy as it is, and is offered again.
FetchListener(p) ==
    /\ Offered(p) # None
    /\ Accepts([chains |-> buildListeners(Offered(p).filters),
                clusters |-> buildClusters(ClustersOf(p))])
    /\ config' = [config EXCEPT ![p].chains = Offered(p)]
    /\ UNCHANGED <<cluster, control, labels, bvars>>

\* A process that ends leaves no configuration in an Envoy.
PodContainer(p) ==
    /\ Container(p)
    /\ config' = IF envoy'[p] = None THEN [config EXCEPT ![p] = Fresh] ELSE config
    /\ UNCHANGED <<cluster, control, labels>>

Init ==
    /\ BInit
    /\ services = [k \in Key |-> None]
    /\ deployments = [k \in Key |-> None] /\ k8sServices = [k \in Key |-> None]
    /\ confs \in [Conf -> Stored \cup {None}] /\ snapshots = [p \in Pod |-> None]
    /\ labels = [p \in Pod |-> None] /\ config = [p \in Pod |-> Fresh]
    /\ writes = 0 /\ configures = 0 /\ labelled = [k \in Key |-> {}]

Next ==
    \/ \E s \in Services : WriteService(s)
    \/ \E k \in Key : DeleteChild(k) \/ Reconcile(k)
    \/ \E k \in Key, i \in 1..MaxPods : StartPod(k, i)
    \/ \E c \in Conf, rules \in Rules : Configure(c, rules)
    \/ \E c \in Conf : Update(c)
    \/ \E p \in Pod : \/ StopPod(p) \/ PodContainer(p)
                      \/ FetchClusters(p) \/ FetchListener(p)

Spec == Init /\ [][Next]_vars

\* What a container does without a fault.
ContainerRuns(p) == PodContainer(p) /\ faults' = faults

\* Controller, cluster, server, containers and Envoys go on; users need not
\* write anything, and no fault has to happen.
FairSpec ==
    /\ Spec
    /\ \A k \in Key : /\ WF_vars(Reconcile(k))
                      /\ \A i \in 1..MaxPods : WF_vars(StartPod(k, i))
    /\ \A c \in Conf : WF_vars(Update(c))
    /\ \A p \in Pod : /\ WF_vars(ContainerRuns(p))
                      /\ WF_vars(FetchClusters(p)) /\ WF_vars(FetchListener(p))

-----------------------------------------------------------------------------

MTypeOK ==
    /\ services \in [Key -> Services \cup {None}]
    /\ \A k \in Key :
          /\ deployments[k] # None =>
                DeploymentIsValid(deployments[k])
                /\ <<deployments[k].ns, deployments[k].name>> = k
          /\ k8sServices[k] # None =>
                K8sServiceIsValid(k8sServices[k])
                /\ <<k8sServices[k].ns, k8sServices[k].name>> = k
    /\ confs \in [Conf -> Stored \cup Rules \cup {None}]
    /\ \A p \in Pod : labels[p] # None <=> proxy[p] # None
    /\ process \in [Pod -> Places]
    /\ writes \in 0..MaxWrites /\ faults \in 0..MaxFaults

Connects(k, p) ==
    /\ k8sServices[k] # None /\ labels[p] # None /\ p[1][1] = k[1]
    /\ Selects(k8sServices[k].selector, labels[p])

\* The Kubernetes Service of a mesh Service whose labels never changed sends
\* to the pods of that Service.  It sends to pods of another one only if one of
\* the two sets the label app itself.
SelectsItsOwn ==
    \A k \in Key, p \in Pod :
       /\ /\ p[1] = k /\ labels[p] # None /\ k8sServices[k] # None
          /\ Cardinality(labelled[k]) = 1
          => Connects(k, p)
       /\ Connects(k, p) /\ p[1] # k =>
             \E l \in labelled[k] \cup labelled[p[1]] : "app" \in DOMAIN l

ValidMatch(rule) == \A l \in DOMAIN rule.match : rule.match[l] # BadValue

\* The pod has all the labels that the rule asks for.
Matches(rule, p) == Selects(rule.match, labels[p])

\* The rule that an Envoy goes by: the filters that its listener was built of
\* and the clusters that it has, which may come from two rules for a while, or
\* for ever if Envoy rejects the newer listener.
GoesBy(p) ==
    [filters |-> config[p].chains.filters, clusters |-> ClustersOf(p)]

\* Clusters and listener of every Envoy are those of a rule that its own pod
\* matches, and it sends every request where its filters and its clusters say,
\* of one rule or of two: nowhere if they do not fit.  (A rule that names a
\* cluster BlackHoleCluster has also routed what it does not name, and a match
\* that is not made of labels matches every pod.)
RoutesAsRuled ==
    \A p \in Pod :
       /\ \A rule \in {config[p].clusters, config[p].chains} \ {None} :
             ValidMatch(rule) => Matches(rule, p)
       /\ config[p].chains # None /\ ~NamesBlackHole(GoesBy(p)) =>
             \A port \in Port, d \in Domain : RoutesAsAsked(GoesBy(p), port, d)

\* The rules that match pod p, the last one of which it gets.
Matching(p) ==
    {r \in UNION {{c} \X DOMAIN confs[c] : c \in {d \in Conf : confs[d] # None}} :
        p \in List(confs[r[1]][r[2]].match)}

\* A Service that the cluster can run: its Deployment is as it says and is not
\* refused, and its proxies find the server.
CanRun(k) ==
    LET d == CreateServiceDeployment(services[k])
    IN  /\ services[k] # None /\ DeploymentIsValid(d)
        /\ deployments[k] \in {None, d}
        /\ envoyDiscoveryAddress(services[k]) = "10.100.5.46"
        /\ envoyDiscoveryPort(services[k]) = "9000"
        /\ \E i \in 1..MaxPods : process[<<k, i>>] # "gone"

\* Pod p runs an Envoy that has the clusters of the only rule for its pod, and
\* the listener too if it is one that Envoy accepts.
Serves(p) ==
    /\ envoy[p] # None
    /\ Cardinality(Matching(p)) = 1 =>
          \A r \in Matching(p) :
             LET rule == confs[r[1]][r[2]]
             IN  /\ config[p].clusters = rule
                 /\ Accepts(Build(rule)) => config[p].chains = rule

\* Once users and faults stop, every Service that can run has a pod that
\* serves, whichever of Service, pod and Configuration came first.
MeshWorks ==
    <>[](\A k \in Key : CanRun(k) => \E p \in PodsOf(k) : Serves(p))

\* "SelectorFromSet returns a Selector which will match exactly the given Set"
\* (labels/selector.go:847): an Envoy gets no rule whose match its pod has not.
MatchesAsWritten ==
    \A p \in Pod : config[p].clusters # None => Matches(config[p].clusters, p)
=============================================================================
