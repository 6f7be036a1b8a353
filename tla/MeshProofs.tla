----------------------------- MODULE MeshProofs -----------------------------
(***************************************************************************)
(* Proofs about the mesh, for every set of Services and of rules.  First   *)
(* where labels, pods and Kubernetes Services come from, for SelectsItsOwn;*)
(* then what the builders make of a rule, of any length, and which rule an *)
(* Envoy has, for RoutesAsRuled.                                           *)
(***************************************************************************)
EXTENDS Mesh, FiniteSetTheorems, NaturalsInduction, WellFoundedInduction, TLAPS

-----------------------------------------------------------------------------
(* The cluster: everything is made of a Service that was there.              *)

\* A Service that k was at some time.
From(k, s) ==
    /\ s \in Services /\ <<s.ns, s.name>> = k
    /\ s.labels \in labelled[k]

Labels == {createLabels(s) : s \in Services}
Proxies == {ProxyContainer(s) : s \in Services}
DeploymentOf(k, d) == \E s \in Services : From(k, s) /\ d = CreateServiceDeployment(s)
K8sServiceOf(k, d) == \E s \in Services : From(k, s) /\ d = CreateServiceK8sService(s)

ServicesInv ==
    /\ services \in [Key -> Services \cup {None}]
    /\ labelled = [k \in Key |-> labelled[k]]
    /\ \A k \in Key :
          /\ IsFiniteSet(labelled[k])
          /\ services[k] # None => From(k, services[k])

ChildrenInv ==
    /\ deployments = [k \in Key |-> deployments[k]]
    /\ k8sServices = [k \in Key |-> k8sServices[k]]
    /\ \A k \in Key :
          /\ deployments[k] # None =>
                DeploymentIsValid(deployments[k]) /\ DeploymentOf(k, deployments[k])
          /\ k8sServices[k] # None =>
                K8sServiceIsValid(k8sServices[k]) /\ K8sServiceOf(k, k8sServices[k])

PodsInv ==
    /\ labels = [p \in Pod |-> labels[p]] /\ proxy = [p \in Pod |-> proxy[p]]
    /\ \A p \in Pod :
          \/ labels[p] = None /\ proxy[p] = None
          \/ \E s \in Services : /\ From(p[1], s) /\ labels[p] = createLabels(s)
                                 /\ proxy[p] = ProxyContainer(s)

BoundsInv ==
    /\ confs \in [Conf -> Stored \cup Rules \cup {None}]
    /\ process \in [Pod -> Places]
    /\ writes \in 0..MaxWrites /\ faults \in 0..MaxFaults

ClusterInv == ServicesInv /\ ChildrenInv /\ PodsInv /\ BoundsInv

LEMMA InitCluster == Init => ClusterInv
<1> SUFFICES ASSUME Init PROVE ClusterInv
  OBVIOUS
<1> USE DEF Init, BInit
<1>1. ServicesInv
  <2>1. IsFiniteSet({})
    BY FS_EmptySet
  <2> QED
    BY <2>1 DEF ServicesInv
<1>2. ChildrenInv
  BY DEF ChildrenInv
<1>3. PodsInv
  BY DEF PodsInv
<1>4. BoundsInv
  BY MeshAssumption, BootstrapAssumption DEF BoundsInv, Places
<1> QED
  BY <1>1, <1>2, <1>3, <1>4 DEF ClusterInv

LEMMA ServicesStep ==
    ASSUME ServicesInv, [Next]_vars
    PROVE  /\ ServicesInv'
           /\ \A k \in Key : labelled[k] \subseteq labelled'[k]
<1>1. CASE \E s \in Services : WriteService(s)
  <2> PICK s \in Services : WriteService(s)
    BY <1>1
  <2> DEFINE at == <<s.ns, s.name>>
  <2>1. at \in Key
    BY MeshAssumption
  <2>2. /\ services' = [services EXCEPT ![at] = s]
        /\ labelled' = [labelled EXCEPT ![at] = @ \cup {s.labels}]
    BY DEF WriteService
  <2> HIDE DEF at
  <2>3. labelled' = [k \in Key |->
            IF k = at THEN labelled[at] \cup {s.labels} ELSE labelled[k]]
    BY <2>1, <2>2 DEF ServicesInv
  <2>4. \A k \in Key : labelled[k] \subseteq labelled'[k]
    BY <2>3
  <2>5. \A k \in Key : IsFiniteSet(labelled'[k])
    <3>1. IsFiniteSet(labelled[at] \cup {s.labels})
      BY <2>1, FS_AddElement DEF ServicesInv
    <3> QED
      BY <2>3, <3>1 DEF ServicesInv
  <2>6. services' \in [Key -> Services \cup {None}]
    BY <2>1, <2>2 DEF ServicesInv
  <2>7. \A k \in Key : (services[k] # None => From(k, services[k]))'
    <3> SUFFICES ASSUME NEW k \in Key, services'[k] # None
                 PROVE  From(k, services[k])'
      OBVIOUS
    <3>1. CASE k = at
      BY <2>1, <2>2, <2>3, <3>1 DEF From, at, ServicesInv
    <3>2. CASE k # at
      BY <2>2, <2>3, <3>2 DEF From, ServicesInv
    <3> QED
      BY <3>1, <3>2
  <2> QED
    BY <2>3, <2>4, <2>5, <2>6, <2>7 DEF ServicesInv
<1>2. CASE UNCHANGED <<services, labelled>>
  BY <1>2 DEF ServicesInv, From
<1> QED
  BY <1>1, <1>2 DEF Next, vars, cluster, control, DeleteChild, Reconcile, StartPod,
     Configure, Update, StopPod, PodContainer, FetchClusters, FetchListener

\* The Service that a lister's Get returns.
LEMMA GetIs == ASSUME NEW k \in Key PROVE Get(k) = services[k]
BY DEF Get, ServicesOf, Key

LEMMA ChildrenStep ==
    ASSUME ServicesInv, ChildrenInv, [Next]_vars
    PROVE  ChildrenInv'
<1> DEFINE DeploymentOk(k) ==
      deployments[k] # None =>
        DeploymentIsValid(deployments[k]) /\ DeploymentOf(k, deployments[k])
    K8sServiceOk(k) ==
      k8sServices[k] # None =>
        K8sServiceIsValid(k8sServices[k]) /\ K8sServiceOf(k, k8sServices[k])
<1>0. \A k \in Key : labelled[k] \subseteq labelled'[k]
  BY ServicesStep
<1>1. ASSUME NEW k \in Key, deployments'[k] \in {None, deployments[k]}
      PROVE  DeploymentOk(k)'
  BY <1>0, <1>1 DEF ChildrenInv, DeploymentOf, From
<1>2. ASSUME NEW k \in Key, k8sServices'[k] \in {None, k8sServices[k]}
      PROVE  K8sServiceOk(k)'
  <2>1. CASE k8sServices'[k] = None
    BY <2>1
  <2>2. CASE k8sServices'[k] = k8sServices[k]
    <3>1. k8sServices[k] # None =>
            K8sServiceIsValid(k8sServices[k]) /\ K8sServiceOf(k, k8sServices[k])
      BY DEF ChildrenInv
    <3>2. k8sServices[k] # None =>
            \E s \in Services : From(k, s)' /\ k8sServices[k] = CreateServiceK8sService(s)
      BY <1>0, <3>1 DEF K8sServiceOf, From
    <3> QED
      BY <2>2, <3>1, <3>2 DEF K8sServiceOf
  <2> QED
    BY <1>2, <2>1, <2>2
<1>3. CASE \E k \in Key : Reconcile(k)
  <2> PICK k \in Key : Reconcile(k)
    BY <1>3
  <2>1. /\ Get(k) = services[k] /\ services[k] # None
        /\ deployments' = [deployments EXCEPT ![k] = DeploymentFor(k)]
        /\ \/ k8sServices' = k8sServices
           \/ k8sServices' = [k8sServices EXCEPT ![k] = K8sServiceFor(k)]
        /\ labelled' = labelled /\ services' = services
    BY GetIs DEF Reconcile, cluster
  <2>2. From(k, services[k])' /\ services[k] \in Services
    BY <2>1 DEF ServicesInv, From
  <2>3. DeploymentOk(k)'
    <3>1. CASE deployments[k] # None
      BY <1>1, <2>1, <3>1 DEF ChildrenInv, DeploymentFor, Ensure
    <3>2. CASE deployments[k] = None
      BY <2>1, <2>2, <3>2 DEF ChildrenInv, DeploymentFor, Ensure, DeploymentOf
    <3> QED
      BY <3>1, <3>2
  <2>4. K8sServiceOk(k)'
    <3>1. CASE k8sServices'[k] = k8sServices[k]
      BY <1>2, <3>1
    <3>2. CASE k8sServices[k] = None /\ k8sServices' = [k8sServices EXCEPT ![k] = K8sServiceFor(k)]
      BY <2>1, <2>2, <3>2 DEF ChildrenInv, K8sServiceFor, Ensure, K8sServiceOf
    <3> QED
      BY <2>1, <3>1, <3>2 DEF ChildrenInv, K8sServiceFor, Ensure
  <2>5. \A j \in Key : j # k => DeploymentOk(j)' /\ K8sServiceOk(j)'
    BY <1>1, <1>2, <2>1 DEF ChildrenInv
  <2> QED
    BY <2>1, <2>3, <2>4, <2>5 DEF ChildrenInv
<1>4. CASE \E k \in Key : DeleteChild(k)
  <2>1. /\ deployments' = [j \in Key |-> deployments'[j]]
        /\ k8sServices' = [j \in Key |-> k8sServices'[j]]
        /\ \A j \in Key : /\ deployments'[j] \in {None, deployments[j]}
                          /\ k8sServices'[j] \in {None, k8sServices[j]}
    BY <1>4 DEF DeleteChild, ChildrenInv
  <2> QED
    BY <1>1, <1>2, <2>1 DEF ChildrenInv
<1>5. CASE UNCHANGED <<deployments, k8sServices>>
  BY <1>1, <1>2, <1>5 DEF ChildrenInv
<1> QED
  BY <1>3, <1>4, <1>5 DEF Next, vars, cluster, control, WriteService, StartPod,
     Configure, Update, StopPod, PodContainer, FetchClusters, FetchListener

\* Pods start with the labels and the proxy of one template.
LEMMA PodsStep ==
    ASSUME ServicesInv, ChildrenInv, PodsInv, [Next]_vars
    PROVE  PodsInv'
<1> DEFINE PodOk(p) ==
      \/ labels[p] = None /\ proxy[p] = None
      \/ \E s \in Services : /\ From(p[1], s) /\ labels[p] = createLabels(s)
                             /\ proxy[p] = ProxyContainer(s)
<1>0. \A k \in Key : labelled[k] \subseteq labelled'[k]
  BY ServicesStep
<1>1. ASSUME NEW p \in Pod,
             \/ labels'[p] = labels[p] /\ proxy'[p] = proxy[p]
             \/ labels'[p] = None /\ proxy'[p] = None
      PROVE  PodOk(p)'
  <2>1. p[1] \in Key
    BY MeshAssumption
  <2> QED
    BY <1>0, <1>1, <2>1 DEF PodsInv, From
<1>2. ASSUME NEW pods, Stopped(pods)
      PROVE  PodsInv'
  BY <1>1, <1>2 DEF Stopped, PodsInv
<1>3. CASE \E k \in Key, i \in 1..MaxPods : StartPod(k, i)
  <2> PICK k \in Key, i \in 1..MaxPods : StartPod(k, i)
    BY <1>3
  <2> DEFINE q == <<k, i>>
  <2>1. /\ deployments[k] # None
        /\ labels' = [labels EXCEPT ![q] = deployments[k].template.labels]
        /\ proxy' = [proxy EXCEPT ![q] = deployments[k].template.proxy]
        /\ labelled' = labelled /\ q \in Pod /\ q[1] = k
    BY MeshAssumption DEF StartPod, cluster
  <2> HIDE DEF q
  <2>2. PICK s \in Services : From(k, s) /\ deployments[k] = CreateServiceDeployment(s)
    BY <2>1 DEF ChildrenInv, DeploymentOf
  <2>3. PodOk(q)'
    BY <2>1, <2>2 DEF PodsInv, From, CreateServiceDeployment
  <2>4. \A p \in Pod : p # q => PodOk(p)'
    BY <1>1, <2>1 DEF PodsInv
  <2> QED
    BY <2>1, <2>3, <2>4 DEF PodsInv
<1>4. CASE \E k \in Key : DeleteChild(k)
  BY <1>2, <1>4 DEF DeleteChild
<1>5. CASE \E p \in Pod : StopPod(p)
  BY <1>2, <1>5 DEF StopPod
<1>6. CASE UNCHANGED <<labels, proxy>>
  BY <1>1, <1>6 DEF PodsInv
<1> QED
  BY <1>3, <1>4, <1>5, <1>6 DEF Next, vars, bvars, cluster, control, WriteService,
     Reconcile, Configure, Update, PodContainer, FetchClusters, FetchListener,
     Container, StartContainer, WriteConfig, StartEnvoy, Wait, EnvoyEnds

LEMMA BoundsStep == ASSUME BoundsInv, [Next]_vars PROVE BoundsInv'
<1> USE MeshAssumption, BootstrapAssumption DEF Places, Fault
<1>0. /\ (Fault \/ faults' = faults) => faults' \in 0..MaxFaults
      /\ (UNCHANGED <<confs, process, writes, faults>> => BoundsInv')
  BY DEF BoundsInv
<1>1. ASSUME NEW pods, Stopped(pods)
      PROVE  process' \in [Pod -> Places]
  BY <1>1 DEF Stopped, BoundsInv
<1>2. CASE \E s \in Services : WriteService(s)
  BY <1>2 DEF BoundsInv, WriteService, bvars, control
<1>3. CASE \E k \in Key : DeleteChild(k)
  BY <1>0, <1>1, <1>3 DEF BoundsInv, DeleteChild, control
<1>4. CASE \E p \in Pod : StopPod(p)
  BY <1>0, <1>1, <1>4 DEF BoundsInv, StopPod, cluster, control
<1>5. CASE \E c \in Conf, rules \in Rules : Configure(c, rules)
  BY <1>5 DEF BoundsInv, Configure, cluster, bvars
<1>6. CASE \E p \in Pod : PodContainer(p)
  <2> PICK p \in Pod : PodContainer(p)
    BY <1>6
  <2>1. process' \in [Pod -> Places]
    BY DEF PodContainer, Container, StartContainer, WriteConfig, StartEnvoy, Wait,
       EnvoyEnds, GoTo, End, BoundsInv
  <2>2. faults' \in 0..MaxFaults
    BY <1>0 DEF PodContainer, Container, StartContainer, WriteConfig, StartEnvoy, Wait,
       EnvoyEnds
  <2> QED
    BY <2>1, <2>2 DEF PodContainer, cluster, control, BoundsInv
<1>7. CASE UNCHANGED <<confs, process, writes, faults>>
  BY <1>0, <1>7
<1> QED
  BY <1>2, <1>3, <1>4, <1>5, <1>6, <1>7 DEF Next, vars, bvars, cluster, control,
     Reconcile, StartPod, Update, FetchClusters, FetchListener

THEOREM ClusterIsMadeOfServices == Spec => []ClusterInv
<1>1. ClusterInv /\ [Next]_vars => ClusterInv'
  BY ServicesStep, ChildrenStep, PodsStep, BoundsStep DEF ClusterInv
<1> QED
  BY <1>1, InitCluster, PTL DEF Spec

\* At all times objects and pods are typed, children are valid and where their
\* Service is, and a pod has labels as long as it has a proxy.
THEOREM MeshTypeCorrect == Spec => []MTypeOK
<1>1. ClusterInv => MTypeOK
  <2> SUFFICES ASSUME ClusterInv PROVE MTypeOK
    OBVIOUS
  <2>1. ASSUME NEW k \in Key, deployments[k] # None
        PROVE  /\ DeploymentIsValid(deployments[k])
               /\ <<deployments[k].ns, deployments[k].name>> = k
    BY <2>1 DEF ClusterInv, ChildrenInv, DeploymentOf, From,
       CreateServiceDeployment, deploymentName
  <2>2. ASSUME NEW k \in Key, k8sServices[k] # None
        PROVE  /\ K8sServiceIsValid(k8sServices[k])
               /\ <<k8sServices[k].ns, k8sServices[k].name>> = k
    BY <2>2 DEF ClusterInv, ChildrenInv, K8sServiceOf, From,
       CreateServiceK8sService, k8sServiceName
  <2>3. \A p \in Pod : labels[p] # None <=> proxy[p] # None
    BY MeshAssumption DEF ClusterInv, PodsInv
  <2> QED
    BY <2>1, <2>2, <2>3 DEF ClusterInv, ServicesInv, BoundsInv, MTypeOK
<1> QED
  BY <1>1, ClusterIsMadeOfServices, PTL

\* For any Services, and whatever becomes of them: the Kubernetes Service of one
\* whose labels never changed selects its own pods, and no others unless a
\* label app is set by a user.
THEOREM ServicesSelectTheirOwn == Spec => []SelectsItsOwn
<1>1. ClusterInv => SelectsItsOwn
  <2> SUFFICES ASSUME ClusterInv, NEW k \in Key, NEW p \in Pod
               PROVE  /\ /\ p[1] = k /\ labels[p] # None /\ k8sServices[k] # None
                         /\ Cardinality(labelled[k]) = 1
                         => Connects(k, p)
                      /\ Connects(k, p) /\ p[1] # k =>
                            \E l \in labelled[k] \cup labelled[p[1]] : "app" \in DOMAIN l
    BY DEF SelectsItsOwn
  <2> SUFFICES ASSUME labels[p] # None, k8sServices[k] # None
               PROVE  /\ p[1] = k /\ Cardinality(labelled[k]) = 1 => Connects(k, p)
                      /\ Connects(k, p) /\ p[1] # k =>
                            \E l \in labelled[k] \cup labelled[p[1]] : "app" \in DOMAIN l
    BY DEF Connects
  <2>1. PICK s \in Services :
           From(k, s) /\ k8sServices[k].selector = createLabels(s)
    BY DEF ClusterInv, ChildrenInv, K8sServiceOf, CreateServiceK8sService
  <2>2. PICK t \in Services : From(p[1], t) /\ labels[p] = createLabels(t)
    BY DEF ClusterInv, PodsInv
  <2>3. /\ p[1] \in Key
        /\ k = <<s.ns, s.name>> /\ s.labels \in labelled[k]
        /\ p[1] = <<t.ns, t.name>> /\ t.labels \in labelled[p[1]]
    BY <2>1, <2>2, MeshAssumption DEF From
  <2>4. ASSUME p[1] = k, Cardinality(labelled[k]) = 1
        PROVE  Connects(k, p)
    <3>1. PICK l : labelled[k] = {l}
      BY <2>4, FS_Singleton DEF ClusterInv, ServicesInv
    <3>2. s.labels = t.labels /\ s.name = t.name
      BY <2>3, <2>4, <3>1
    <3>3. k8sServices[k].selector = labels[p]
      BY <2>1, <2>2, <3>2 DEF createLabels
    <3> QED
      BY <2>4, <3>3 DEF Connects, Selects
  <2>5. ASSUME Connects(k, p), p[1] # k
        PROVE  \E l \in labelled[k] \cup labelled[p[1]] : "app" \in DOMAIN l
    <3>1. s.name # t.name
      BY <2>3, <2>5 DEF Connects
    <3>2. /\ "app" \in DOMAIN createLabels(s)
          /\ createLabels(t)["app"] = createLabels(s)["app"]
      BY <2>1, <2>2, <2>5 DEF Connects, Selects, createLabels
    <3>3. "app" \in DOMAIN s.labels \/ "app" \in DOMAIN t.labels
      BY <3>1, <3>2 DEF createLabels
    <3> QED
      BY <2>3, <3>3
  <2> QED
    BY <2>4, <2>5
<1> QED
  BY <1>1, ClusterIsMadeOfServices, PTL

-----------------------------------------------------------------------------
(* What the builders make of a rule, and where that sends a request.         *)

\* A set of numbers up to n has a largest one.
LEMMA Largest ==
    ASSUME NEW n \in Nat, NEW T \in SUBSET (1..n), T # {}
    PROVE  \E m \in T : \A j \in T : j <= m
<1> DEFINE U == {n - i : i \in T}
<1>1. U \subseteq Nat /\ U # {}
  <2>1. \A i \in T : n - i \in Nat
    OBVIOUS
  <2>2. PICK i \in T : TRUE
    OBVIOUS
  <2> QED
    BY <2>1, <2>2
<1>2. PICK u \in U : \A v \in U : ~ (<<v, u>> \in OpToRel(<, Nat))
  BY <1>1, NatLessThanWellFounded, WFMin
<1>3. \A v \in U : ~(v < u)
  BY <1>1, <1>2 DEF OpToRel
<1>4. PICK m \in T : u = n - m
  BY <1>2
<1>5. ASSUME NEW j \in T
      PROVE  j <= m
  <2>1. ~(n - j < n - m)
    BY <1>3, <1>4
  <2> QED
    BY <2>1
<1> QED
  BY <1>5

ChainType == {BlackHoleChain} \cup {Chain(f) : f \in RuleFilter}

\* The listener has the default chain and then one for each filter.
LEMMA Chains ==
    ASSUME NEW filters \in Seq(RuleFilter)
    PROVE  /\ buildListeners(filters) \in Seq(ChainType)
           /\ DOMAIN buildListeners(filters) = 1..(Len(filters) + 1)
           /\ buildListeners(filters)[1] = BlackHoleChain
           /\ \A i \in 1..Len(filters) :
                 buildListeners(filters)[i + 1] = Chain(filters[i])
<1> DEFINE rest == [i \in DOMAIN filters |-> Chain(filters[i])]
<1>1. BlackHoleChain \in ChainType
  BY DEF ChainType
<1>2. \A f \in RuleFilter : Chain(f) \in ChainType
  BY DEF ChainType
<1>3. rest \in Seq(ChainType) /\ Len(rest) = Len(filters)
  BY <1>2
<1>4. buildListeners(filters) = <<BlackHoleChain>> \o rest
  BY DEF buildListeners
<1> HIDE DEF rest
<1>5. \A i \in 1..Len(filters) : (<<BlackHoleChain>> \o rest)[i + 1] = rest[i]
  BY <1>1, <1>3
<1> QED
  BY <1>1, <1>3, <1>4, <1>5 DEF rest

\* The host under a name is that of the last cluster with this name.
LEMMA HostIsLast ==
    ASSUME NEW clusters \in Seq(RuleCluster), NEW n
    PROVE  LET with == {i \in DOMAIN clusters : clusters[i].name = n}
               last == {i \in with : \A j \in with : j <= i}
           IN  /\ n \in DOMAIN buildClusters(clusters) <=> with # {}
               /\ with = {} => last = {}
               /\ with # {} => {clusters[i].host : i \in last}
                                 = {buildClusters(clusters)[n]}
<1> DEFINE with == {i \in DOMAIN clusters : clusters[i].name = n}
    last == {i \in with : \A j \in with : j <= i}
    Is(i) == /\ clusters[i].name = n
             /\ \A j \in (i + 1)..Len(clusters) : clusters[j].name # n
<1>1. n \in DOMAIN buildClusters(clusters) <=> with # {}
  BY DEF buildClusters
<1>2. ASSUME with # {}
      PROVE  {clusters[i].host : i \in last} = {buildClusters(clusters)[n]}
  <2>1. PICK m \in with : \A j \in with : j <= m
    <3>1. with \in SUBSET (1..Len(clusters)) /\ Len(clusters) \in Nat
      OBVIOUS
    <3> HIDE DEF with
    <3> QED
      BY <1>2, <3>1, Largest
  <2>2. last = {m}
    BY <2>1
  <2>3. \A i \in DOMAIN clusters : Is(i) <=> i = m
    BY <2>1
  <2>4. (CHOOSE i \in DOMAIN clusters : Is(i)) = m
    BY <2>1, <2>3
  <2>5. buildClusters(clusters)[n] = clusters[CHOOSE i \in DOMAIN clusters : Is(i)].host
    BY <1>2 DEF buildClusters
  <2> QED
    BY <2>2, <2>4, <2>5
<1> QED
  BY <1>1, <1>2

\* The clusters that a rule asks for at a port and a domain.
Named(rule, port, domain) ==
    UNION {Asked(f, domain) :
              f \in {g \in {rule.filters[i] : i \in DOMAIN rule.filters} : g.port = port}}

\* A rule that asks for one cluster asks for the host of that name.
LEMMA IntendedHost ==
    ASSUME NEW rule, IsRule(rule), NEW port, NEW domain
    PROVE  /\ Named(rule, port, domain) = {} => Intended(rule, port, domain) = {}
           /\ \A n : Named(rule, port, domain) = {n} =>
                 Intended(rule, port, domain) =
                    IF n \in DOMAIN buildClusters(rule.clusters)
                    THEN {buildClusters(rule.clusters)[n]} ELSE {}
<1> DEFINE last == {i \in DOMAIN rule.clusters :
                    /\ rule.clusters[i].name \in Named(rule, port, domain)
                    /\ \A j \in DOMAIN rule.clusters :
                          rule.clusters[j].name = rule.clusters[i].name => j <= i}
<1>1. Intended(rule, port, domain) = {rule.clusters[i].host : i \in last}
  BY DEF Intended, Named
<1>2. ASSUME NEW n, Named(rule, port, domain) = {n}
      PROVE  Intended(rule, port, domain) =
                    IF n \in DOMAIN buildClusters(rule.clusters)
                    THEN {buildClusters(rule.clusters)[n]} ELSE {}
  <2> DEFINE with == {i \in DOMAIN rule.clusters : rule.clusters[i].name = n}
  <2>1. last = {i \in with : \A j \in with : j <= i}
    BY <1>2
  <2>2. rule.clusters \in Seq(RuleCluster)
    BY DEF IsRule
  <2> QED
    BY <1>1, <2>1, <2>2, HostIsLast
<1> QED
  BY <1>1, <1>2

\* What Accepts asks of the listener alone.
Unambiguous(chains) ==
    /\ \A i, j \in DOMAIN chains : chains[i].port = chains[j].port => i = j
    /\ \A i \in DOMAIN chains :
          \A v, w \in DOMAIN chains[i].vhosts :
             v # w => chains[i].vhosts[v].domains \cap chains[i].vhosts[w].domains = {}

\* One of the two sets holds one index, if the domains of a table are disjoint.
LEMMA OneVhost ==
    ASSUME NEW vhosts, NEW domain,
           \A v, w \in DOMAIN vhosts :
              v # w => vhosts[v].domains \cap vhosts[w].domains = {},
           NEW v \in VhostsFor(vhosts, domain)
    PROVE  VhostsFor(vhosts, domain) = {v} /\ v \in DOMAIN vhosts
BY DEF VhostsFor

LEMMA ChainFields ==
    ASSUME NEW filter
    PROVE  /\ Chain(filter).port = filter.port
           /\ filter.http \in Seq(HttpEntry) => Chain(filter).vhosts = filter.http
           /\ filter.http = <<>> => Chain(filter).cluster = filter.tcp
<1>1. CASE Len(filter.http) > 0
  <2>1. PICK c : Chain(filter) = [port |-> filter.port, vhosts |-> filter.http, cluster |-> c]
    BY <1>1, Zenon DEF Chain
  <2>2. filter.http # <<>>
    BY <1>1
  <2>3. Chain(filter).port = filter.port /\ Chain(filter).vhosts = filter.http
    BY <2>1
  <2> QED
    BY <2>2, <2>3
<1>2. CASE ~(Len(filter.http) > 0)
  <2>1. Chain(filter) = [port |-> filter.port, vhosts |-> <<>>, cluster |-> filter.tcp]
    BY <1>2 DEF Chain
  <2>2. filter.http \in Seq(HttpEntry) => filter.http = <<>>
    BY <1>2
  <2> QED
    BY <2>1, <2>2
<1> QED
  BY <1>1, <1>2

\* The chain for a port that no filter has, and for one that a filter has.
LEMMA ChainOfPort ==
    ASSUME NEW rule, IsRule(rule), Unambiguous(buildListeners(rule.filters)),
           NEW port, port # AnyPort
    PROVE  /\ (\A i \in DOMAIN rule.filters : rule.filters[i].port # port)
              => ChainFor(Build(rule), port) = BlackHoleChain
           /\ \A i \in DOMAIN rule.filters :
                 rule.filters[i].port = port =>
                    /\ ChainFor(Build(rule), port) = Chain(rule.filters[i])
                    /\ \A j \in DOMAIN rule.filters :
                          rule.filters[j].port = port => j = i
<1> DEFINE chains == buildListeners(rule.filters)
    for == {i \in DOMAIN chains : chains[i].port = port}
<1>1. /\ DOMAIN chains = 1..(Len(rule.filters) + 1)
      /\ DOMAIN rule.filters = 1..Len(rule.filters) /\ Len(rule.filters) \in Nat
      /\ chains[1] = BlackHoleChain
      /\ \A i \in DOMAIN rule.filters : chains[i + 1] = Chain(rule.filters[i])
  BY Chains DEF IsRule
<1>2. /\ chains[1].port = AnyPort
      /\ \A i \in DOMAIN rule.filters : chains[i + 1].port = rule.filters[i].port
  BY <1>1, ChainFields DEF BlackHoleChain
<1>3. \A i, j \in DOMAIN chains : chains[i].port = chains[j].port => i = j
  BY DEF Unambiguous
<1>4. ChainFor(Build(rule), port) =
        IF for # {} THEN chains[CHOOSE i \in for : TRUE]
        ELSE chains[CHOOSE i \in DOMAIN chains : chains[i].port = AnyPort]
  BY DEF ChainFor, Build
<1> HIDE DEF chains
<1>5. ASSUME \A i \in DOMAIN rule.filters : rule.filters[i].port # port
      PROVE  ChainFor(Build(rule), port) = BlackHoleChain
  <2>1. for = {}
    <3> SUFFICES ASSUME NEW i \in for PROVE FALSE
      OBVIOUS
    <3>1. i # 1
      BY <1>2
    <3>2. i - 1 \in DOMAIN rule.filters /\ i = (i - 1) + 1
      BY <1>1, <3>1
    <3> QED
      BY <1>2, <1>5, <3>2
  <2>2. \A i \in DOMAIN chains : chains[i].port = AnyPort <=> i = 1
    BY <1>1, <1>2, <1>3
  <2>3. (CHOOSE i \in DOMAIN chains : chains[i].port = AnyPort) = 1
    BY <1>1, <2>2
  <2> QED
    BY <1>1, <1>4, <2>1, <2>3
<1>6. ASSUME NEW i \in DOMAIN rule.filters, rule.filters[i].port = port
      PROVE  /\ ChainFor(Build(rule), port) = Chain(rule.filters[i])
             /\ \A j \in DOMAIN rule.filters : rule.filters[j].port = port => j = i
  <2>1. i + 1 \in for
    BY <1>1, <1>2, <1>6
  <2>2. for = {i + 1}
    BY <1>3, <2>1
  <2>3. ASSUME NEW j \in DOMAIN rule.filters, rule.filters[j].port = port
        PROVE  j = i
    <3>1. j + 1 \in for
      BY <1>1, <1>2, <2>3
    <3> QED
      BY <1>1, <2>2, <3>1
  <2> QED
    BY <1>1, <1>4, <2>2, <2>3
<1> QED
  BY <1>5, <1>6

\* For rules of any length: an Envoy with the listener and the clusters of a rule
\* sends a request where the rule says, if the listener is one that it accepts.
THEOREM BuildersRouteAsAsked ==
    ASSUME NEW rule, IsRule(rule), ~NamesBlackHole(rule),
           Unambiguous(buildListeners(rule.filters)),
           NEW port, port # AnyPort, NEW domain
    PROVE  RoutesAsAsked(rule, port, domain)
<1> DEFINE at(chain) == VhostsFor(chain.vhosts, domain)
    hosts == buildClusters(rule.clusters)
    chain == ChainFor(Build(rule), port)
    Host(n) == IF n \in DOMAIN hosts THEN hosts[n] ELSE Nowhere
<1>1. Route(Build(rule), port, domain) =
        IF chain.vhosts = <<>> THEN Host(chain.cluster)
        ELSE IF at(chain) = {} THEN Nowhere
        ELSE Host(chain.vhosts[CHOOSE i \in at(chain) : TRUE].cluster)
  BY DEF Route, HostOf, Build
<1>2. ASSUME Route(Build(rule), port, domain) = Nowhere, Named(rule, port, domain) = {}
      PROVE  RoutesAsAsked(rule, port, domain)
  BY <1>2, IntendedHost DEF RoutesAsAsked
<1>3. ASSUME NEW n, Route(Build(rule), port, domain) = Host(n),
             Named(rule, port, domain) = {n}
      PROVE  RoutesAsAsked(rule, port, domain)
  BY <1>3, IntendedHost DEF RoutesAsAsked
<1>4. CASE \A i \in DOMAIN rule.filters : rule.filters[i].port # port
  <2>1. chain = BlackHoleChain
    BY <1>4, ChainOfPort
  <2>2. BlackHole \notin DOMAIN hosts
    BY DEF NamesBlackHole, buildClusters
  <2>3. Named(rule, port, domain) = {}
    BY <1>4 DEF Named
  <2> QED
    BY <1>1, <1>2, <2>1, <2>2, <2>3 DEF BlackHoleChain
<1>5. ASSUME NEW i \in DOMAIN rule.filters, rule.filters[i].port = port
      PROVE  RoutesAsAsked(rule, port, domain)
  <2> DEFINE filter == rule.filters[i]
  <2>1. /\ chain = Chain(filter)
        /\ \A j \in DOMAIN rule.filters : rule.filters[j].port = port => j = i
    BY <1>5, ChainOfPort
  <2>2. Named(rule, port, domain) = Asked(filter, domain)
    BY <1>5, <2>1 DEF Named
  <2>3. filter.http \in Seq(HttpEntry)
    <3>1. filter \in RuleFilter
      BY <1>5 DEF IsRule
    <3> QED
      BY <3>1 DEF RuleFilter
  <2> HIDE DEF chain, filter, hosts
  <2>4. CASE filter.http = <<>>
    <3>1. chain.vhosts = <<>> /\ chain.cluster = filter.tcp
      BY <2>1, <2>3, <2>4, ChainFields
    <3>2. Asked(filter, domain) = {filter.tcp}
      BY <2>4 DEF Asked
    <3> QED
      BY <1>1, <1>3, <2>2, <3>1, <3>2
  <2>5. CASE filter.http # <<>>
    <3>1. chain.vhosts = filter.http /\ DOMAIN filter.http # {}
      <4>1. chain.vhosts = filter.http
        BY <2>1, <2>3, ChainFields
      <4>2. Len(filter.http) \in Nat /\ Len(filter.http) # 0
        BY <2>3, <2>5
      <4>3. 1 \in DOMAIN filter.http
        BY <2>3, <4>2
      <4> QED
        BY <4>1, <4>3
    <3>2. \A v, w \in DOMAIN filter.http :
             v # w => filter.http[v].domains \cap filter.http[w].domains = {}
      <4> DEFINE chains == buildListeners(rule.filters)
      <4>1. i + 1 \in DOMAIN chains /\ chains[i + 1] = Chain(filter)
        BY <1>5, Chains DEF IsRule, filter
      <4> HIDE DEF chains
      <4>2. chains[i + 1].vhosts = filter.http
        BY <2>1, <3>1, <4>1
      <4> QED
        BY <4>1, <4>2 DEF Unambiguous, chains
    <3>3. CASE at(chain) = {}
      <4>1. Asked(filter, domain) = {}
        BY <3>1, <3>3 DEF Asked, VhostsFor
      <4> QED
        BY <1>1, <1>2, <2>2, <2>5, <3>1, <3>3, <4>1
    <3>4. CASE at(chain) # {}
      <4>1. PICK v : v \in at(chain)
        BY <3>4
      <4>2. at(chain) = {v} /\ v \in DOMAIN filter.http
        BY <3>1, <3>2, <4>1, OneVhost
      <4>3. Asked(filter, domain) = {filter.http[v].cluster}
        <5> DEFINE named == {u \in DOMAIN filter.http : domain \in filter.http[u].domains}
            wild == {u \in DOMAIN filter.http : AnyDomain \in filter.http[u].domains}
            entries == {filter.http[u] : u \in DOMAIN filter.http}
        <5>1. at(chain) = IF named # {} THEN named ELSE wild
          BY <3>1 DEF VhostsFor
        <5>2. /\ {e \in entries : domain \in e.domains} = {filter.http[u] : u \in named}
              /\ {e \in entries : AnyDomain \in e.domains} = {filter.http[u] : u \in wild}
              /\ entries # {}
          BY <3>1
        <5>3. Asked(filter, domain) =
                {e.cluster : e \in IF named # {} THEN {filter.http[u] : u \in named}
                                    ELSE {filter.http[u] : u \in wild}}
          BY <5>2 DEF Asked
        <5> QED
          BY <4>2, <5>1, <5>3
      <4> QED
        BY <1>1, <1>3, <2>2, <2>5, <3>1, <3>4, <4>2, <4>3
    <3> QED
      BY <3>3, <3>4
  <2> QED
    BY <2>4, <2>5
<1> QED
  BY <1>4, <1>5

-----------------------------------------------------------------------------
(* Which rule an Envoy has.                                                  *)

AllRules == UNION {{rules[i] : i \in DOMAIN rules} : rules \in Stored \cup Rules}
Known == AllRules \cup {None}

\* What a process writes, and Envoy reads: nothing, or the name of its own pod.
Names(c, p) == c = Partial \/ c.id[2] = p

\* Pod p has the labels that the server lists for the rule.
Listed(rule, p) == labels[p] # None /\ Selects(SelectorFromSet(rule.match), labels[p])

EnvoyOk(p) ==
    /\ process[p] \in {"write", "start", "wait", "ended"} => proxy[p] # None
    /\ process[p] = "gone" => proxy[p] = None
    /\ process[p] = "start" => Names(file[p], p)
    /\ envoy[p] # None => proxy[p] # None /\ Names(envoy[p], p)
    /\ snapshots[p] # None => process[p] = "gone" \/ Listed(snapshots[p], p)
    /\ config[p].clusters # None => envoy[p] # None /\ Listed(config[p].clusters, p)
    /\ config[p].chains # None =>
          /\ envoy[p] # None /\ Listed(config[p].chains, p)
          /\ Unambiguous(buildListeners(config[p].chains.filters))

EnvoysInv ==
    /\ file = [p \in Pod |-> file[p]] /\ envoy = [p \in Pod |-> envoy[p]]
    /\ snapshots \in [Pod -> Known]
    /\ config \in [Pod -> [clusters : Known, chains : Known]]
    /\ \A p \in Pod : EnvoyOk(p)

ofPod(p) == <<labels[p], proxy[p], process[p], file[p], envoy[p], snapshots[p], config[p]>>

\* A step is about one pod, or about those that stop.
LEMMA OtherPods == ASSUME NEW p \in Pod, EnvoyOk(p), ofPod(p)' = ofPod(p) PROVE EnvoyOk(p)'
<1>1. /\ labels'[p] = labels[p] /\ proxy'[p] = proxy[p] /\ process'[p] = process[p]
      /\ file'[p] = file[p] /\ envoy'[p] = envoy[p]
      /\ snapshots'[p] = snapshots[p] /\ config'[p] = config[p]
  BY DEF ofPod
<1> QED
  BY <1>1 DEF EnvoyOk, Listed

LEMMA InitEnvoys == Init => EnvoysInv
<1> SUFFICES ASSUME Init PROVE EnvoysInv
  OBVIOUS
<1> USE DEF Init, BInit, Fresh
<1>1. \A p \in Pod : EnvoyOk(p)
  BY DEF EnvoyOk
<1> QED
  BY <1>1 DEF EnvoysInv, Known

\* A rule that a Configuration has is one of the rules.
LEMMA RuleIsKnown ==
    ASSUME BoundsInv, NEW c \in Conf, confs[c] # None, NEW i \in DOMAIN confs[c]
    PROVE  confs[c][i] \in AllRules
BY DEF BoundsInv, AllRules

LEMMA EnvoysStop ==
    ASSUME EnvoysInv, PodsInv, BoundsInv, NEW pods, Stopped(pods), UNCHANGED snapshots
    PROVE  EnvoysInv'
<1>1. \A p \in Pod : IF p \in pods
         THEN /\ labels'[p] = None /\ proxy'[p] = None /\ process'[p] = "gone"
              /\ envoy'[p] = None /\ file'[p] = None /\ config'[p] = Fresh
         ELSE ofPod(p)' = ofPod(p)
  BY DEF Stopped, ofPod
<1>2. ASSUME NEW p \in Pod
      PROVE  EnvoyOk(p)'
  <2>1. CASE p \in pods
    BY <1>1, <2>1 DEF EnvoyOk, Fresh
  <2>2. CASE p \notin pods
    BY <1>1, <2>2, OtherPods DEF EnvoysInv
  <2> QED
    BY <2>1, <2>2
<1>3. config' \in [Pod -> [clusters : Known, chains : Known]]
  BY DEF Stopped, EnvoysInv, Fresh, Known
<1> QED
  BY <1>2, <1>3 DEF Stopped, EnvoysInv

LEMMA EnvoysPod ==
    ASSUME EnvoysInv, PodsInv, BoundsInv, NEW k \in Key, NEW i \in 1..MaxPods, StartPod(k, i)
    PROVE  EnvoysInv'
<1> DEFINE q == <<k, i>>
<1>1. q \in Pod /\ q[1] = k /\ q[2] = i
  BY MeshAssumption
<1>2. /\ labels[q] = None /\ proxy[q] = None
      /\ process[q] \notin {"write", "start", "wait", "ended", "gone"}
      /\ envoy[q] = None /\ snapshots[q] = None
      /\ config[q].clusters = None /\ config[q].chains = None
  <2>1. labels[q] = None /\ proxy[q] = None
    <3>1. labels[q] = None
      BY <1>1 DEF StartPod, PodsOf
    <3>2. \A s \in Services : None # createLabels(s)
      BY MeshAssumption
    <3> QED
      BY <1>1, <3>1, <3>2 DEF PodsInv
  <2>2. process[q] # "gone"
    BY <1>1 DEF StartPod
  <2> QED
    BY <1>1, <2>1, <2>2 DEF EnvoysInv, EnvoyOk, Listed
<1>3. UNCHANGED <<process, file, envoy, snapshots, config>>
  BY DEF StartPod, control
<1>4. EnvoyOk(q)'
  BY <1>1, <1>2, <1>3 DEF EnvoysInv, EnvoyOk
<1>5. ASSUME NEW p \in Pod, p # q
      PROVE  EnvoyOk(p)'
  <2>1. ofPod(p)' = ofPod(p)
    BY <1>3, <1>5 DEF StartPod, PodsInv, ofPod
  <2> QED
    BY <2>1, OtherPods DEF EnvoysInv
<1> QED
  BY <1>3, <1>4, <1>5 DEF EnvoysInv

LEMMA EnvoysContainer ==
    ASSUME EnvoysInv, PodsInv, BoundsInv, NEW p \in Pod, PodContainer(p)
    PROVE  EnvoysInv'
<1>1. /\ UNCHANGED <<labels, proxy, snapshots>>
      /\ config' \in {config, [config EXCEPT ![p] = Fresh]}
      /\ envoy'[p] = None => config'[p] = Fresh
  BY DEF PodContainer, Container, StartContainer, WriteConfig, StartEnvoy, Wait,
     EnvoyEnds, cluster, control, EnvoysInv
<1>2. /\ config'[p] = config[p] \/ config'[p] = Fresh
      /\ config' \in [Pod -> [clusters : Known, chains : Known]]
      /\ \A q \in Pod : q # p => config'[q] = config[q]
  BY <1>1 DEF EnvoysInv, Fresh, Known
<1>3. /\ process' \in [Pod -> Places]
      /\ file' = [q \in Pod |-> file'[q]] /\ envoy' = [q \in Pod |-> envoy'[q]]
      /\ \A q \in Pod : q # p =>
            /\ process'[q] = process[q] /\ file'[q] = file[q] /\ envoy'[q] = envoy[q]
  BY DEF PodContainer, Container, StartContainer, WriteConfig, StartEnvoy, Wait,
     EnvoyEnds, EnvoysInv, BoundsInv, GoTo, End, Places
<1>4. \A q \in Pod : q # p => EnvoyOk(q)'
  BY <1>1, <1>2, <1>3, OtherPods DEF EnvoysInv, ofPod
<1>5. EnvoyOk(p) /\ process[p] \in Places
  BY DEF EnvoysInv, BoundsInv
<1>6. /\ config'[p].clusters # None => config'[p] = config[p] /\ envoy'[p] # None
      /\ config'[p].chains # None => config'[p] = config[p] /\ envoy'[p] # None
  BY <1>1, <1>2 DEF Fresh
<1>7. EnvoyOk(p)'
  <2>1. CASE StartContainer(p)
    <3>1. process'[p] = "write" /\ proxy[p] # None /\ envoy' = envoy /\ process[p] # "gone"
      BY <2>1 DEF StartContainer, GoTo, BoundsInv
    <3> QED
      BY <1>1, <1>5, <1>6, <3>1 DEF EnvoyOk, Listed
  <2>2. CASE WriteConfig(p)
    <3>1. /\ process[p] = "write" /\ envoy' = envoy
          /\ \/ process'[p] = "start" /\ file'[p] \in {BootstrapConfig(p), Partial}
             \/ process'[p] = "ended"
      BY <2>2 DEF WriteConfig, GoTo, End, BoundsInv, EnvoysInv
    <3>2. BootstrapConfig(p).id[2] = p
      <4>1. proxy[p] # None
        BY <1>5, <3>1 DEF EnvoyOk
      <4>2. PICK s \in Services : proxy[p] = ProxyContainer(s)
        BY <4>1 DEF PodsInv
      <4>3. proxy[p].env = [POD_NAME |-> "metadata.name", POD_IP |-> "status.podIP"]
        BY <4>2 DEF ProxyContainer
      <4>4. Getenv(p, "POD_NAME") = p
        BY <4>3 DEF Getenv, Field
      <4> QED
        BY <4>4 DEF BootstrapConfig, buildNodeId
    <3> QED
      BY <1>1, <1>5, <1>6, <3>1, <3>2 DEF EnvoyOk, Listed, Names
  <2>3. CASE StartEnvoy(p)
    <3>1. /\ process[p] = "start" /\ file' = file
          /\ \/ process'[p] = "wait" /\ envoy'[p] = file[p]
             \/ process'[p] = "ended" /\ envoy'[p] = envoy[p]
      BY <2>3 DEF StartEnvoy, GoTo, End, BoundsInv, EnvoysInv
    <3> QED
      BY <1>1, <1>5, <1>6, <3>1 DEF EnvoyOk, Listed, Names
  <2>4. CASE Wait(p)
    <3>1. process[p] = "wait" /\ process'[p] = "ended" /\ envoy' = envoy
      BY <2>4 DEF Wait, End, BoundsInv
    <3> QED
      BY <1>1, <1>5, <1>6, <3>1 DEF EnvoyOk, Listed
  <2>5. CASE EnvoyEnds(p)
    <3>1. process' = process /\ file' = file /\ envoy'[p] = None
      BY <2>5 DEF EnvoyEnds, EnvoysInv
    <3> QED
      BY <1>1, <1>5, <1>6, <3>1 DEF EnvoyOk, Listed
  <2> QED
    BY <2>1, <2>2, <2>3, <2>4, <2>5 DEF PodContainer, Container
<1> QED
  BY <1>1, <1>2, <1>3, <1>4, <1>7 DEF EnvoysInv

\* What an Envoy is offered is the snapshot of its own pod.
LEMMA OfferedIsOwn ==
    ASSUME EnvoysInv, NEW p \in Pod, Offered(p) # None
    PROVE  /\ Offered(p) = snapshots[p] /\ envoy[p] # None
           /\ Offered(p) \in Known /\ Listed(Offered(p), p)
<1>1. Connected(p) /\ Offered(p) = snapshots[ID(envoy[p].id)]
  BY DEF Offered
<1>2. envoy[p] # None /\ envoy[p] # Partial
  BY <1>1 DEF Connected, Loads
<1>3. ID(envoy[p].id) = p /\ proxy[p] # None
  BY <1>2 DEF EnvoysInv, EnvoyOk, Names, ID
<1> QED
  BY <1>1, <1>2, <1>3 DEF EnvoysInv, EnvoyOk

LEMMA EnvoysFetch ==
    ASSUME EnvoysInv, NEW p \in Pod, FetchClusters(p) \/ FetchListener(p)
    PROVE  EnvoysInv'
<1>1. UNCHANGED <<labels, proxy, process, file, envoy, snapshots>> /\ Offered(p) # None
  BY DEF FetchClusters, FetchListener, control, bvars
<1>2. /\ config' \in [Pod -> [clusters : Known, chains : Known]]
      /\ \A q \in Pod : q # p => config'[q] = config[q]
  <2>1. Offered(p) \in Known
    BY <1>1, OfferedIsOwn
  <2>2. \/ config' = [config EXCEPT ![p].clusters = Offered(p)]
        \/ config' = [config EXCEPT ![p].chains = Offered(p)]
    BY DEF FetchClusters, FetchListener
  <2> QED
    BY <2>1, <2>2 DEF EnvoysInv
<1>3. \A q \in Pod : q # p => EnvoyOk(q)'
  BY <1>1, <1>2, OtherPods DEF EnvoysInv, ofPod
<1>4. EnvoyOk(p)'
  <2>1. CASE FetchClusters(p)
    <3>1. config'[p].clusters = Offered(p) /\ config'[p].chains = config[p].chains
      BY <2>1 DEF FetchClusters, EnvoysInv
    <3> QED
      BY <1>1, <3>1, OfferedIsOwn DEF EnvoysInv, EnvoyOk, Listed
  <2>2. CASE FetchListener(p)
    <3>1. config'[p].clusters = config[p].clusters /\ config'[p].chains = Offered(p)
      BY <2>2 DEF FetchListener, EnvoysInv
    <3>2. Unambiguous(buildListeners(Offered(p).filters))
      BY <2>2 DEF FetchListener, Accepts, Unambiguous
    <3> QED
      BY <1>1, <3>1, <3>2, OfferedIsOwn DEF EnvoysInv, EnvoyOk, Listed
  <2> QED
    BY <2>1, <2>2
<1> QED
  BY <1>1, <1>2, <1>3, <1>4 DEF EnvoysInv

LEMMA EnvoysUpdate ==
    ASSUME EnvoysInv, BoundsInv, NEW c \in Conf, Update(c)
    PROVE  EnvoysInv'
<1> DEFINE rules == confs[c]
    Of(p) == {i \in DOMAIN rules : p \in List(rules[i].match)}
    Last(p) == CHOOSE i \in Of(p) : \A j \in Of(p) : j <= i
<1>1. /\ rules # None
      /\ snapshots' = [p \in Pod |->
               IF Of(p) = {} THEN snapshots[p] ELSE rules[Last(p)]]
      /\ UNCHANGED <<labels, proxy, process, file, envoy, config>>
  BY DEF Update, bvars
<1>2. rules \in Seq({rules[i] : i \in DOMAIN rules})
  BY <1>1, MeshAssumption DEF BoundsInv
<1>3. ASSUME NEW p \in Pod
      PROVE  \/ snapshots'[p] = snapshots[p]
             \/ snapshots'[p] \in AllRules /\ Listed(snapshots'[p], p)
  <2>1. CASE Of(p) = {}
    BY <1>1, <2>1
  <2>2. CASE Of(p) # {}
    <3>1. Of(p) \in SUBSET (1..Len(rules)) /\ Len(rules) \in Nat
      BY <1>2
    <3>2. \E m \in Of(p) : \A j \in Of(p) : j <= m
      <4> HIDE DEF Of
      <4> QED
        BY <2>2, <3>1, Largest
    <3>3. Last(p) \in Of(p)
      BY <3>2
    <3>4. snapshots'[p] = rules[Last(p)]
      BY <1>1, <2>2
    <3>5. rules[Last(p)] \in AllRules
      BY <1>1, <3>3, RuleIsKnown
    <3> QED
      BY <3>3, <3>4, <3>5 DEF List, Listed
  <2> QED
    BY <2>1, <2>2
<1>4. \A p \in Pod : EnvoyOk(p)'
  BY <1>1, <1>3 DEF EnvoysInv, EnvoyOk, Listed
<1>5. snapshots' \in [Pod -> Known]
  BY <1>1, <1>3 DEF EnvoysInv, Known
<1> QED
  BY <1>1, <1>4, <1>5 DEF EnvoysInv

LEMMA EnvoysStep ==
    ASSUME EnvoysInv, ClusterInv, [Next]_vars
    PROVE  EnvoysInv'
<1> USE DEF ClusterInv
<1>1. ASSUME UNCHANGED <<labels, proxy, process, file, envoy, snapshots, config>>
      PROVE  EnvoysInv'
  <2>1. \A p \in Pod : EnvoyOk(p)'
    BY <1>1, OtherPods DEF EnvoysInv, ofPod
  <2> QED
    BY <1>1, <2>1 DEF EnvoysInv
<1>2. CASE \E s \in Services : WriteService(s)
  BY <1>1, <1>2 DEF WriteService, control, bvars
<1>3. CASE \E k \in Key : DeleteChild(k)
  BY <1>3, EnvoysStop DEF DeleteChild, control
<1>4. CASE \E k \in Key : Reconcile(k)
  BY <1>1, <1>4 DEF Reconcile, control, bvars
<1>5. CASE \E k \in Key, i \in 1..MaxPods : StartPod(k, i)
  BY <1>5, EnvoysPod
<1>6. CASE \E c \in Conf, rules \in Rules : Configure(c, rules)
  BY <1>1, <1>6 DEF Configure, bvars
<1>7. CASE \E c \in Conf : Update(c)
  BY <1>7, EnvoysUpdate
<1>8. CASE \E p \in Pod : StopPod(p)
  BY <1>8, EnvoysStop DEF StopPod, control
<1>9. CASE \E p \in Pod : PodContainer(p)
  BY <1>9, EnvoysContainer
<1>10. CASE \E p \in Pod : FetchClusters(p) \/ FetchListener(p)
  BY <1>10, EnvoysFetch
<1>11. CASE UNCHANGED vars
  BY <1>1, <1>11 DEF vars, control, bvars
<1> QED
  BY <1>2, <1>3, <1>4, <1>5, <1>6, <1>7, <1>8, <1>9, <1>10, <1>11 DEF Next

\* For rules of any number and length, whatever becomes of pods, processes and
\* Configurations: an Envoy has clusters and listener of rules that its own pod
\* matches, and sends every request where the filters of the one and the clusters
\* of the other say.
THEOREM EnvoysRouteAsRuled == Spec => []RoutesAsRuled
<1>1. EnvoysInv => RoutesAsRuled
  <2> SUFFICES ASSUME EnvoysInv, NEW p \in Pod
               PROVE  /\ \A rule \in {config[p].clusters, config[p].chains} \ {None} :
                            ValidMatch(rule) => Matches(rule, p)
                      /\ config[p].chains # None /\ ~NamesBlackHole(GoesBy(p)) =>
                            \A port \in Port, d \in Domain :
                               RoutesAsAsked(GoesBy(p), port, d)
    BY DEF RoutesAsRuled
  <2>1. /\ config[p].clusters # None =>
              Listed(config[p].clusters, p) /\ config[p].clusters \in AllRules
        /\ config[p].chains # None =>
              Listed(config[p].chains, p) /\ config[p].chains \in AllRules
    BY DEF EnvoysInv, EnvoyOk, Known
  <2>2. ASSUME NEW rule, Listed(rule, p), ValidMatch(rule)
        PROVE  Matches(rule, p)
    BY <2>2 DEF Listed, SelectorFromSet, ValidMatch, Matches
  <2>3. ASSUME config[p].chains # None, ~NamesBlackHole(GoesBy(p)), NEW port \in Port,
               NEW d \in Domain
        PROVE  RoutesAsAsked(GoesBy(p), port, d)
    <3>1. \A rule \in AllRules : IsRule(rule)
      <4>1. \A rules \in Stored \cup Rules : \A i \in DOMAIN rules : IsRule(rules[i])
        BY MeshAssumption
      <4> QED
        BY <4>1 DEF AllRules
    <3>2. ClustersOf(p) \in Seq(RuleCluster)
      <4>1. <<>> \in Seq(RuleCluster)
        OBVIOUS
      <4> QED
        BY <2>1, <3>1, <4>1 DEF ClustersOf, IsRule
    <3>3. /\ GoesBy(p).filters = config[p].chains.filters
          /\ GoesBy(p).clusters = ClustersOf(p)
      BY DEF GoesBy
    <3>4. IsRule(GoesBy(p)) /\ port # AnyPort
      BY <2>1, <2>3, <3>1, <3>2, <3>3, MeshAssumption DEF IsRule
    <3>5. Unambiguous(buildListeners(GoesBy(p).filters))
      BY <2>3, <3>3 DEF EnvoysInv, EnvoyOk
    <3> QED
      BY <2>3, <3>4, <3>5, BuildersRouteAsAsked
  <2> QED
    BY <2>1, <2>2, <2>3
<1>2. EnvoysInv /\ ClusterInv /\ [Next]_vars => EnvoysInv'
  BY EnvoysStep
<1> QED
  BY <1>1, <1>2, InitEnvoys, ClusterIsMadeOfServices, PTL DEF Spec
=============================================================================
