# lite-mesh: TLA+ models, checks and proofs

lite-mesh is a small service mesh on Kubernetes with Envoy as its data plane.
This directory holds models of its two control-plane processes, of the Envoy
bootstrap and of the libraries they stand on, written in TLA+, the TLC runs that
check them on small instances, and theorems about them that TLAPS checks for
every value of the constants. `PROJECT.json` lists runs,
mutants, hazards and theorems, and maps each definition to the lines it models.

## 1. The system

| part | where | state it keeps | operations |
|---|---|---|---|
| Service controller | `pkg/controller`, `cmd/controller` | none of its own but the work queue; listers are shared with the informers | `enqueue` (event handler), `runWorker`/`processNextWorkItem`, `reconcile` with `reconcileDeployment` and `reconcileK8sService`, `Run` |
| Work queue | `vendor/k8s.io/client-go/util/workqueue` | queue, dirty set, processing set, shutdown flag, a condition variable | `Add`, `Get`, `Done`, `ShutDown` |
| Informers, listers | `vendor/k8s.io/client-go/tools/cache` | an indexer per kind, a queue of deltas, a buffer per handler | list, watch, relist, resync, deliver |
| Discovery server | `pkg/xds`, `cmd/discovery` | a snapshot cache; listers of Configurations and Pods | `update` (event handler), `ID`, `Start` |
| Snapshot cache | `vendor/github.com/envoyproxy/go-control-plane/pkg/cache` | a snapshot per node, open watches per node | `SetSnapshot`, `CreateWatch`, cancel |
| ADS stream server | `.../go-control-plane/pkg/server` | per stream: a channel, a cancel function and a nonce per resource type | `process`, `handler` |
| Resource builders | `pkg/controller/resource.go`, `meta.go`, `buildListeners`, `buildClusters` in `pkg/xds` | none | pure translations |
| Mains, signal handler | `cmd/controller`, `cmd/discovery`, `pkg/signals`, `pkg/client/informers` | the stop channel; the factories' informers | wire informers and worker, start the factories, wait for the copies, work, return; the first signal closes the channel, the second exits |
| Envoy bootstrap | `cmd/envoy-bootstrap` | one child process | render a template, start Envoy, wait |
| Generated clients | `pkg/client/clientset` | none; the fake has an object tracker | CRUD calls for Services and Configurations |
| API types, deep copies, CRDs, samples | `pkg/apis`, `artifacts`, `samples` | none | none |

How the parts interact:

- **API server to informers to listers.** Both processes list and watch the API
  server through client-go's shared informers. Each informer keeps a copy that
  lags; the listers read only the copy. Handlers are called with events from a
  queue of their own, and with an update event for each object at every resync
  (30 s in the controller, 10 s in the discovery server).
- **Handlers to work queue to workers.** The controller's handler for Services
  (add and update, none for delete) puts `namespace/name` in the work queue.
  Two workers take keys out, look the Service up in the lister, and create a
  Deployment and perhaps a Kubernetes Service if the listers show none.
  Kubernetes' garbage collector removes children whose owner is gone.
- **Handler to snapshot cache to streams to Envoys.** The discovery server's
  handler for Configurations calls `SetSnapshot` for each pod that a rule
  matches. The cache answers the open watches of that node; the goroutine of
  the stream sends the answer; the Envoy acknowledges or rejects it with its
  next request, which opens the next watch.
- **Processes.** Nothing is on disk. `main` returns when the stop channel
  closes, whether work is under way or not, and a new process lists everything
  again.

What is hard here:

| behaviour | where it bites |
|---|---|
| a key is added while a worker is on it; a worker that is awake takes the item a sleeper was signalled for | `queue.go:100`, `:124` |
| passes work on listers that lag behind what earlier passes did | `controller.go:157-179` |
| one of two creations fails, or takes effect and reports an error | `controller.go:164`, `:175` |
| the process ends in the middle of a pass, the queue is lost | `cmd/controller/controller.go:81-85` |
| a Configuration's event comes before its pod is in the lister | `xds/server.go:96` |
| a snapshot is set between a response and its acknowledgement | `simple.go:112`, `:193` |
| a list is older than what the watch delivered; a resync meets queued deltas | `reflector.go:246`, `delta_fifo.go:571` |
| the factories start while main asks them for informers; a signal comes while the copies sync | `cmd/controller/controller.go:67-74` |
| clusters and listener of one snapshot reach an Envoy in any order | `xds/server.go:108` |
| labels change between the creation of Deployment and Kubernetes Service | `resource.go:150` |
| a stream breaks with watches open, answered or being replaced | go-control-plane `server.go:161` |
| the server restarts with an empty cache under Envoys that have versions | `cmd/discovery/discovery.go:79` |

What makes each part correct:

| part | it is correct if |
|---|---|
| Work queue | no item is with two workers, none that was added is lost, no worker sleeps over work, a shutdown drains |
| Service controller | no version of a Service that was seen goes without a pass; success means that the children exist; it rests only where nothing is left to do; the cluster converges |
| Snapshot cache | `SetSnapshot` never blocks; a request waits only if it is up to date |
| ADS stream server | every subscription has exactly one turn under way; no watch outlives its stream |
| Discovery server | an Envoy that is kept waiting uses the latest content; every Envoy gets the content of the rule that matches its pod |
| Informers | nothing seen is lost; the handler is told what is stored; nobody starts on an incomplete copy; the copy converges to the API server's objects |
| Mains, signals | no worker reads an incomplete copy; what is waited for runs; a signal ends the process |
| Builders, bootstrap | each Kubernetes Service selects its own pods; each Envoy names its pod and routes as the rule for it says |
| Generated clients | the fake answers as the API server does |

## 2. The modules

```
KeyedWork      <- refined by -  WorkQueue     <- extended by -  ServiceController
Delivery       <- refined by -  AdsServer     <- extended by -  Discovery
SnapshotCache  <- extended by - AdsServer
Bootstrap, Resources, EnvoyConfig             <- extended by -  Mesh
Informer, Lifecycle, MeshClients              (each by itself)

WorkQueueProofs <- ServiceControllerProofs    AdsServerProofs <- AdsTurnProofs <- DiscoveryProofs
InformerProofs, LifecycleProofs, MeshProofs    (each of its own module)
```

The modules divide the system by question. `ServiceController` and `Discovery`
have every step of their process, and of data only what decides a branch;
`Informer` is what both take for a lagging copy; `Lifecycle` is what happens
before and after; `Mesh` has all the data and large steps.

**`KeyedWork`** is what the queue promises: a set of pending keys and, per
worker, the key it is busy with; a key goes to one worker at a time, and a key
added while a worker is busy with it is pending again. No order, no sleeping.

**`WorkQueue`** is `queue.go`. `queue`, `dirty`, `processing` and
`shuttingDown` are the struct's fields. The condition variable is the set
`waiting` of workers asleep in `cond.Wait`, and `Signal` wakes any one of them.
`Add`, `GetItem`/`GetWait`/`GetShutdown`, `Done` and `ShutDown` are one step each,
because the mutex is held throughout; `Get` that has to sleep is two steps with
the lock released between them. `held` says which item a worker has between
`Get` and `Done`. Metrics and the queue's rate limiter (whose methods the
program never calls) are left out.

**`ServiceController`** extends it with the API server, the informers and
`processNextWorkItem`/`reconcile`. `api[kind][k]` is the object, `watch[kind][k]`
the states that the informer has still to see, `lister[kind][k]` its copy. A
worker's `pc` is where it is in the pass: each read of a lister, each API call
and `Done` is a step of its own, so everything else can happen between them.
An object is what the code looks at: for a Service its uid, its version and
whether it wants a Kubernetes Service, for a child its owner. `Fault` is a call
that fails before or after its effect, `Refused` the answer AlreadyExists. A
"portless" Service is one whose gateway lists no port: `reconcile` asks for a
Kubernetes Service for it, and the API server refuses one without ports.
`Stop`, `Restart` and `Crash` end the process. `lastRead`, `outcome` and `lost`
are history variables: nothing reads them but the properties.

**`SnapshotCache`** is go-control-plane's `simple.go` as the program uses it:
`SetSnapshot`, `CreateWatch` and the cancel functions, one step each under the
cache's mutex. A channel of capacity one is `chan[id]`. `SetSnapshot` sends with
the mutex held; that it never blocks is a property (`ChannelHasRoom`), not an
assumption. The version of a resource type is the snapshot's, since `update`
gives all of them one version.

**`AdsServer`** is `process` in go-control-plane's `server.go`, one goroutine per
stream, with what each stream keeps per type (`values`, `cancel`, `nonce`), the
messages on the wire, and the Envoys. A request is handled in one step although
the code takes the mutex twice, to cancel and to create: a `SetSnapshot` between
the two answers a watch whose channel is dropped at once, and `CreateWatch`
compares versions again, so it has the effect of one before both. `Close` is
`process` returning with its deferred `Cancel`; the server may notice a broken
stream long after the Envoy has opened another one. `Publish` sets any snapshot
at any time: here the discovery server is anything at all.

**`Delivery`** is what the two before promise together, without streams, watches,
channels, nonces and acknowledgements: per Envoy and type a mailbox for one
snapshot. An Envoy asks; if the latest snapshot of its node has another version
than it accepted last, that one is put into the mailbox, otherwise the Envoy
waits until one is published. In `AdsServer` the mailbox is whatever holds the
snapshot at the moment (`UnderWay`: a channel, or a response on the wire), and an
Envoy waits when it has a watch open. Requests, acknowledgements and the goroutine of
a stream moving an answer on are stutters; a stream that breaks empties the mailboxes.

**`Discovery`** replaces `Publish` with `pkg/xds`: the two informers, `update` as
the loop over rules and pods that it is (the pods are listed anew at each rule,
and each pod's `SetSnapshot` is a step of its own), `Listen` after
`WaitForCacheSync`, and restarts. The initial list of Configurations shows the
API server's current objects (it is not served stale, as in `ServiceController`):
the states in between differ only in events that `LearnConfiguration` also raises.

**`Informer`** is what the two above abstract: `reflector.go`, `delta_fifo.go` and
`shared_informer.go` for one kind of object. The API server is a log of states;
the reflector lists any of them (its lists ask for version "0") and watches from
there. `items`, `queue`, `populated` and `initialPopulationCount` are DeltaFIFO's
fields, and its lock is held while a key's deltas are processed (`busy`, `left`):
`Pop` takes it, `Store` and `Distribute` are the two halves of `HandleDeltas`'s loop,
between which listers can read, and `Deliver` is the listener's goroutine. `Resync`
is possible as soon as the reflector has listed once, the watch broken or not: its
goroutine may call it once more after `ListAndWatch` has returned. An
object is the version at which it was written. `overlooked` is a history variable:
the objects that the last `Replace` got wrong (see section 5).

**`Lifecycle`** is `main` of both programs with `signal.go`, the informer factories
and `WaitForCacheSync`. What differs between the programs is given by constants:
the types they need, the one they handle, and whether the worker is a server.
The two factories are started by goroutines (`GoStart`, `Start`) while `main` asks
the same factories again (`Ask`). A signal that nobody has asked for kills.

**`Resources`** and **`EnvoyConfig`** are operators: `resource.go` and `meta.go` with
what the API server asks of the result, `buildListeners` and `buildClusters` with
what an Envoy accepts and where it then sends a request. Both say beside the
built thing what a Service or a rule means, without the code (`Intended`).

**`Bootstrap`** is `cmd/envoy-bootstrap` in each pod: flags, template, file, the
child, the exit that follows it, and the kubelet that starts it again.

**`Mesh`** composes the last three from a Service to a routed request. `Reconcile`,
`Update` and an Envoy's fetch are one step each, as their inner steps are the
subject of the other modules; clusters and listener are fetched separately, each
may come first, and a listener that Envoy refuses leaves it the one it had. Filters
of one rule may then stand over clusters of another: `GoesBy` is what such an Envoy
was asked, and `RoutesAsRuled` speaks of it too. The
history variable `labelled` has the labels that a Service ever had.

**`MeshClients`** makes the same calls on the generated client and on the fake.

`map` in `PROJECT.json` gives the lines each definition stands for. The Envoys,
gRPC, the API server and the garbage collector are not in the repository: they
are modelled from how the code uses them and are marked external.

## 3. The runs

| run | instance | states | question |
|---|---|---|---|
| `queue` | 3 keys, 3 workers | 1078 | Is the queue right, with adds, shutdown and restart at any moment? Does it implement `KeyedWork`? Is every added item taken? |
| `controller` | 1 Service, 2 workers, lag 2, 2 versions, a fault, a crash or shutdown | 4.0 million | Is a version ever missed, success reported half done, or rest taken too early? |
| `controller_live` | 1 Service of three shapes, 1 worker, a fault, a restart | 260 thousand | Does the cluster converge? Does the controller keep the queue's protocol? |
| `controller_retry` | 1 Service, 1 worker, a fault | violation | Is a failed item put back on the queue, as a comment says? |
| `ads` | 1 Envoy, 2 types, 2 streams, 2 versions, the second with a content that Envoy rejects, a break or restart | 651 thousand | Do request and response alternate? Does `SetSnapshot` ever block, a watch leak, an Envoy wait with something old? Does it implement `Delivery`? |
| `discovery` | 2 Configurations, 1 pod, 1 stream, a break, restarts | 426 thousand | Does an Envoy that waits have the latest content? Are the streams driven as `AdsServer` has them? Does the Envoy get its configuration in the end? |
| `discovery_overlap` | 1 Configuration with two rules for one pod | violation | Does the cache reply with the latest snapshot, as its comment says? |
| `informer` | 2 objects, 3 states of the API server, a broken watch | 411 thousand | Is anything lost between reflector, lister and handler? Does the copy catch up? |
| `lifecycle` | both programs as they are wired, 3 signals, any types unknown to the API server | 39 thousand | Does a worker ever read an incomplete copy? Does the process come up, and end when told to? |
| `mesh` | 4 Services in 2 namespaces, 9 specs, 924 stored rule lists, a change of the rule, 2 writes, a fault | 170 thousand | Does each Kubernetes Service select its own pods, each Envoy route as its clusters and listener ask? Is every Service served in the end? |
| `mesh_match` | the same with rules whose match is no label | violation | Does a selector made of a set match exactly that set, as its comment says? |
| `fake_client` | 2 objects of each kind | violation | Does the fake client respond with the objects it was given, as its comment says? |

The bounds are named constants and appear in guards: `MaxVersion`, `MaxLag`,
`MaxFaults`, `MaxRestarts` in the controller, `MaxNonce`, `MaxBreaks`,
`MaxPodMoves` in the discovery server, `MaxVersion`, `MaxBreaks`, `MaxNotes` in the
informer, `MaxSignals`, `MaxWrites`, `MaxConfigures`, `MaxPods`, and the sets of
channels and streams. They are large enough for what the properties are about:

- three workers are the fewest for which one can sleep, one be signalled and a
  third take the item; three keys let two wait behind one in process;
- two versions of a Service are an update while a pass is on the first, or a
  deletion and a new Service of the same name (its uid is its first version);
  lag two makes an informer miss a state altogether;
- one fault or crash at any point of any pass; a second one meets a state the
  first leaves in the same run, since all counters of a new process start again;
- two streams (`ads`) are a new one opened before the server has noticed that the
  old one is broken; `WatchId` has as many channels as streams and types can
  hold at once; with all in use, the next request waits until the server closes the
  stream that was left;
- two versions of a snapshot and nonce two are a snapshot set between a response
  and its acknowledgement, and the acknowledgement of an older response;
- three states of the API server are an object that is written, deleted and
  written again, or two objects whose changes interleave; with one break a relist
  can show a state older than what was watched;
- three signals are one that closes the stop channel, one that exits, and one
  that finds the channel full;
- two writes are a Service relabelled between its two children, or two Services
  that meet; a second pod of a Deployment is one with a new name.

Three constraints cut what a run follows. `SecondIsRejected` (`ads`) ties the
second version to the content that Envoy rejects, the first to the good one.
`NoncesLeft` (`discovery`) leaves a stream that has used its nonces: two
Configurations that match one pod take turns for ever. Liveness is then shown of
the behaviours within the bound. `StoredRulesOnce` (`mesh`) pairs a rule that is
there at the start with one plain Service, written once, and no fault, until a
user changes the rule: what the 920 generated rules test is how clusters and
listener arrive, each first, and how requests are routed. The other four lists,
one of which makes a listener that Envoy refuses, are also what users write while
the system runs, then with relabelled Services and a fault. No step that the
fairness of this run asks for leaves a constraint of it: a fault is not such a
step. So `MeshWorks` is checked of runs of every rule in which nothing fails, too.

`CHECK_DEADLOCK` is off where a system with its bounds used up rightly rests, or
whose process has ended: everywhere but in `queue`, whose `Add` is always possible.
Symmetry is used only in runs of safety properties.

Each property of a passing run comes with a mutant in `PROJECT.json`: a
definition changed the way a plausible bug would change it (a dropped `Done`, a
watch that is not discarded, a resync period of 0), under which TLC finds the
property violated. The mutants stand next to what they change.

### Fairness

The fair specifications assume fairness of what the code and its surroundings do
for ever, and nothing of users, signals, faults and crashes.

- A goroutine that can run does run; a worker that sleeps is woken only by
  `Signal` or `Broadcast`. Go's `select` picks among ready cases at random, so
  that each type of a stream is served: hence fairness per type.
- The reflector lists and watches in a loop (`reflector.go`, `wait.Until`), and
  the informer's goroutines deliver what they hold: fairness of `List`,
  `Deliver`, `Learn...` and `Enqueue`.
- In `Informer`, reflector and processor contend for DeltaFIFO's lock, so that
  each is enabled again and again but not for ever: strong fairness of `List`,
  `WatchEvent` and `Pop`. Go's mutex hands over to a goroutine that has waited for
  more than a millisecond, which is what this says.
- The resync timer fires for ever. `Converges` depends on it in both modules: with
  no resync, a failed pass is never tried again, and a Configuration whose event
  came before its pod is never applied (their mutants).
- The garbage collector works. A controller that ended is started again. No
  manifest in the repository deploys the controller, so this last one is an
  assumption about the cluster. A crash of the model is a restart in one step.
- Envoys answer, subscribe, and connect again when their stream breaks. The
  kubelet restarts a container, and a Deployment without a pod gets one.
- A list that the API server can answer is answered (`Sync`). What a socket does
  (`ListenFails`, `ServeFails`) is under no fairness.
- In `Mesh`, only the steps of a container in which nothing fails are fair
  (`ContainerRuns`). An Envoy that could load its bootstrap is never made to end.

### Findings

1. `controller_retry`: the comment at `pkg/controller/controller.go:101-103` says
   that an item whose pass failed is put back on the queue after a back-off.
   The code only logs the error; the queue's `AddRateLimited` is never called. The
   item is tried again at the next resync, up to 30 s later. `Converges` holds
   all the same, by the resync alone.
2. `discovery_overlap`: two rules of one Configuration that match the same pod
   set two snapshots of one version (`pkg/xds/server.go:102`). An Envoy that has
   acknowledged the first is kept waiting, and never gets the second, although
   `simple.go:28-30` promises the latest and `:42-43` asks for distinct versions.
3. `mesh_match`: a rule whose match holds a value that no label can have selects
   every pod (`pkg/xds/server.go:96`): `SelectorFromSet` returns the selector of
   everything when a requirement is not valid, although its comment promises one
   that "will match exactly the given Set" (`labels/selector.go:847`). No schema
   keeps users from writing such a match.
4. `fake_client`: the fake client asks its tracker for group `mesh`, while the
   objects it was made with are kept under `mesh.lite.io`; it does not respond
   "with the provided objects" (`fake/clientset_generated.go:32`).

## 4. What is proved

TLAPS checks these for all sets of keys, Services, workers (a finite set), nodes,
types, streams, channels, Configurations, rules, programs, factories and objects
(finitely many), and for all values of the bounds, from the named assumptions of
the modules (`QueueAssumption`, `ControllerAssumption`, `CacheAssumption`,
`AdsAssumption`, `DiscoveryAssumption`, `InformerAssumption`,
`LifecycleAssumption`, `MeshAssumption`), which say only that constants have their
types, that the "none" values are none of the others, that a program handles a type
it needs, that pods are numbered per Deployment, and that requests go to ports
other than 0.

**The work queue** (`WorkQueueProofs`). `QIInv` is inductive: types, the queue's
discipline (the queue holds exactly the dirty items that are not in process,
each once), what each worker holds is in process and nobody else's, and enough
workers are awake. The last one, `WakeupsCoverQueue`, needs counting: with n
items queued and somebody asleep, n workers are awake in `Get`. From it follow
`QTypeOK`, `QueueDiscipline`, `Stingy`, `WakeupsCoverQueue` and
`DrainedBeforeExit` (which also says that nobody sleeps once the queue shuts down),
and that every step maps to a step of `KeyedWork` or to a
stutter.

**The controller** (`ServiceControllerProofs`). First `ControllerUsesQueue`: every
step is a method of the queue or leaves it alone, so the theorems of the queue
hold here, no two workers are on one Service, and the controller dispatches keys
as `KeyedWork` does (`ControllerImplementsKeyedWork`). `NoVersionMissed` is then
inductive with the types. `SuccessMeansServed` is not: it needs that a child which
a lister shows was created once (`SeenIsServed`), and that a pass works on the
Service it read and comes to the second child only after the first
(`PassState`). `RestIsRight` follows from both, with `WatchEndsAtApi` (what the
informer has yet to see ends at what is there) and `OpenPassIsHeld`.

**The cache and the streams** (`AdsServerProofs`, `AdsTurnProofs`).
`ChannelHasRoom`, `WaitingIsUpToDate` and `NoWatchLeaks` are inductive together
with `OwnChannel`: `SetSnapshot` fills the channels of the watches it removes, and
would fill that of one it keeps if two could share a channel. `OneTurn` counts; the
proof replaces the count by its four cases (`Turn`) and adds whose channel is
whose (`Ownership`), that all messages of a type carry the nonce the server
expects, and that a stream without a client has nothing. `WaitingHasAcked`
follows with `VersionsAgree`: while a request is under way no response is, so
the Envoy's version cannot change under it. With both, every step is one of
`Delivery` or a stutter (`ServerImplementsDelivery`): `Turn` says where a mailbox's
snapshot is at each moment, so that a step which hands it on changes nothing;
`VersionsAgree` says that the version the cache compares with is the one the Envoy
accepted, although the request that carries it was sent before. What `Delivery`
promises then holds of the server, for instance that no Envoy is sent a version
it has accepted already (`OnlyNewsIsSent`).

**The discovery server** (`DiscoveryProofs`). Every step is a step of `AdsServer`
or leaves it alone, so all of the above holds of it, `Delivery` too
(`DiscoveryImplementsDelivery`); and its types. `WaitingHasLatest`
needs that a version stands for one content per node wherever it occurs: in the
cache, in channels, responses and Envoys, in what the API server and the lister
have, and in the rest of an update (`ContentInv`). It does because versions are
fresh (`Dated`) and, by hypothesis, no two rules of one Configuration match one
pod (`DisjointRules`); without it two contents share a version, which is what run
discovery_overlap shows. An Envoy that waits has accepted the cache's version
(`WaitingHasAcked`), uses what it accepted (`AcceptedIsUsed`), and so has its content.

**The informer** (`InformerProofs`). `SeenIsKept` compares where
an object will end (`Final`: its newest queued delta, or the last one under way,
or the indexer) with the state that the reflector has reached. It is inductive
with `KeptInv`: deletions carry no version, nothing is known before the first
list, a delta that is stored is the one under way, and, as a watch event tells
of one object only, the log changes one object at a time (`OneChange`).
`QueueIsItems` comes along. `SyncedWithFirstList` needs to know where the first list
is (`FirstListInv`): under way or among the first keys of the queue, as many as are
still counted, and so never more than are queued; later adds go behind them. `ToldAsStored` reads the handler's view
off a sequence of notifications; its proof has what appending and taking a
notification does to that view (by the largest index with the object's key, which
exists by well-founded order), and that no two deletions follow each other among
an object's deltas and none comes first for an object unknown (`DeltasInv`).

`CopyMovesForward` is about time. Once the indexer has shown version v of an object
and then something else, it never shows v or an older version again: only newer ones
or none. `HandlerMovesForward` says the same of what the handler is told, which lags behind.
Both have the hypothesis that no list is older than what the reflector has seen
(`[][seen' >= seen]_vars`). Without it they are false, and they should be: a list at
version "0" may come from a cache of the API server, run `informer` has such lists,
and the copy then does go back. The copies of `ServiceController` and `Discovery` do
not go back while a process lives; the two theorems are what makes that right for
an informer whose relists are not stale: deltas that are merged, resyncs that meet
queued deltas, broken watches and objects that a relist overlooks never bring an
old version back. The argument follows an object's *line*: what the indexer
shows, the deltas under way, the deltas queued, and the last state seen. Along a line
versions only grow and a version that is left does not return (`ForwardInv`). Each
step drops elements at its start, repeats one, or puts a newer end to it (`From`,
`Renewed`), and each of these keeps the order. A handler's *story* is its last call,
the calls still in the buffer, and then the line; the same two lemmas carry over.
Both are implications between temporal formulas, which TLC does not check; no run
states them.

**The processes** (`LifecycleProofs`). The invariant follows `main`: before `New`
nothing is asked of the factories, afterwards the one informer of each type is
in the map, is what the listers read and what `main` awaits, and is started or
will be by a factory's goroutine still to run (`FactoriesInv`, `AwaitedInv`).
`ExitInv` counts signals against the two that matter. From these follow
`WorksOnCompleteCopies`, `AwaitedIsStarted` and `ExitTellsWhy`.

**The mesh** (`MeshProofs`). Every child, and every pod's labels, is made of a Service
that was there once (`ClusterInv`), with labels that the history `labelled` has; if it
has had one set of labels only, selector and labels are the same, and for two
Services of one namespace to agree on `app` by name alone their names would be
one: `SelectsItsOwn`. For `RoutesAsRuled`, `EnvoysInv` follows a rule from `Update` to
the Envoy: a snapshot's rule was listed for the pod, whose labels never change
while it lives, and an Envoy asks for the node that its file names, which is its
own pod. Clusters and listener may be of two rules: an Envoy whose listener names a
cluster that it has not refuses the request, as `GoesBy` asks. `BuildersRouteAsAsked` is about the builders alone: for a rule of any length
whose listener is unambiguous (which is what acceptance asks of the listener; of
the clusters nothing is needed), the chain for a port is that of the one filter
with the port, the virtual host that of the one entry for the domain, and the
host under a name that of the last cluster with it.

Only model-checked, and why:

- `Converges`, twice, `EveryItemIsTaken`, `CatchesUp`, `ComesUp`, `SignalEndsIt` and
  `MeshWorks`: liveness under fairness and ENABLED are out of the prover's reach.
- The four violations, which are counterexamples.

What a recursive definition computes for every input cannot be proved with the
provers installed (induction theorems take an operator); none of the modules
above needs one, and none declares a RECURSIVE operator.

## 5. What is not modelled

- *What a relist overlooks*. `Replace` finds deletions by comparing with the
  indexer, so an object whose add is still queued and that is gone from the
  list stays in the lister; and the Sync of an object that is listed again while
  its deletion is queued is dropped (`delta_fifo.go:498`). `Informer` does both;
  `SeenIsKept` and `CatchesUp` speak of the other objects. `ServiceController` and
  `Discovery` use a copy that lags, skips states and resyncs, without this corner.
- *Of the informers*: `AddIfNotPresent`, requeues, several handlers per informer
  and handlers added late, which the program does not use.
- *Pods of one name in several namespaces* share a snapshot in the code (the
  node id is the pod's name). A pod is its name in `Discovery`; in `Mesh` the pods
  of two namespaces have names of their own.
- *Foreign objects* with a child's name: the lister finds them and the
  controller leaves them; the models have none.
- *Texts and constants*: images, time-outs, addresses and annotations that are
  the same for every object, the template's layout, and logging.
- *What the program does not call*: the queue's rate limiter and delays, the
  cache's `ClearSnapshot` and `Fetch`, the clients' `Watch`, the factories'
  `ForResource`, the listers' `List`.
- *Generated deep copies*: field by field; a record of TLA+ is its own copy.
- *CRDs, samples, images*: declarations. That they declare no schema is used
  where users may write anything.

## 6. Plan

1. `WorkQueue`, `KeyedWork`, `ServiceController`: done and proved, but for liveness.
2. `SnapshotCache`, `AdsServer`, `Delivery`, `Discovery`: done; the safety of the
   streams is proved, that they implement `Delivery`, and what waiting Envoys have.
   Left: pods of one name in several namespaces.
3. `Informer`, `Lifecycle`: done and proved, but for liveness; the copy and the
   handler's calls are proved to move forward. Left: the rest of what
   `ServiceController` assumes of its lagging copy (that each version it shows is
   one the API server had, in the API server's order over all objects of a kind).
4. `Resources`, `EnvoyConfig`, `Bootstrap`, `Mesh`: done and proved, but for liveness.
   `MeshClients`: done and model-checked.
