-------------------------- MODULE ServiceController --------------------------
(***************************************************************************)
(* lite-mesh's controller (pkg/controller, cmd/controller): for every mesh *)
(* Service it creates a Deployment and, if the Service exposes a port, a   *)
(* Kubernetes Service.  Informers keep a lagging copy of the API server's  *)
(* objects, their handlers put the keys of changed Services in the work    *)
(* queue (module WorkQueue), and worker goroutines reconcile one key at a  *)
(* time from the copy.                                                     *)
(*                                                                         *)
(* A Service is its uid, its version and its shape; a child is the uid of  *)
(* the Service that owns it, which is all the controller and the garbage   *)
(* collector look at.  Pod templates, ports and labels are left out here.  *)
(***************************************************************************)
EXTENDS WorkQueue

CONSTANTS
    None,         \* no such object
    Shapes,       \* bound: the shapes that users give Services
    MaxLag,       \* bound: the states an informer is behind
    MaxVersion,   \* bound: creations and updates of one Service
    MaxFaults,    \* bound: failed calls, broken watches, deleted children
    MaxRestarts   \* bound: crashes and shutdowns of the controller

Child == {"Deployment", "K8sService"}
Kind == Child \cup {"Service"}

\* "internal" has no ports and no gateway: no Kubernetes Service is wanted.
\* "exposed" has ports.  "portless" has a gateway that lists no port: the
\* code wants a Kubernetes Service and the API server refuses one.
Shape == {"internal", "exposed", "portless"}
Version == 1..MaxVersion
Object == [uid : Version, ver : Version, shape : Shape]

ASSUME ControllerAssumption ==
    /\ {MaxLag, MaxVersion, MaxFaults, MaxRestarts} \subseteq Nat
    /\ Shapes \subseteq Shape
    /\ None \notin Version /\ None \notin Object

VARIABLES
    api,        \* api[kind][k]: the object in the API server
    watch,      \* watch[kind][k]: the states of it the informer will see next
    lister,     \* lister[kind][k]: the object in the informer's indexer
    synced,     \* the kinds whose informer HasSynced
    notified,   \* the keys with an add or update event on its way to enqueue
    pc,         \* pc[w]: where worker w is in processNextWorkItem
    obj,        \* obj[w]: reconcile's deep copy of the Service
    version,    \* version[k]: creations and updates so far
    faults, restarts,
    lastRead,   \* history: the Service the last pass over k looked up
    outcome,    \* history: how the last pass over k ended
    lost        \* history: the children removed and not created since

cluster == <<api, watch, version>>
informers == <<lister, synced, notified>>
history == <<lastRead, outcome, lost>>
vars == <<qvars, cluster, informers, pc, obj, faults, restarts, history>>

Exposed(s) == s.shape \in {"exposed", "portless"}

-----------------------------------------------------------------------------
(* The API server, its users and Kubernetes' garbage collector.              *)

\* The object of kind kd and key k becomes x; the informer will see it.
SetApi(kd, k, x) ==
    /\ Len(watch[kd][k]) < MaxLag
    /\ api' = [api EXCEPT ![kd][k] = x]
    /\ watch' = [watch EXCEPT ![kd][k] = Append(@, x)]
    /\ lost' = IF kd = "Service" THEN lost
               ELSE IF x = None THEN lost \cup {<<kd, k>>}
               ELSE lost \ {<<kd, k>>}

UserStep ==
    UNCHANGED <<qvars, informers, pc, obj, restarts, lastRead, outcome>>

CreateService(k, shape) ==
    /\ api["Service"][k] = None
    /\ version[k] < MaxVersion
    /\ version' = [version EXCEPT ![k] = @ + 1]
    /\ SetApi("Service", k, [uid |-> version[k] + 1, ver |-> version[k] + 1,
                             shape |-> shape])
    /\ UserStep /\ UNCHANGED faults

UpdateService(k, shape) ==
    /\ api["Service"][k] # None
    /\ version[k] < MaxVersion
    /\ version' = [version EXCEPT ![k] = @ + 1]
    /\ SetApi("Service", k, [api["Service"][k] EXCEPT !.ver = version[k] + 1,
                                                      !.shape = shape])
    /\ UserStep /\ UNCHANGED faults

DeleteService(k) ==
    /\ api["Service"][k] # None
    /\ SetApi("Service", k, None)
    /\ UserStep /\ UNCHANGED <<version, faults>>

DeleteChild(kd, k) ==
    /\ api[kd][k] # None
    /\ faults < MaxFaults
    /\ faults' = faults + 1
    /\ SetApi(kd, k, None)
    /\ UserStep /\ UNCHANGED version

\* A child whose owner reference names a uid that no longer exists is removed.
Owned(kd, k) == /\ api["Service"][k] # None
                /\ api["Service"][k].uid = api[kd][k]

CollectGarbage(kd, k) ==
    /\ api[kd][k] # None
    /\ ~Owned(kd, k)
    /\ SetApi(kd, k, None)
    /\ UserStep /\ UNCHANGED <<version, faults>>

Environment ==
    \/ \E k \in Key, s \in Shapes : CreateService(k, s) \/ UpdateService(k, s)
    \/ \E k \in Key : DeleteService(k)
    \/ \E k \in Key, kd \in Child : DeleteChild(kd, k) \/ CollectGarbage(kd, k)

-----------------------------------------------------------------------------
(* The informers: one per kind, feeding an indexer that the listers read.    *)
(* Only the one of Services has a handler, and only for add and update.      *)

\* Mutant: the objects of the initial list raise no add event.
ListSilently(kd) ==
    /\ kd \notin synced
    /\ synced' = synced \cup {kd}
    /\ lister' = [lister EXCEPT ![kd] = [k \in Key |->
          IF watch[kd][k] = <<>> THEN None ELSE Head(watch[kd][k])]]
    /\ watch' = [watch EXCEPT ![kd] = [k \in Key |->
          IF watch[kd][k] = <<>> THEN <<>> ELSE Tail(watch[kd][k])]]
    /\ UNCHANGED <<qvars, api, version, notified, pc, obj, faults, restarts,
                   history>>

\* The initial list.  It may be served from the API server's watch cache and
\* show an older state, which the watch that follows then catches up with.
List(kd) ==
    /\ kd \notin synced
    /\ synced' = synced \cup {kd}
    /\ lister' = [lister EXCEPT ![kd] = [k \in Key |->
          IF watch[kd][k] = <<>> THEN None ELSE Head(watch[kd][k])]]
    /\ watch' = [watch EXCEPT ![kd] = [k \in Key |->
          IF watch[kd][k] = <<>> THEN <<>> ELSE Tail(watch[kd][k])]]
    /\ notified' = IF kd # "Service" THEN notified
                   ELSE {k \in Key : lister'["Service"][k] # None}
    /\ UNCHANGED <<qvars, api, version, pc, obj, faults, restarts, history>>

\* The watch broke: the list that follows it does not show every state.
Skip(kd, k) ==
    /\ Len(watch[kd][k]) > 1
    /\ watch' = [watch EXCEPT ![kd][k] = Tail(@)]
    /\ faults < MaxFaults
    /\ faults' = faults + 1
    /\ UNCHANGED <<qvars, api, version, informers, pc, obj, restarts, history>>

\* Mutant: the handler has no UpdateFunc.
DeliverAddsOnly(kd, k) ==
    /\ kd \in synced /\ watch[kd][k] # <<>>
    /\ lister' = [lister EXCEPT ![kd][k] = Head(watch[kd][k])]
    /\ watch' = [watch EXCEPT ![kd][k] = Tail(@)]
    /\ notified' = IF kd = "Service" /\ lister[kd][k] = None
                   THEN notified \cup {k} ELSE notified
    /\ UNCHANGED <<qvars, api, version, synced, pc, obj, faults, restarts,
                   history>>

\* HandleDeltas: store the next state, then tell the handlers.
Deliver(kd, k) ==
    /\ kd \in synced /\ watch[kd][k] # <<>>
    /\ lister' = [lister EXCEPT ![kd][k] = Head(watch[kd][k])]
    /\ watch' = [watch EXCEPT ![kd][k] = Tail(@)]
    /\ notified' = IF kd = "Service" /\ Head(watch[kd][k]) # None
                   THEN notified \cup {k} ELSE notified
    /\ UNCHANGED <<qvars, api, version, synced, pc, obj, faults, restarts,
                   history>>

\* Mutant: the informer factory is built with a resync period of 0.
ResyncNever(k) == FALSE

\* The periodic resync: an update event for a key with no event under way.
Resync(k) ==
    /\ lister["Service"][k] # None
    /\ watch["Service"][k] = <<>>
    /\ k \notin notified
    /\ notified' = notified \cup {k}
    /\ UNCHANGED <<qvars, cluster, lister, synced, pc, obj, faults, restarts,
                   history>>

\* The listener's goroutine calls the handler, the handler calls Add.
Enqueue(k) ==
    /\ k \in notified
    /\ notified' = notified \ {k}
    /\ Add(k)
    /\ UNCHANGED <<cluster, lister, synced, pc, obj, faults, restarts, history>>

Informer ==
    \/ \E kd \in Kind : List(kd)
    \/ \E kd \in Kind, k \in Key : Skip(kd, k) \/ Deliver(kd, k)
    \/ \E k \in Key : Resync(k) \/ Enqueue(k)

-----------------------------------------------------------------------------
(* The workers.  One worker is one goroutine in runWorker; its steps are the *)
(* reads of a lister, the calls of the API server, and Get and Done.         *)

At(w, l) == pc[w] = l
Goto(w, l) == pc' = [pc EXCEPT ![w] = l]

\* reconcile returns: with nil if ok, else with an error.
Return(w, r) ==
    /\ Goto(w, "done")
    /\ outcome' = [outcome EXCEPT ![held[w]] = r]

WorkerStep == UNCHANGED <<qvars, version, informers, restarts>>

\* Run starts the workers once WaitForCacheSync has returned.
Get(w) ==
    /\ synced = Kind
    /\ \/ GetWait(w) /\ UNCHANGED pc
       \/ GetShutdown(w) /\ UNCHANGED pc
       \/ GetItem(w) /\ Goto(w, "lookup")
    /\ UNCHANGED <<cluster, informers, obj, faults, restarts, history>>

Lookup(w) ==
    /\ At(w, "lookup")
    /\ LET s == lister["Service"][held[w]]
       IN  /\ obj' = [obj EXCEPT ![w] = s]
           /\ lastRead' = [lastRead EXCEPT ![held[w]] = s]
           /\ \/ s = None /\ Return(w, "ok")
              \/ /\ s # None
                 /\ Goto(w, "getDeployment")
                 /\ outcome' = [outcome EXCEPT ![held[w]] = "none"]
    /\ WorkerStep /\ UNCHANGED <<api, watch, faults, lost>>

\* What follows a Deployment that was found or created.
AfterDeployment(w) ==
    \/ Exposed(obj[w]) /\ Goto(w, "getK8sService") /\ UNCHANGED outcome
    \/ ~Exposed(obj[w]) /\ Return(w, "ok")

GetDeployment(w) ==
    /\ At(w, "getDeployment")
    /\ \/ /\ lister["Deployment"][held[w]] = None
          /\ Goto(w, "createDeployment") /\ UNCHANGED outcome
       \/ /\ lister["Deployment"][held[w]] # None
          /\ AfterDeployment(w)
    /\ WorkerStep /\ UNCHANGED <<api, watch, obj, faults, lastRead, lost>>

\* Mutant: the error of Create is logged and not returned.
FaultSwallowed(w, kd) ==
    /\ faults < MaxFaults
    /\ faults' = faults + 1
    /\ UNCHANGED <<api, watch, lost>>
    /\ Return(w, "ok")

\* An API call that fails although nothing is wrong with it.  The failure may
\* come after the effect: the call timed out, the object was created.
Fault(w, kd) ==
    /\ faults < MaxFaults
    /\ faults' = faults + 1
    /\ \/ UNCHANGED <<api, watch, lost>>
       \/ api[kd][held[w]] = None /\ SetApi(kd, held[w], obj[w].uid)
    /\ Return(w, "error")

\* AlreadyExists: the lister lags behind what is there.
Refused(w, kd) ==
    /\ api[kd][held[w]] # None
    /\ Return(w, "error")
    /\ UNCHANGED <<api, watch, lost, faults>>

CreateDeployment(w) ==
    /\ At(w, "createDeployment")
    /\ \/ /\ api["Deployment"][held[w]] = None
          /\ SetApi("Deployment", held[w], obj[w].uid)
          /\ AfterDeployment(w)
          /\ UNCHANGED faults
       \/ Refused(w, "Deployment")
       \/ Fault(w, "Deployment")
    /\ WorkerStep /\ UNCHANGED <<obj, lastRead>>

GetK8sService(w) ==
    /\ At(w, "getK8sService")
    /\ \/ /\ lister["K8sService"][held[w]] = None
          /\ Goto(w, "createK8sService") /\ UNCHANGED outcome
       \/ /\ lister["K8sService"][held[w]] # None
          /\ Return(w, "ok")
    /\ WorkerStep /\ UNCHANGED <<api, watch, obj, faults, lastRead, lost>>

CreateK8sService(w) ==
    /\ At(w, "createK8sService")
    /\ \/ /\ api["K8sService"][held[w]] = None
          /\ obj[w].shape # "portless"
          /\ SetApi("K8sService", held[w], obj[w].uid)
          /\ Return(w, "ok")
          /\ UNCHANGED faults
       \/ /\ obj[w].shape = "portless"
          /\ Return(w, "error")
          /\ UNCHANGED <<api, watch, lost, faults>>
       \/ Refused(w, "K8sService")
       \/ obj[w].shape # "portless" /\ Fault(w, "K8sService")
    /\ WorkerStep /\ UNCHANGED <<obj, lastRead>>

\* Mutant: the worker takes the next item without a Done.
FinishWithoutDone(w) ==
    /\ At(w, "done")
    /\ held' = [held EXCEPT ![w] = NoKey]
    /\ UNCHANGED <<queue, dirty, processing, shuttingDown, waiting, exited>>
    /\ Goto(w, "get")
    /\ UNCHANGED <<cluster, informers, obj, faults, restarts, history>>

\* The deferred Done of processNextWorkItem.  A failed item is only logged.
Finish(w) ==
    /\ At(w, "done")
    /\ Done(w)
    /\ Goto(w, "get")
    /\ UNCHANGED <<cluster, informers, obj, faults, restarts, history>>

Work(w) ==
    \/ Get(w) \/ Lookup(w)
    \/ GetDeployment(w) \/ CreateDeployment(w)
    \/ GetK8sService(w) \/ CreateK8sService(w)
    \/ Finish(w)

-----------------------------------------------------------------------------
(* The process: shutdown, crash, and the start of a new one.                 *)

\* SIGTERM closes stopCh, Run returns and its deferred call shuts the queue.
Stop ==
    /\ synced = Kind /\ ~shuttingDown
    /\ restarts < MaxRestarts
    /\ restarts' = restarts + 1
    /\ ShutDown
    /\ UNCHANGED <<cluster, informers, pc, obj, faults, history>>

\* Nothing is kept on disk: the new process lists everything again.
NewProcess ==
    /\ NewQueue
    /\ synced' = {} /\ notified' = {}
    /\ lister' = [kd \in Kind |-> [k \in Key |-> None]]
    /\ watch' = [kd \in Kind |-> [k \in Key |->
          IF watch[kd][k] = <<>> /\ api[kd][k] # None
          THEN <<api[kd][k]>> ELSE watch[kd][k]]]
    /\ pc' = [w \in Worker |-> "get"]
    /\ obj' = [w \in Worker |-> None]
    /\ lastRead' = [k \in Key |-> None]
    /\ outcome' = [k \in Key |-> "none"]
    /\ UNCHANGED <<api, version, faults, lost>>

\* main returns right after stopCh closes, whether the queue is drained or not.
Restart ==
    /\ shuttingDown
    /\ NewProcess
    /\ UNCHANGED restarts

Crash ==
    /\ restarts < MaxRestarts
    /\ restarts' = restarts + 1
    /\ NewProcess

Init ==
    /\ QInit
    /\ api = [kd \in Kind |-> [k \in Key |-> None]]
    /\ watch = [kd \in Kind |-> [k \in Key |-> <<>>]]
    /\ lister = [kd \in Kind |-> [k \in Key |-> None]]
    /\ synced = {} /\ notified = {}
    /\ pc = [w \in Worker |-> "get"]
    /\ obj = [w \in Worker |-> None]
    /\ version = [k \in Key |-> 0]
    /\ faults = 0 /\ restarts = 0
    /\ lastRead = [k \in Key |-> None]
    /\ outcome = [k \in Key |-> "none"]
    /\ lost = {}

Next ==
    \/ Environment
    \/ Informer
    \/ \E w \in Worker : Work(w)
    \/ Stop \/ Restart \/ Crash

Spec == Init /\ [][Next]_vars

\* Goroutines that can run do run, informers list again until they succeed and
\* deliver what they hold, the resync timer fires for ever, the garbage
\* collector works, and the cluster starts a new controller when one ends.
\* Nothing is assumed of users, faults, crashes and shutdowns.
FairSpec ==
    /\ Spec
    /\ \A w \in Worker : WF_vars(Work(w))
    /\ \A kd \in Kind : WF_vars(List(kd))
    /\ \A kd \in Kind, k \in Key : WF_vars(Deliver(kd, k))
    /\ \A k \in Key : WF_vars(Resync(k)) /\ WF_vars(Enqueue(k))
    /\ \A kd \in Child, k \in Key : WF_vars(CollectGarbage(kd, k))
    /\ WF_vars(Restart)

-----------------------------------------------------------------------------

State(kd) == IF kd = "Service" THEN Object \cup {None}
             ELSE Version \cup {None}

Label == {"get", "lookup", "getDeployment", "createDeployment",
          "getK8sService", "createK8sService", "done"}

ClusterTypeOK ==
    /\ DOMAIN api = Kind /\ DOMAIN watch = Kind
    /\ \A kd \in Kind : /\ api[kd] \in [Key -> State(kd)]
                        /\ watch[kd] \in [Key -> Seq(State(kd))]
    /\ version \in [Key -> 0..MaxVersion]
    /\ lost \in SUBSET (Child \X Key)

InformerTypeOK ==
    /\ DOMAIN lister = Kind
    /\ \A kd \in Kind : lister[kd] \in [Key -> State(kd)]
    /\ synced \in SUBSET Kind
    /\ notified \in SUBSET Key

ControllerTypeOK ==
    /\ pc \in [Worker -> Label]
    /\ obj \in [Worker -> Object \cup {None}]
    /\ faults \in 0..MaxFaults
    /\ restarts \in 0..MaxRestarts
    /\ lastRead \in [Key -> Object \cup {None}]
    /\ outcome \in [Key -> {"none", "ok", "error"}]

TypeOK == QTypeOK /\ ClusterTypeOK /\ InformerTypeOK /\ ControllerTypeOK

\* A worker holds an item exactly while it is in processNextWorkItem, and
\* once it has looked its Service up, it has one.
WorkerPhase ==
    \A w \in Worker :
       /\ held[w] = NoKey <=> At(w, "get")
       /\ pc[w] \notin {"get", "lookup", "done"} => obj[w] \in Object

\* No version of a Service is forgotten: one that the informer stored and that
\* no pass has looked up yet is on its way to a worker, be it as an event not
\* delivered, as a dirty key (perhaps one that another worker is busy with) or
\* in the hands of a worker that has still to look it up.
NoVersionMissed ==
    \A k \in Key :
       lister["Service"][k] \notin {None, lastRead[k]} /\ ~shuttingDown =>
          \/ k \in notified \cup dirty
          \/ \E w \in Worker : held[w] = k /\ At(w, "lookup")

\* The children a Service calls for (controller.go:159 and 163).
Wanted(s) == IF Exposed(s) THEN Child ELSE {"Deployment"}

\* The child was created; if it is no longer there, it was removed.
Served(kd, k) == api[kd][k] # None \/ <<kd, k>> \in lost

\* reconcile does not report success half done: after a pass that ended with
\* nil, every child wanted exists, unless somebody removed it.
SuccessMeansServed ==
    \A k \in Key : outcome[k] = "ok" /\ lastRead[k] # None =>
       \A kd \in Wanted(lastRead[k]) : Served(kd, k)

\* What makes it inductive: a child that an informer has seen or will see was
\* created; a pass works on the Service it looked up last, and has come to the
\* Kubernetes Service only with a Deployment there.
SeenIsServed ==
    \A kd \in Child, k \in Key :
       \/ lister[kd][k] # None
       \/ \E i \in DOMAIN watch[kd][k] : watch[kd][k][i] # None
       => Served(kd, k)

PassState ==
    \A w \in Worker : pc[w] \notin {"get", "lookup", "done"} =>
       /\ obj[w] = lastRead[held[w]]
       /\ outcome[held[w]] = "none"
       /\ pc[w] \in {"getK8sService", "createK8sService"} =>
             Exposed(obj[w]) /\ Served("Deployment", held[w])

\* A pass that has not ended is in the hands of a worker.
OpenPassIsHeld ==
    \A k \in Key : lastRead[k] # None /\ outcome[k] = "none" =>
       \E w \in Worker : held[w] = k /\ pc[w] \notin {"get", "lookup", "done"}

\* Nothing is under way for key k: no event, no mark, no worker.
Quiet(k) ==
    /\ synced = Kind /\ ~shuttingDown
    /\ \A kd \in Kind : watch[kd][k] = <<>>
    /\ k \notin notified \cup dirty \cup processing

\* The controller rests only where it should: when nothing is under way for a
\* Service, its children exist, or the last pass failed, or one was removed.
RestIsRight ==
    \A k \in Key : Quiet(k) /\ api["Service"][k] # None =>
       \/ outcome[k] = "error"
       \/ \A kd \in Wanted(api["Service"][k]) : Served(kd, k)

\* What the informer has yet to see ends at what is in the API server.
WatchEndsAtApi ==
    \A kd \in Kind, k \in Key :
       IF watch[kd][k] = <<>>
       THEN api[kd][k] = IF kd \in synced THEN lister[kd][k] ELSE None
       ELSE api[kd][k] = watch[kd][k][Len(watch[kd][k])]

\* What processNextWorkItem's comment says (controller.go:101-103): an item
\* whose pass failed "is put back on the workqueue and attempted again".
FailedItemIsPutBack ==
    \A k \in Key : outcome[k] = "error" /\ k \notin processing /\ ~shuttingDown
       => k \in dirty

\* The children are the ones the Service wants, and belong to it.  A child
\* wanted by an earlier version only is never removed (reconcile has no code
\* for it), and the API server never accepts the one of a portless gateway.
Settled(k) ==
    LET s == api["Service"][k]
    IN  /\ \A kd \in Child : api[kd][k] # None => Owned(kd, k)
        /\ s # None => /\ api["Deployment"][k] # None
                       /\ s.shape = "exposed" => api["K8sService"][k] # None

\* Once users, faults and crashes stop, the cluster reaches what the Services
\* ask for and stays there: through lagging listers, failed calls, deleted
\* children and Services deleted and created again under the same name.
Converges == <>[](\A k \in Key : Settled(k))

\* The controller uses the queue only through its methods, and Done follows
\* Get in the same worker: what is proved of WorkQueue holds here.
UsesQueue == QSpec
=============================================================================
