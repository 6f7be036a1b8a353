----------------------- MODULE ServiceControllerProofs -----------------------
(***************************************************************************)
(* Proofs about the controller, for every set of Services and every finite *)
(* set of workers, whatever the bounds on changes, lag, faults and         *)
(* restarts.  First: the controller uses the queue as a queue, so that     *)
(* every theorem of WorkQueueProofs holds of it.  Then the invariants of   *)
(* its own state, each from the ones before it.                            *)
(***************************************************************************)
EXTENDS ServiceController, WorkQueueProofs

-----------------------------------------------------------------------------
(* The controller and the queue.                                             *)

\* A step of the environment, of an informer or of reconcile leaves the queue
\* alone; the others are one queue method each.
LEMMA WorkUsesQueue ==
    ASSUME NEW w \in Worker, Work(w)
    PROVE  [QNext]_qvars
<1>1. CASE Get(w)
  BY <1>1 DEF Get, QNext
<1>2. CASE Finish(w)
  BY <1>2 DEF Finish, QNext
<1>3. CASE Lookup(w) \/ GetDeployment(w) \/ GetK8sService(w)
  BY <1>3 DEF Lookup, GetDeployment, GetK8sService, WorkerStep
<1>4. CASE CreateDeployment(w) \/ CreateK8sService(w)
  BY <1>4 DEF CreateDeployment, CreateK8sService, WorkerStep
<1> QED
  BY <1>1, <1>2, <1>3, <1>4 DEF Work

LEMMA StepUsesQueue == [Next]_vars => [QNext]_qvars
<1> SUFFICES ASSUME [Next]_vars
             PROVE  [QNext]_qvars
  OBVIOUS
<1>1. CASE Environment
  <2>1. UNCHANGED qvars
    BY <1>1 DEF Environment, CreateService, UpdateService, DeleteService,
       DeleteChild, CollectGarbage, UserStep
  <2> QED
    BY <2>1
<1>2. ASSUME NEW kd \in Kind, NEW k \in Key,
             Skip(kd, k) \/ Deliver(kd, k) \/ Resync(k)
      PROVE  UNCHANGED qvars
  BY <1>2 DEF Skip, Deliver, Resync
<1>3. ASSUME NEW k \in Key, Enqueue(k)
      PROVE  QNext
  BY <1>3 DEF Enqueue, QNext
<1>4. ASSUME NEW kd \in Kind, List(kd)
      PROVE  UNCHANGED qvars
  BY <1>4 DEF List
<1>5. CASE Informer
  BY <1>2, <1>3, <1>4, <1>5 DEF Informer, Kind
<1>6. CASE Stop \/ Restart \/ Crash
  BY <1>6 DEF Stop, Restart, Crash, NewProcess, QNext
<1>7. CASE UNCHANGED vars
  BY <1>7 DEF vars
<1> QED
  BY <1>1, <1>5, <1>6, <1>7, WorkUsesQueue DEF Next

\* The controller keeps the queue's protocol: it implements WorkQueue.
THEOREM ControllerUsesQueue == Spec => UsesQueue
<1>1. Init => QInit
  BY DEF Init
<1> QED
  BY <1>1, StepUsesQueue, PTL DEF Spec, UsesQueue, QSpec

\* No two workers ever reconcile the same Service at the same time.
THEOREM OneWorkerPerService == Spec => []Stingy
  BY ControllerUsesQueue, QueueIsStingy, PTL DEF UsesQueue

\* What reconciles is the abstract dispatcher of module KeyedWork, with all that
\* informers, passes and faults do in between: every key that is marked stays
\* pending until a worker takes it, and goes to one worker at a time.
THEOREM ControllerImplementsKeyedWork == Spec => RefinesKeyedWork
  BY ControllerUsesQueue, QueueImplementsKeyedWork, PTL DEF UsesQueue

-----------------------------------------------------------------------------
(* Types.  The queue's own types come from QIInv.                            *)

TypeInv ==
    /\ QIInv
    /\ ClusterTypeOK /\ InformerTypeOK /\ ControllerTypeOK
    /\ WorkerPhase

\* A write of a state of the right kind keeps the cluster's types.
LEMMA SetApiType ==
    ASSUME ClusterTypeOK, NEW kd \in Kind, NEW k \in Key, NEW x \in State(kd),
           SetApi(kd, k, x)
    PROVE  /\ DOMAIN api' = Kind /\ DOMAIN watch' = Kind
           /\ \A d \in Kind : /\ api'[d] \in [Key -> State(d)]
                              /\ watch'[d] \in [Key -> Seq(State(d))]
           /\ lost' \in SUBSET (Child \X Key)
<1>1. Append(watch[kd][k], x) \in Seq(State(kd))
  BY AppendItems DEF ClusterTypeOK
<1>2. DOMAIN api' = Kind /\ DOMAIN watch' = Kind
  BY DEF ClusterTypeOK, SetApi
<1>3. ASSUME NEW d \in Kind
      PROVE  /\ api'[d] \in [Key -> State(d)]
             /\ watch'[d] \in [Key -> Seq(State(d))]
  BY <1>1 DEF ClusterTypeOK, SetApi
<1>4. lost' \in SUBSET (Child \X Key)
  BY DEF ClusterTypeOK, SetApi, Kind
<1> QED
  BY <1>2, <1>3, <1>4

LEMMA EnvironmentType ==
    ASSUME TypeInv, Environment
    PROVE  ClusterTypeOK' /\ InformerTypeOK' /\ ControllerTypeOK' /\ WorkerPhase'
<1> USE DEF TypeInv
<1>1. UserStep
  BY DEF Environment, CreateService, UpdateService, DeleteService,
     DeleteChild, CollectGarbage
<1>2. InformerTypeOK'
  BY <1>1 DEF InformerTypeOK, UserStep, informers
<1>3. WorkerPhase'
  BY <1>1 DEF WorkerPhase, UserStep, qvars, At
<1>4. ASSUME NEW k \in Key, NEW shape \in Shapes,
             CreateService(k, shape) \/ UpdateService(k, shape)
      PROVE  ClusterTypeOK' /\ ControllerTypeOK'
  <2>1. /\ version[k] + 1 \in Version
        /\ version' = [version EXCEPT ![k] = @ + 1]
        /\ version' \in [Key -> 0..MaxVersion]
        /\ shape \in Shape
    BY <1>4, ControllerAssumption
    DEF CreateService, UpdateService, ClusterTypeOK, Version
  <2>2. PICK x \in Object : SetApi("Service", k, x)
    <3>1. CASE CreateService(k, shape)
      BY <2>1, <3>1 DEF CreateService, Object
    <3>2. CASE UpdateService(k, shape)
      <4>1. api["Service"][k] \in Object
        BY <3>2 DEF UpdateService, ClusterTypeOK, Kind, State
      <4> QED
        BY <2>1, <3>2, <4>1 DEF UpdateService, Object
    <3> QED
      BY <1>4, <3>1, <3>2
  <2>3. ClusterTypeOK'
    BY <2>1, <2>2, SetApiType DEF ClusterTypeOK, Kind, State
  <2>4. UNCHANGED faults
    BY <1>4 DEF CreateService, UpdateService
  <2> QED
    BY <1>1, <2>3, <2>4 DEF ControllerTypeOK, UserStep
<1>5. ASSUME NEW k \in Key, DeleteService(k)
      PROVE  ClusterTypeOK' /\ ControllerTypeOK'
  BY <1>1, <1>5, SetApiType
  DEF DeleteService, ClusterTypeOK, ControllerTypeOK, UserStep, Kind, State
<1>6. ASSUME NEW k \in Key, NEW kd \in Child,
             DeleteChild(kd, k) \/ CollectGarbage(kd, k)
      PROVE  ClusterTypeOK' /\ ControllerTypeOK'
  <2>1. ClusterTypeOK'
    BY <1>6, SetApiType
    DEF DeleteChild, CollectGarbage, ClusterTypeOK, Kind, State
  <2>2. faults' \in 0..MaxFaults
    BY <1>6, ControllerAssumption
    DEF DeleteChild, CollectGarbage, ControllerTypeOK
  <2> QED
    BY <1>1, <2>1, <2>2 DEF ControllerTypeOK, UserStep
<1> QED
  BY <1>2, <1>3, <1>4, <1>5, <1>6 DEF Environment

LEMMA InformerType ==
    ASSUME TypeInv, Informer
    PROVE  ClusterTypeOK' /\ InformerTypeOK' /\ ControllerTypeOK' /\ WorkerPhase'
<1> USE DEF TypeInv
<1>1. UNCHANGED <<pc, obj, held, api, version, restarts, history>>
  BY DEF Informer, List, Skip, Deliver, Resync, Enqueue, Add, qvars, cluster
<1>2. WorkerPhase'
  BY <1>1 DEF WorkerPhase, At
<1>3. ASSUME NEW kd \in Kind, NEW k \in Key, watch[kd][k] # <<>>
      PROVE  /\ Head(watch[kd][k]) \in State(kd)
             /\ Tail(watch[kd][k]) \in Seq(State(kd))
  BY <1>3, HeadTailProperties DEF ClusterTypeOK
<1>4. ASSUME NEW kd \in Kind, List(kd)
      PROVE  ClusterTypeOK' /\ InformerTypeOK' /\ ControllerTypeOK'
  <2> DEFINE L == [k \in Key |->
                IF watch[kd][k] = <<>> THEN None ELSE Head(watch[kd][k])]
             W == [k \in Key |->
                IF watch[kd][k] = <<>> THEN <<>> ELSE Tail(watch[kd][k])]
  <2>1. L \in [Key -> State(kd)]
    BY <1>3 DEF State
  <2>2. W \in [Key -> Seq(State(kd))]
    BY <1>3, EmptySeq
  <2>3. lister' = [lister EXCEPT ![kd] = L] /\ watch' = [watch EXCEPT ![kd] = W]
    BY <1>4 DEF List
  <2> HIDE DEF L, W
  <2>4. ClusterTypeOK'
    BY <1>1, <2>2, <2>3 DEF ClusterTypeOK, history
  <2>5. InformerTypeOK'
    BY <1>4, <2>1, <2>3 DEF InformerTypeOK, List, Kind
  <2>6. ControllerTypeOK'
    BY <1>1, <1>4 DEF ControllerTypeOK, List, history
  <2> QED
    BY <2>4, <2>5, <2>6
<1>5. ASSUME NEW kd \in Kind, NEW k \in Key, Skip(kd, k)
      PROVE  ClusterTypeOK' /\ InformerTypeOK' /\ ControllerTypeOK'
  <2>1. watch[kd][k] # <<>>
    BY <1>5, EmptySeq DEF Skip
  <2>2. ClusterTypeOK'
    BY <1>1, <1>3, <1>5, <2>1 DEF Skip, ClusterTypeOK, history
  <2>3. InformerTypeOK'
    BY <1>5 DEF Skip, InformerTypeOK, informers
  <2>4. ControllerTypeOK'
    BY <1>1, <1>5, ControllerAssumption DEF Skip, ControllerTypeOK, history
  <2> QED
    BY <2>2, <2>3, <2>4
<1>6. ASSUME NEW kd \in Kind, NEW k \in Key, Deliver(kd, k)
      PROVE  ClusterTypeOK' /\ InformerTypeOK' /\ ControllerTypeOK'
  <2>1. ClusterTypeOK'
    BY <1>1, <1>3, <1>6 DEF Deliver, ClusterTypeOK, history
  <2>2. InformerTypeOK'
    BY <1>3, <1>6 DEF Deliver, InformerTypeOK
  <2>3. ControllerTypeOK'
    BY <1>1, <1>6 DEF Deliver, ControllerTypeOK, history
  <2> QED
    BY <2>1, <2>2, <2>3
<1>7. ASSUME NEW k \in Key, Resync(k) \/ Enqueue(k)
      PROVE  ClusterTypeOK' /\ InformerTypeOK' /\ ControllerTypeOK'
  <2>1. /\ UNCHANGED <<cluster, lister, synced, faults>>
        /\ notified' \in SUBSET Key
    BY <1>7 DEF Resync, Enqueue, InformerTypeOK
  <2> QED
    BY <1>1, <2>1
    DEF ClusterTypeOK, InformerTypeOK, ControllerTypeOK, cluster, history
<1> QED
  BY <1>2, <1>4, <1>5, <1>6, <1>7 DEF Informer

\* A worker in processNextWorkItem holds a key; past the lookup, its copy is
\* a Service.
LEMMA WorkerHolds ==
    ASSUME TypeInv, NEW w \in Worker, ~At(w, "get")
    PROVE  /\ held[w] \in Key
           /\ pc[w] \notin {"lookup", "done"} =>
                 obj[w] \in Object /\ obj[w].uid \in Version
  BY DEF TypeInv, WorkerPhase, QIInv, QTypeOK, At, Object

\* The labels a worker can go to, and the outcomes it can leave.
LEMMA GotoType ==
    ASSUME ControllerTypeOK, NEW w \in Worker, NEW l \in Label, Goto(w, l)
    PROVE  pc' \in [Worker -> Label] /\ pc'[w] = l
           /\ \A v \in Worker \ {w} : pc'[v] = pc[v]
  BY DEF ControllerTypeOK, Goto

LEMMA ReturnType ==
    ASSUME ControllerTypeOK, NEW w \in Worker, held[w] \in Key,
           NEW r \in {"none", "ok", "error"}, Return(w, r)
    PROVE  /\ outcome' \in [Key -> {"none", "ok", "error"}]
           /\ pc' \in [Worker -> Label] /\ pc'[w] = "done"
           /\ \A v \in Worker \ {w} : pc'[v] = pc[v]
  BY DEF ControllerTypeOK, Return, Goto, Label

\* Creating a child: the write, the label and the outcome it leads to.
LEMMA CreateType ==
    ASSUME TypeInv, NEW w \in Worker, NEW kd \in Child,
           ~At(w, "get"), pc[w] \notin {"lookup", "done"},
           SetApi(kd, held[w], obj[w].uid) \/ UNCHANGED <<api, watch, lost>>,
           UNCHANGED version
    PROVE  ClusterTypeOK'
<1>1. held[w] \in Key /\ obj[w].uid \in State(kd)
  BY WorkerHolds DEF State, Child
<1> QED
  BY <1>1, SetApiType DEF TypeInv, ClusterTypeOK, Kind

LEMMA AfterDeploymentType ==
    ASSUME ControllerTypeOK, NEW w \in Worker, held[w] \in Key,
           AfterDeployment(w)
    PROVE  /\ outcome' \in [Key -> {"none", "ok", "error"}]
           /\ pc' \in [Worker -> Label] /\ pc'[w] \in {"getK8sService", "done"}
           /\ \A v \in Worker \ {w} : pc'[v] = pc[v]
  BY ReturnType, GotoType DEF AfterDeployment, ControllerTypeOK, Label

\* What the five steps of reconcile have in common.
LEMMA ReconcileType ==
    ASSUME TypeInv, NEW w \in Worker, WorkerStep, ~At(w, "get"),
           pc' \in [Worker -> Label], pc'[w] # "get",
           \A v \in Worker \ {w} : pc'[v] = pc[v] /\ obj'[v] = obj[v],
           pc'[w] # "done" => obj'[w] \in Object
    PROVE  InformerTypeOK' /\ WorkerPhase'
<1>1. InformerTypeOK'
  BY DEF TypeInv, InformerTypeOK, WorkerStep, informers
<1>2. UNCHANGED held
  BY DEF WorkerStep, qvars
<1>3. WorkerPhase'
  BY <1>2 DEF TypeInv, WorkerPhase, At
<1> QED
  BY <1>1, <1>3

LEMMA LookupType ==
    ASSUME TypeInv, NEW w \in Worker, Lookup(w)
    PROVE  ClusterTypeOK' /\ InformerTypeOK' /\ ControllerTypeOK' /\ WorkerPhase'
<1> DEFINE s == lister["Service"][held[w]]
<1>1. ~At(w, "get") /\ held[w] \in Key
  BY WorkerHolds DEF Lookup, At
<1>2. s \in Object \cup {None}
  BY <1>1 DEF TypeInv, InformerTypeOK, Kind, State
<1>3. /\ obj' = [obj EXCEPT ![w] = s]
      /\ lastRead' = [lastRead EXCEPT ![held[w]] = s]
      /\ \/ s = None /\ Return(w, "ok")
         \/ /\ s # None
            /\ Goto(w, "getDeployment")
            /\ outcome' = [outcome EXCEPT ![held[w]] = "none"]
      /\ WorkerStep /\ UNCHANGED <<api, watch, faults, lost>>
  BY DEF Lookup
<1> HIDE DEF s
<1>4. /\ pc' \in [Worker -> Label]
      /\ \/ pc'[w] = "done"
         \/ pc'[w] = "getDeployment" /\ s \in Object
      /\ \A v \in Worker \ {w} : pc'[v] = pc[v]
      /\ outcome' \in [Key -> {"none", "ok", "error"}]
  <2>1. CASE Return(w, "ok")
    BY <1>1, <2>1, ReturnType DEF TypeInv
  <2>2. CASE /\ s # None
             /\ Goto(w, "getDeployment")
             /\ outcome' = [outcome EXCEPT ![held[w]] = "none"]
    BY <1>1, <1>2, <2>2, GotoType DEF TypeInv, ControllerTypeOK, Label
  <2> QED
    BY <1>3, <2>1, <2>2
<1>5. /\ obj' \in [Worker -> Object \cup {None}] /\ obj'[w] = s
      /\ \A v \in Worker \ {w} : obj'[v] = obj[v]
      /\ lastRead' \in [Key -> Object \cup {None}]
  BY <1>1, <1>2, <1>3 DEF TypeInv, ControllerTypeOK
<1>6. InformerTypeOK' /\ WorkerPhase'
  BY <1>1, <1>3, <1>4, <1>5, ReconcileType
<1>7. ClusterTypeOK' /\ ControllerTypeOK'
  BY <1>3, <1>4, <1>5
  DEF TypeInv, ClusterTypeOK, ControllerTypeOK, WorkerStep
<1> QED
  BY <1>6, <1>7

LEMMA GetChildType ==
    ASSUME TypeInv, NEW w \in Worker, GetDeployment(w) \/ GetK8sService(w)
    PROVE  ClusterTypeOK' /\ InformerTypeOK' /\ ControllerTypeOK' /\ WorkerPhase'
<1>1. ~At(w, "get") /\ held[w] \in Key /\ obj[w] \in Object
  BY WorkerHolds DEF GetDeployment, GetK8sService, At
<1>2. WorkerStep /\ UNCHANGED <<api, watch, obj, faults, lastRead, lost>>
  BY DEF GetDeployment, GetK8sService
<1>3. /\ pc' \in [Worker -> Label] /\ pc'[w] # "get"
      /\ \A v \in Worker \ {w} : pc'[v] = pc[v]
      /\ outcome' \in [Key -> {"none", "ok", "error"}]
  <2>1. \/ Goto(w, "createDeployment") /\ UNCHANGED outcome
        \/ AfterDeployment(w)
        \/ Goto(w, "createK8sService") /\ UNCHANGED outcome
        \/ Return(w, "ok")
    BY DEF GetDeployment, GetK8sService
  <2> QED
    BY <1>1, <2>1, GotoType, ReturnType, AfterDeploymentType
    DEF TypeInv, ControllerTypeOK, Label
<1>4. InformerTypeOK' /\ WorkerPhase'
  BY <1>1, <1>2, <1>3, ReconcileType
<1>5. ClusterTypeOK' /\ ControllerTypeOK'
  BY <1>2, <1>3 DEF TypeInv, ClusterTypeOK, ControllerTypeOK, WorkerStep
<1> QED
  BY <1>4, <1>5

LEMMA CreateChildType ==
    ASSUME TypeInv, NEW w \in Worker, CreateDeployment(w) \/ CreateK8sService(w)
    PROVE  ClusterTypeOK' /\ InformerTypeOK' /\ ControllerTypeOK' /\ WorkerPhase'
<1>1. /\ ~At(w, "get") /\ held[w] \in Key /\ obj[w] \in Object
      /\ pc[w] \notin {"lookup", "done"}
  BY WorkerHolds DEF CreateDeployment, CreateK8sService, At
<1>2. WorkerStep /\ UNCHANGED <<obj, lastRead>>
  BY DEF CreateDeployment, CreateK8sService
<1>3. /\ pc' \in [Worker -> Label] /\ pc'[w] # "get"
      /\ \A v \in Worker \ {w} : pc'[v] = pc[v]
      /\ outcome' \in [Key -> {"none", "ok", "error"}]
  <2>1. AfterDeployment(w) \/ Return(w, "ok") \/ Return(w, "error")
    BY DEF CreateDeployment, CreateK8sService, Refused, Fault
  <2> QED
    BY <1>1, <2>1, ReturnType, AfterDeploymentType DEF TypeInv
<1>4. PICK kd \in Child : \/ SetApi(kd, held[w], obj[w].uid)
                          \/ UNCHANGED <<api, watch, lost>>
  BY DEF CreateDeployment, CreateK8sService, Refused, Fault, Child
<1>5. faults' \in 0..MaxFaults
  BY ControllerAssumption DEF CreateDeployment, CreateK8sService, Refused,
     Fault, TypeInv, ControllerTypeOK
<1>6. ClusterTypeOK'
  BY <1>1, <1>2, <1>4, CreateType DEF WorkerStep
<1>7. InformerTypeOK' /\ WorkerPhase'
  BY <1>1, <1>2, <1>3, ReconcileType
<1>8. ControllerTypeOK'
  BY <1>2, <1>3, <1>5 DEF TypeInv, ControllerTypeOK, WorkerStep
<1> QED
  BY <1>6, <1>7, <1>8

LEMMA GetFinishType ==
    ASSUME TypeInv, NEW w \in Worker, Get(w) \/ Finish(w)
    PROVE  ClusterTypeOK' /\ InformerTypeOK' /\ ControllerTypeOK' /\ WorkerPhase'
<1>1. UNCHANGED <<cluster, informers, obj, faults, restarts, history>>
  BY DEF Get, Finish
<1>2. ClusterTypeOK' /\ InformerTypeOK'
  BY <1>1
  DEF TypeInv, ClusterTypeOK, InformerTypeOK, cluster, informers, history
<1>3. CASE Get(w)
  <2>1. CASE UNCHANGED <<pc, held>>
    BY <1>1, <1>2, <2>1
    DEF TypeInv, ControllerTypeOK, WorkerPhase, At, history
  <2>2. CASE GetItem(w) /\ Goto(w, "lookup")
    <3>1. Head(queue) \in Key /\ held' = [held EXCEPT ![w] = Head(queue)]
      BY <2>2, TailItems DEF GetItem, TypeInv, QIInv, QTypeOK
    <3>2. /\ pc' \in [Worker -> Label] /\ pc'[w] = "lookup"
          /\ \A v \in Worker \ {w} : pc'[v] = pc[v]
      BY <2>2, GotoType DEF TypeInv, Label
    <3>3. /\ held'[w] = Head(queue) /\ held'[w] # NoKey
          /\ \A v \in Worker \ {w} : held'[v] = held[v]
      BY <3>1, QueueAssumption DEF TypeInv, QIInv, QTypeOK
    <3>4. WorkerPhase'
      BY <1>1, <3>2, <3>3 DEF TypeInv, WorkerPhase, At
    <3> QED
      BY <1>1, <1>2, <3>2, <3>4 DEF TypeInv, ControllerTypeOK, history
  <2> QED
    BY <1>3, <2>1, <2>2 DEF Get, GetWait, GetShutdown
<1>4. CASE Finish(w)
  <2>1. /\ held' = [held EXCEPT ![w] = NoKey]
        /\ Goto(w, "get")
    BY <1>4 DEF Finish, Done
  <2>2. /\ pc' \in [Worker -> Label] /\ pc'[w] = "get"
        /\ \A v \in Worker \ {w} : pc'[v] = pc[v]
    BY <2>1, GotoType DEF TypeInv, Label
  <2>3. held'[w] = NoKey /\ \A v \in Worker \ {w} : held'[v] = held[v]
    BY <2>1 DEF TypeInv, QIInv, QTypeOK
  <2>4. WorkerPhase'
    BY <1>1, <2>2, <2>3 DEF TypeInv, WorkerPhase, At
  <2> QED
    BY <1>1, <1>2, <2>2, <2>4 DEF TypeInv, ControllerTypeOK, history
<1> QED
  BY <1>3, <1>4

LEMMA ProcessType ==
    ASSUME TypeInv, Stop \/ Restart \/ Crash
    PROVE  ClusterTypeOK' /\ InformerTypeOK' /\ ControllerTypeOK' /\ WorkerPhase'
<1>1. restarts' \in 0..MaxRestarts
  BY ControllerAssumption
  DEF Stop, Restart, Crash, TypeInv, ControllerTypeOK
<1>2. CASE Stop
  BY <1>1, <1>2
  DEF Stop, ShutDown, TypeInv, ClusterTypeOK, InformerTypeOK, ControllerTypeOK,
      WorkerPhase, At, cluster, informers, history
<1>3. CASE NewProcess
  <2>1. ASSUME NEW kd \in Kind, NEW k \in Key
        PROVE  <<api[kd][k]>> \in Seq(State(kd))
    BY DEF TypeInv, ClusterTypeOK
  <2>2. ClusterTypeOK'
    BY <1>3, <2>1 DEF NewProcess, TypeInv, ClusterTypeOK
  <2>3. InformerTypeOK'
    BY <1>3 DEF NewProcess, InformerTypeOK, State
  <2>4. ControllerTypeOK'
    BY <1>1, <1>3 DEF NewProcess, TypeInv, ControllerTypeOK, Label
  <2>5. WorkerPhase'
    BY <1>3 DEF NewProcess, NewQueue, WorkerPhase, At
  <2> QED
    BY <2>2, <2>3, <2>4, <2>5
<1> QED
  BY <1>2, <1>3 DEF Restart, Crash

LEMMA TypeInvInit == Init => TypeInv
<1> SUFFICES ASSUME Init
             PROVE  TypeInv
  OBVIOUS
<1>1. QIInv
  BY QIInvInit DEF Init
<1>2. ClusterTypeOK
  BY EmptySeq, ControllerAssumption DEF Init, ClusterTypeOK, State
<1>3. InformerTypeOK
  BY DEF Init, InformerTypeOK, State
<1>4. ControllerTypeOK
  BY ControllerAssumption DEF Init, ControllerTypeOK, Label
<1>5. WorkerPhase
  BY DEF Init, QInit, WorkerPhase, At
<1> QED
  BY <1>1, <1>2, <1>3, <1>4, <1>5 DEF TypeInv

LEMMA TypeInvNext == TypeInv /\ [Next]_vars => TypeInv'
<1> SUFFICES ASSUME TypeInv, [Next]_vars
             PROVE  TypeInv'
  OBVIOUS
<1>1. QIInv'
  BY StepUsesQueue, QIInvNext DEF TypeInv
<1>2. CASE UNCHANGED vars
  BY <1>1, <1>2 DEF vars, qvars, cluster, informers, history, TypeInv,
     ClusterTypeOK, InformerTypeOK, ControllerTypeOK, WorkerPhase, At
<1>3. ASSUME NEW w \in Worker, Work(w)
      PROVE  TypeInv'
  BY <1>1, <1>3, LookupType, GetChildType, CreateChildType, GetFinishType
  DEF Work, TypeInv
<1>4. CASE Environment \/ Informer \/ Stop \/ Restart \/ Crash
  BY <1>1, <1>4, EnvironmentType, InformerType, ProcessType DEF TypeInv
<1> QED
  BY <1>2, <1>3, <1>4 DEF Next

\* Types, queue invariant and worker phases hold of every behaviour.
THEOREM TypeInvariant == Spec => []TypeInv
  BY TypeInvInit, TypeInvNext, PTL DEF Spec

\* The types of the controller's state, the queue's included.
THEOREM TypeCorrect == Spec => []TypeOK
<1>1. TypeInv => TypeOK
  BY DEF TypeInv, QIInv, TypeOK
<1> QED
  BY <1>1, TypeInvariant, PTL

-----------------------------------------------------------------------------
(* No version is missed.                                                     *)

\* Key k is on its way to a lookup.
OnItsWay(k) ==
    \/ k \in notified \cup dirty
    \/ \E w \in Worker : held[w] = k /\ At(w, "lookup")

\* A step keeps the invariant of key k if it leaves alone what is stored and
\* read of k, and k stays on its way.
LEMMA StaysOnItsWay ==
    ASSUME NoVersionMissed, NEW k \in Key,
           lister'["Service"][k] = lister["Service"][k],
           lastRead'[k] = lastRead[k],
           shuttingDown => shuttingDown',
           OnItsWay(k) => OnItsWay(k)' \/ shuttingDown'
    PROVE  lister'["Service"][k] \notin {None, lastRead'[k]} /\ ~shuttingDown'
              => OnItsWay(k)'
  BY DEF NoVersionMissed, OnItsWay

LEMMA WorkMissesNothing ==
    ASSUME TypeInv, NoVersionMissed, NEW w \in Worker, Work(w), NEW k \in Key
    PROVE  lister'["Service"][k] \notin {None, lastRead'[k]} /\ ~shuttingDown'
              => OnItsWay(k)'
<1>1. CASE Get(w)
  <2>1. UNCHANGED <<informers, history, shuttingDown>>
    BY <1>1 DEF Get, GetWait, GetItem, GetShutdown
  <2>2. ASSUME OnItsWay(k)
        PROVE  OnItsWay(k)'
    <3>1. CASE UNCHANGED <<dirty, held, pc>>
      BY <2>1, <2>2, <3>1 DEF OnItsWay, At, informers
    <3>2. CASE GetItem(w) /\ Goto(w, "lookup")
      <4>1. /\ dirty' = dirty \ {Head(queue)}
            /\ held'[w] = Head(queue) /\ pc'[w] = "lookup"
            /\ \A v \in Worker \ {w} : held'[v] = held[v] /\ pc'[v] = pc[v]
        BY <3>2 DEF GetItem, Goto, TypeInv, QIInv, QTypeOK, ControllerTypeOK
      <4>2. held[w] = NoKey
        BY <3>2 DEF GetItem, AtGet
      <4> QED
        BY <2>1, <2>2, <4>1, <4>2, QueueAssumption DEF OnItsWay, At, informers
    <3> QED
      BY <1>1, <3>1, <3>2 DEF Get, GetWait, GetShutdown
  <2> QED
    BY <2>1, <2>2, StaysOnItsWay DEF informers, history
<1>2. CASE Lookup(w)
  <2>1. /\ UNCHANGED <<informers, held, dirty, shuttingDown>>
        /\ lastRead' = [lastRead EXCEPT ![held[w]] = lister["Service"][held[w]]]
        /\ \A v \in Worker \ {w} : pc'[v] = pc[v]
    BY <1>2 DEF Lookup, WorkerStep, qvars, Return, Goto, TypeInv,
       ControllerTypeOK
  <2>2. CASE k = held[w]
    BY <2>1, <2>2 DEF informers, TypeInv, ControllerTypeOK
  <2>3. CASE k # held[w]
    BY <2>1, <2>3, StaysOnItsWay DEF informers, OnItsWay, At
  <2> QED
    BY <2>2, <2>3
<1>3. CASE \/ GetDeployment(w) \/ CreateDeployment(w)
           \/ GetK8sService(w) \/ CreateK8sService(w)
  <2>1. UNCHANGED <<informers, held, dirty, shuttingDown, lastRead>>
    BY <1>3 DEF GetDeployment, CreateDeployment, GetK8sService,
       CreateK8sService, WorkerStep, qvars
  <2>2. ~At(w, "lookup") /\ \A v \in Worker \ {w} : pc'[v] = pc[v]
    BY <1>3 DEF GetDeployment, CreateDeployment, GetK8sService,
       CreateK8sService, AfterDeployment, Fault, Refused, Return, Goto, At,
       TypeInv, ControllerTypeOK
  <2> QED
    BY <2>1, <2>2, StaysOnItsWay DEF informers, OnItsWay, At
<1>4. CASE Finish(w)
  <2>1. /\ UNCHANGED <<informers, history, dirty, shuttingDown>>
        /\ ~At(w, "lookup")
        /\ \A v \in Worker \ {w} : pc'[v] = pc[v] /\ held'[v] = held[v]
    BY <1>4 DEF Finish, Done, Goto, At, TypeInv, QIInv, QTypeOK,
       ControllerTypeOK
  <2> QED
    BY <2>1, StaysOnItsWay DEF informers, history, OnItsWay, At
<1> QED
  BY <1>1, <1>2, <1>3, <1>4 DEF Work

LEMMA InformerMissesNothing ==
    ASSUME TypeInv, NoVersionMissed, Informer, NEW k \in Key
    PROVE  lister'["Service"][k] \notin {None, lastRead'[k]} /\ ~shuttingDown'
              => OnItsWay(k)'
<1>1. UNCHANGED <<lastRead, held, pc, shuttingDown>>
  BY DEF Informer, List, Skip, Deliver, Resync, Enqueue, Add, qvars, history
<1>2. ASSUME NEW kd \in Kind, List(kd)
      PROVE  lister'["Service"][k] # None => OnItsWay(k)' \/ kd # "Service"
  BY <1>2 DEF List, OnItsWay
<1>3. ASSUME NEW kd \in Kind, List(kd), kd # "Service"
      PROVE  /\ lister'["Service"][k] = lister["Service"][k]
             /\ UNCHANGED <<notified, dirty>>
  BY <1>3 DEF List, TypeInv, InformerTypeOK, Kind, qvars
<1>4. ASSUME NEW kd \in Kind, NEW j \in Key, Deliver(kd, j)
      PROVE  /\ notified \subseteq notified' /\ UNCHANGED dirty
             /\ \/ lister'["Service"][k] = lister["Service"][k]
                \/ lister'["Service"][k] = None
                \/ k \in notified'
  BY <1>4 DEF Deliver, TypeInv, InformerTypeOK, Kind, qvars
<1>5. ASSUME NEW kd \in Kind, NEW j \in Key, Skip(kd, j) \/ Resync(j)
      PROVE  notified \subseteq notified' /\ UNCHANGED <<lister, dirty>>
  BY <1>5 DEF Skip, Resync, informers, qvars
<1>6. ASSUME NEW j \in Key, Enqueue(j)
      PROVE  /\ UNCHANGED lister
             /\ shuttingDown \/ notified \cup dirty = notified' \cup dirty'
  BY <1>6 DEF Enqueue, Add
<1> QED
  BY <1>1, <1>2, <1>3, <1>4, <1>5, <1>6, StaysOnItsWay
  DEF Informer, OnItsWay, At, NoVersionMissed, Kind

LEMMA NoVersionMissedNext ==
    ASSUME TypeInv, NoVersionMissed, [Next]_vars
    PROVE  NoVersionMissed'
<1> SUFFICES ASSUME NEW k \in Key
             PROVE  lister'["Service"][k] \notin {None, lastRead'[k]}
                       /\ ~shuttingDown' => OnItsWay(k)'
  BY DEF NoVersionMissed, OnItsWay
<1>1. CASE Environment
  <2>1. UNCHANGED <<qvars, informers, pc, lastRead>>
    BY <1>1 DEF Environment, CreateService, UpdateService, DeleteService,
       DeleteChild, CollectGarbage, UserStep
  <2> QED
    BY <2>1, StaysOnItsWay DEF qvars, informers, OnItsWay, At
<1>2. CASE NewProcess
  BY <1>2 DEF NewProcess, Kind
<1>3. CASE Stop
  BY <1>3 DEF Stop, ShutDown
<1>4. CASE UNCHANGED vars
  BY <1>4, StaysOnItsWay DEF vars, qvars, informers, history, OnItsWay, At
<1> QED
  BY <1>1, <1>2, <1>3, <1>4, WorkMissesNothing, InformerMissesNothing
  DEF Next, Restart, Crash

\* A version of a Service that the informer stored is never forgotten before
\* a pass has looked it up, whatever arrives while its key is processed.
THEOREM NoServiceForgotten == Spec => []NoVersionMissed
<1>1. Init => NoVersionMissed
  BY DEF Init, NoVersionMissed, Kind
<1>2. TypeInv /\ NoVersionMissed /\ [Next]_vars => NoVersionMissed'
  BY NoVersionMissedNext
<1> QED
  BY <1>1, <1>2, TypeInvariant, PTL DEF Spec

-----------------------------------------------------------------------------
(* Success means served.                                                     *)

ServedInv == SeenIsServed /\ PassState /\ SuccessMeansServed

\* A write appends the state written to what the informer will see.
LEMMA SetApiWatch ==
    ASSUME ClusterTypeOK, NEW kd \in Kind, NEW k \in Key, NEW x \in State(kd),
           SetApi(kd, k, x)
    PROVE  /\ api'[kd][k] = x
           /\ watch'[kd][k] = Append(watch[kd][k], x)
           /\ \A d \in Kind, j \in Key : d # kd \/ j # k =>
                 api'[d][j] = api[d][j] /\ watch'[d][j] = watch[d][j]
  BY DEF SetApi, ClusterTypeOK

\* A child served stays served: removing it is what "lost" records.
LEMMA ServedStays ==
    ASSUME ClusterTypeOK,
           \/ UNCHANGED <<api, lost>>
           \/ \E d \in Kind, j \in Key : \E x \in State(d) : SetApi(d, j, x),
           NEW kd \in Child, NEW k \in Key, Served(kd, k)
    PROVE  Served(kd, k)'
<1>1. CASE UNCHANGED <<api, lost>>
  BY <1>1 DEF Served
<1>2. ASSUME NEW d \in Kind, NEW j \in Key, NEW x \in State(d), SetApi(d, j, x)
      PROVE  Served(kd, k)'
  <2>1. kd \in Kind /\ kd # "Service"
    BY DEF Kind, Child
  <2>2. /\ api'[d][j] = x
        /\ d # kd \/ j # k => api'[kd][k] = api[kd][k]
    BY <1>2, <2>1, SetApiWatch
  <2>3. lost' = IF d = "Service" THEN lost
               ELSE IF x = None THEN lost \cup {<<d, j>>}
               ELSE lost \ {<<d, j>>}
    BY <1>2 DEF SetApi
  <2>4. CASE d = kd /\ j = k
    BY <2>1, <2>2, <2>3, <2>4 DEF Served
  <2>5. CASE d # kd \/ j # k
    BY <2>1, <2>2, <2>3, <2>5 DEF Served
  <2> QED
    BY <2>4, <2>5
<1> QED
  BY <1>1, <1>2

\* A write keeps SeenIsServed: what it adds to the watch is what is there.
LEMMA WriteSeenIsServed ==
    ASSUME ClusterTypeOK, SeenIsServed, UNCHANGED lister,
           NEW d \in Kind, NEW j \in Key, NEW x \in State(d), SetApi(d, j, x)
    PROVE  SeenIsServed'
<1> SUFFICES ASSUME NEW kd \in Child, NEW k \in Key,
                    \/ lister'[kd][k] # None
                    \/ \E i \in DOMAIN watch'[kd][k] : watch'[kd][k][i] # None
             PROVE  Served(kd, k)'
  BY DEF SeenIsServed
<1>1. kd \in Kind
  BY DEF Kind
<1>2. CASE Served(kd, k)
  BY <1>2, ServedStays
<1>3. CASE ~Served(kd, k)
  <2>1. /\ lister'[kd][k] = None
        /\ \A i \in DOMAIN watch[kd][k] : watch[kd][k][i] = None
    BY <1>3 DEF SeenIsServed
  <2>2. d = kd /\ j = k
    BY <1>1, <2>1, SetApiWatch
  <2>3. watch[kd][k] \in Seq(State(kd)) /\ watch'[kd][k] = Append(watch[kd][k], x)
    BY <1>1, <2>2, SetApiWatch DEF ClusterTypeOK
  <2>4. x # None
    <3> DEFINE q == watch[kd][k]
    <3>1. /\ Len(q) \in Nat /\ DOMAIN q = 1..Len(q)
          /\ DOMAIN Append(q, x) = 1..(Len(q) + 1)
          /\ Append(q, x)[Len(q) + 1] = x
          /\ \A i \in 1..Len(q) : Append(q, x)[i] = q[i]
      BY <2>2, <2>3, AppendProperties, LenProperties
    <3> HIDE DEF q
    <3>2. PICK i \in 1..(Len(q) + 1) : Append(q, x)[i] # None
      BY <2>1, <2>3, <3>1 DEF q
    <3>3. i \in 1..Len(q) => q[i] = None
      BY <2>1, <3>1 DEF q
    <3> QED
      BY <3>1, <3>2, <3>3
  <2> QED
    BY <1>1, <2>2, <2>4, SetApiWatch DEF Served
<1> QED
  BY <1>2, <1>3

\* Whatever the environment does is one write.
LEMMA EnvironmentWrites ==
    ASSUME TypeInv, Environment
    PROVE  \E d \in Kind, j \in Key : \E x \in State(d) : SetApi(d, j, x)
<1>1. ASSUME NEW k \in Key, NEW shape \in Shapes,
             CreateService(k, shape) \/ UpdateService(k, shape)
      PROVE  \E x \in Object : SetApi("Service", k, x)
  <2>1. version[k] + 1 \in Version /\ shape \in Shape
    BY <1>1, ControllerAssumption
    DEF CreateService, UpdateService, TypeInv, ClusterTypeOK, Version
  <2>2. CASE CreateService(k, shape)
    BY <2>1, <2>2 DEF CreateService, Object
  <2>3. CASE UpdateService(k, shape)
    <3>1. api["Service"][k] \in Object
      BY <2>3 DEF UpdateService, TypeInv, ClusterTypeOK, Kind, State
    <3> QED
      BY <2>1, <2>3, <3>1 DEF UpdateService, Object
  <2> QED
    BY <1>1, <2>2, <2>3
<1>2. ASSUME NEW k \in Key, DeleteService(k)
      PROVE  SetApi("Service", k, None)
  BY <1>2 DEF DeleteService
<1>3. ASSUME NEW k \in Key, NEW kd \in Child,
             DeleteChild(kd, k) \/ CollectGarbage(kd, k)
      PROVE  SetApi(kd, k, None)
  BY <1>3 DEF DeleteChild, CollectGarbage
<1> QED
  BY <1>1, <1>2, <1>3 DEF Environment, Kind, State

LEMMA EnvironmentServes ==
    ASSUME TypeInv, ServedInv, Environment
    PROVE  ServedInv'
<1>1. UNCHANGED <<lister, held, pc, obj, lastRead, outcome>>
  BY DEF Environment, CreateService, UpdateService, DeleteService,
     DeleteChild, CollectGarbage, UserStep, informers, qvars
<1>2. PICK d \in Kind, j \in Key : \E x \in State(d) : SetApi(d, j, x)
  BY EnvironmentWrites
<1>3. SeenIsServed'
  BY <1>1, <1>2, WriteSeenIsServed DEF TypeInv, ServedInv
<1>4. \A kd \in Child, k \in Key : Served(kd, k) => Served(kd, k)'
  BY <1>2, ServedStays DEF TypeInv
<1>5. \A w \in Worker : pc[w] # "get" => held[w] \in Key
  BY DEF TypeInv, WorkerPhase, At, QIInv, QTypeOK
<1>6. PassState'
  BY <1>1, <1>4, <1>5 DEF ServedInv, PassState, Child
<1>7. SuccessMeansServed'
  BY <1>1, <1>4 DEF ServedInv, SuccessMeansServed, Wanted, Child
<1> QED
  BY <1>3, <1>6, <1>7 DEF ServedInv

LEMMA InformerServes ==
    ASSUME TypeInv, ServedInv, Informer
    PROVE  ServedInv'
<1>1. UNCHANGED <<api, held, pc, obj, lastRead, outcome, lost>>
  BY DEF Informer, List, Skip, Deliver, Resync, Enqueue, Add, qvars, cluster,
     history
<1>2. PassState' /\ SuccessMeansServed'
  BY <1>1 DEF ServedInv, PassState, SuccessMeansServed, Served
<1>3. ASSUME NEW kd \in Child, NEW k \in Key, ~Served(kd, k)
      PROVE  /\ lister'[kd][k] = None
             /\ \A i \in DOMAIN watch'[kd][k] : watch'[kd][k][i] = None
  <2>1. /\ lister[kd][k] = None /\ kd \in Kind /\ kd # "Service"
        /\ \A i \in DOMAIN watch[kd][k] : watch[kd][k][i] = None
    BY <1>3 DEF ServedInv, SeenIsServed, Kind, Child
  <2>2. watch[kd][k] # <<>> =>
           /\ Head(watch[kd][k]) = None
           /\ \A i \in DOMAIN Tail(watch[kd][k]) : Tail(watch[kd][k])[i] = None
    <3> DEFINE q == watch[kd][k]
    <3> SUFFICES ASSUME q # <<>>
                 PROVE  /\ Head(q) = None
                        /\ \A i \in DOMAIN Tail(q) : Tail(q)[i] = None
      OBVIOUS
    <3>1. q \in Seq(State(kd)) /\ \A i \in DOMAIN q : q[i] = None
      BY <2>1 DEF TypeInv, ClusterTypeOK
    <3> HIDE DEF q
    <3>2. /\ Len(q) \in Nat \ {0} /\ DOMAIN q = 1..Len(q) /\ Head(q) = q[1]
          /\ DOMAIN Tail(q) = 1..(Len(q) - 1)
          /\ \A i \in 1..(Len(q) - 1) : Tail(q)[i] = q[i + 1]
      BY <3>1, HeadTailProperties, LenProperties, EmptySeq
    <3> QED
      BY <3>1, <3>2
  <2>3. watch'[kd][k] = watch[kd][k] \/ /\ watch[kd][k] # <<>>
                                        /\ watch'[kd][k] = Tail(watch[kd][k])
    <3>1. ASSUME NEW d \in Kind, List(d)
          PROVE  watch'[kd][k] = IF d # kd \/ watch[kd][k] = <<>>
                                 THEN watch[kd][k] ELSE Tail(watch[kd][k])
      BY <2>1, <3>1 DEF List, TypeInv, ClusterTypeOK
    <3>2. ASSUME NEW d \in Kind, NEW j \in Key, Skip(d, j) \/ Deliver(d, j)
          PROVE  /\ watch[d][j] # <<>>
                 /\ watch'[kd][k] = IF d = kd /\ j = k THEN Tail(watch[kd][k])
                                    ELSE watch[kd][k]
      <4>1. watch[d][j] # <<>>
        BY <3>2, EmptySeq DEF Skip, Deliver
      <4>2. watch' = [watch EXCEPT ![d][j] = Tail(watch[d][j])]
        BY <3>2 DEF Skip, Deliver
      <4>3. DOMAIN watch = Kind /\ DOMAIN watch[d] = Key
        BY DEF TypeInv, ClusterTypeOK
      <4> QED
        BY <2>1, <4>1, <4>2, <4>3
    <3>3. ASSUME NEW j \in Key, Resync(j) \/ Enqueue(j)
          PROVE  UNCHANGED watch
      BY <3>3 DEF Resync, Enqueue, cluster
    <3> QED
      BY <3>1, <3>2, <3>3 DEF Informer
  <2>4. \/ lister'[kd][k] = lister[kd][k]
        \/ lister'[kd][k] = None
        \/ watch[kd][k] # <<>> /\ lister'[kd][k] = Head(watch[kd][k])
    BY <2>1 DEF Informer, List, Skip, Deliver, Resync, Enqueue, informers,
       TypeInv, InformerTypeOK
  <2> QED
    BY <2>1, <2>2, <2>3, <2>4
<1>4. SeenIsServed'
  BY <1>1, <1>3 DEF SeenIsServed, Served
<1> QED
  BY <1>2, <1>4 DEF ServedInv

\* In a pass, no other worker works on the same Service.
LEMMA PassIsAlone ==
    ASSUME TypeInv, NEW w \in Worker, ~At(w, "get"),
           NEW v \in Worker \ {w}, ~At(v, "get")
    PROVE  held[v] # held[w]
  BY DEF TypeInv, WorkerPhase, QIInv, Stingy

\* What a step of a pass does to the history of other keys and workers.
LEMMA PassServes ==
    ASSUME TypeInv, ServedInv, NEW w \in Worker, ~At(w, "get"), WorkerStep,
           \A v \in Worker \ {w} : pc'[v] = pc[v] /\ obj'[v] = obj[v],
           \A k \in Key \ {held[w]} :
              outcome'[k] = outcome[k] /\ lastRead'[k] = lastRead[k],
           \A kd \in Child, k \in Key : Served(kd, k) => Served(kd, k)',
           pc'[w] # "done" =>
              /\ obj'[w] = lastRead'[held[w]] /\ outcome'[held[w]] = "none"
              /\ pc'[w] \in {"getK8sService", "createK8sService"} =>
                    Exposed(obj'[w]) /\ Served("Deployment", held[w])',
           outcome'[held[w]] = "ok" /\ lastRead'[held[w]] # None =>
              \A kd \in Wanted(lastRead'[held[w]]) : Served(kd, held[w])'
    PROVE  PassState' /\ SuccessMeansServed'
<1>1. UNCHANGED held /\ held[w] \in Key
  BY WorkerHolds DEF WorkerStep, qvars
<1>2. ASSUME NEW v \in Worker \ {w}, pc'[v] \notin {"get", "lookup", "done"}
      PROVE  /\ obj'[v] = lastRead'[held'[v]] /\ outcome'[held'[v]] = "none"
             /\ pc'[v] \in {"getK8sService", "createK8sService"} =>
                   Exposed(obj'[v]) /\ Served("Deployment", held[v])'
  <2>1. held[v] \in Key \ {held[w]} /\ ~At(v, "get")
    BY <1>2, PassIsAlone, WorkerHolds DEF At
  <2>2. pc[v] \notin {"get", "lookup", "done"}
    BY <1>2
  <2>3. /\ obj[v] = lastRead[held[v]] /\ outcome[held[v]] = "none"
        /\ pc[v] \in {"getK8sService", "createK8sService"} =>
              Exposed(obj[v]) /\ Served("Deployment", held[v])
    BY <2>2 DEF ServedInv, PassState
  <2> QED
    BY <1>1, <2>1, <2>3 DEF Child, Served, Exposed
<1>3. PassState'
  <2>1. pc'[w] \notin {"get", "lookup", "done"} =>
           /\ obj'[w] = lastRead'[held'[w]] /\ outcome'[held'[w]] = "none"
           /\ pc'[w] \in {"getK8sService", "createK8sService"} =>
                 Exposed(obj'[w]) /\ Served("Deployment", held[w])'
    BY <1>1 DEF Served, Exposed
  <2> QED
    BY <1>1, <1>2, <2>1 DEF PassState, Served, Exposed
<1>4. SuccessMeansServed'
  <2> SUFFICES ASSUME NEW k \in Key, outcome'[k] = "ok", lastRead'[k] # None,
                      NEW kd \in Wanted(lastRead'[k])
               PROVE  Served(kd, k)'
    BY DEF SuccessMeansServed, Wanted, Exposed
  <2>1. kd \in Child
    BY DEF Wanted, Child
  <2>2. CASE k = held[w]
    BY <1>1, <2>2 DEF Served, Wanted, Exposed
  <2>3. CASE k # held[w]
    BY <2>1, <2>3 DEF ServedInv, SuccessMeansServed, Served, Wanted, Exposed
  <2> QED
    BY <2>2, <2>3
<1> QED
  BY <1>3, <1>4

\* Within a pass: the state PassServes asks for, spelled out once.
LEMMA InPass ==
    ASSUME TypeInv, ServedInv, NEW w \in Worker,
           pc[w] \notin {"get", "lookup", "done"}
    PROVE  /\ ~At(w, "get") /\ held[w] \in Key
           /\ obj[w] = lastRead[held[w]] /\ outcome[held[w]] = "none"
           /\ obj[w] \in Object /\ obj[w].uid \in Version
           /\ pc[w] \in {"getK8sService", "createK8sService"} =>
                 Exposed(obj[w]) /\ Served("Deployment", held[w])
  BY WorkerHolds DEF ServedInv, PassState, At

LEMMA ReturnEffect ==
    ASSUME TypeInv, NEW w \in Worker, held[w] \in Key, NEW r, Return(w, r)
    PROVE  /\ pc'[w] = "done" /\ \A v \in Worker \ {w} : pc'[v] = pc[v]
           /\ outcome'[held[w]] = r
           /\ \A k \in Key \ {held[w]} : outcome'[k] = outcome[k]
  BY DEF TypeInv, ControllerTypeOK, Return, Goto

LEMMA GotoEffect ==
    ASSUME TypeInv, NEW w \in Worker, NEW l, Goto(w, l)
    PROVE  pc'[w] = l /\ \A v \in Worker \ {w} : pc'[v] = pc[v]
  BY DEF TypeInv, ControllerTypeOK, Goto

LEMMA AfterDeploymentServes ==
    ASSUME TypeInv, ServedInv, NEW w \in Worker,
           pc[w] \notin {"get", "lookup", "done"},
           AfterDeployment(w), WorkerStep, UNCHANGED <<obj, lastRead>>,
           Served("Deployment", held[w])',
           \A kd \in Child, k \in Key : Served(kd, k) => Served(kd, k)'
    PROVE  PassState' /\ SuccessMeansServed'
<1>1. /\ ~At(w, "get") /\ held[w] \in Key
      /\ obj[w] = lastRead[held[w]] /\ outcome[held[w]] = "none"
  BY InPass
<1>2. CASE Exposed(obj[w]) /\ Goto(w, "getK8sService") /\ UNCHANGED outcome
  <2>1. pc'[w] = "getK8sService" /\ \A v \in Worker \ {w} : pc'[v] = pc[v]
    BY <1>2, GotoEffect
  <2> QED
    BY <1>1, <1>2, <2>1, PassServes DEF Exposed
<1>3. CASE ~Exposed(obj[w]) /\ Return(w, "ok")
  <2>1. /\ pc'[w] = "done" /\ \A v \in Worker \ {w} : pc'[v] = pc[v]
        /\ \A k \in Key \ {held[w]} : outcome'[k] = outcome[k]
    BY <1>1, <1>3, ReturnEffect
  <2>2. \A kd \in Wanted(lastRead'[held[w]]) : kd = "Deployment"
    BY <1>1, <1>3 DEF Wanted, Exposed
  <2> QED
    BY <1>1, <1>3, <2>1, <2>2, PassServes
<1> QED
  BY <1>2, <1>3 DEF AfterDeployment

LEMMA LookupServes ==
    ASSUME TypeInv, ServedInv, NEW w \in Worker, Lookup(w)
    PROVE  ServedInv'
<1> DEFINE s == lister["Service"][held[w]]
<1>1. ~At(w, "get") /\ held[w] \in Key
  BY WorkerHolds DEF Lookup, At
<1>2. /\ obj' = [obj EXCEPT ![w] = s]
      /\ lastRead' = [lastRead EXCEPT ![held[w]] = s]
      /\ \/ s = None /\ Return(w, "ok")
         \/ /\ s # None
            /\ Goto(w, "getDeployment")
            /\ outcome' = [outcome EXCEPT ![held[w]] = "none"]
      /\ WorkerStep /\ UNCHANGED <<api, watch, faults, lost>>
  BY DEF Lookup
<1> HIDE DEF s
<1>3. /\ obj'[w] = s /\ \A v \in Worker \ {w} : obj'[v] = obj[v]
      /\ lastRead'[held[w]] = s
      /\ \A k \in Key \ {held[w]} : lastRead'[k] = lastRead[k]
  BY <1>1, <1>2 DEF TypeInv, ControllerTypeOK
<1>4. /\ \/ pc'[w] = "done" /\ s = None
         \/ pc'[w] = "getDeployment" /\ outcome'[held[w]] = "none"
      /\ \A v \in Worker \ {w} : pc'[v] = pc[v]
      /\ \A k \in Key \ {held[w]} : outcome'[k] = outcome[k]
  BY <1>1, <1>2, ReturnEffect, GotoEffect DEF TypeInv, ControllerTypeOK
<1>5. \A kd \in Child, k \in Key : Served(kd, k) => Served(kd, k)'
  BY <1>2 DEF Served
<1>6. PassState' /\ SuccessMeansServed'
  BY <1>1, <1>2, <1>3, <1>4, <1>5, PassServes
<1>7. SeenIsServed'
  BY <1>2 DEF ServedInv, SeenIsServed, Served, WorkerStep, informers
<1> QED
  BY <1>6, <1>7 DEF ServedInv

LEMMA GetChildServes ==
    ASSUME TypeInv, ServedInv, NEW w \in Worker,
           GetDeployment(w) \/ GetK8sService(w)
    PROVE  ServedInv'
<1>1. /\ WorkerStep /\ UNCHANGED <<api, watch, obj, faults, lastRead, lost>>
      /\ pc[w] \notin {"get", "lookup", "done"}
  BY DEF GetDeployment, GetK8sService, At
<1>2. /\ ~At(w, "get") /\ held[w] \in Key
      /\ obj[w] = lastRead[held[w]] /\ outcome[held[w]] = "none"
      /\ pc[w] \in {"getK8sService", "createK8sService"} =>
            Exposed(obj[w]) /\ Served("Deployment", held[w])
  BY <1>1, InPass
<1>3. SeenIsServed'
  BY <1>1 DEF ServedInv, SeenIsServed, Served, WorkerStep, informers
<1>4. \A kd \in Child, k \in Key :
         /\ Served(kd, k) => Served(kd, k)'
         /\ lister[kd][k] # None => Served(kd, k)'
  BY <1>1 DEF Served, ServedInv, SeenIsServed
<1>5. CASE AfterDeployment(w) /\ lister["Deployment"][held[w]] # None
  <2>1. Served("Deployment", held[w])'
    BY <1>1, <1>2, <1>5 DEF Child, Served, ServedInv, SeenIsServed, WorkerStep,
       qvars
  <2> QED
    BY <1>1, <1>3, <1>4, <1>5, <2>1, AfterDeploymentServes DEF ServedInv
<1>6. CASE Goto(w, "createDeployment") /\ UNCHANGED outcome
  <2>1. pc'[w] = "createDeployment" /\ \A v \in Worker \ {w} : pc'[v] = pc[v]
    BY <1>6, GotoEffect
  <2>2. PassState' /\ SuccessMeansServed'
    BY <1>1, <1>2, <1>4, <1>6, <2>1, PassServes
  <2> QED
    BY <1>3, <2>2 DEF ServedInv
<1>7. CASE /\ At(w, "getK8sService")
           /\ Goto(w, "createK8sService") /\ UNCHANGED outcome
  <2>1. /\ pc'[w] = "createK8sService"
        /\ \A v \in Worker \ {w} : pc'[v] = pc[v]
    BY <1>7, GotoEffect
  <2>2. UNCHANGED <<held, api, lost>>
    BY <1>1 DEF WorkerStep, qvars
  <2>3. Exposed(obj'[w]) /\ Served("Deployment", held[w])'
    BY <1>1, <1>2, <1>7, <2>2 DEF At, Served
  <2>4. PassState' /\ SuccessMeansServed'
    BY <1>1, <1>2, <1>4, <1>7, <2>1, <2>3, PassServes
  <2> QED
    BY <1>3, <2>4 DEF ServedInv
<1>8. CASE /\ At(w, "getK8sService") /\ lister["K8sService"][held[w]] # None
           /\ Return(w, "ok")
  <2>1. /\ pc'[w] = "done" /\ \A v \in Worker \ {w} : pc'[v] = pc[v]
        /\ \A k \in Key \ {held[w]} : outcome'[k] = outcome[k]
    BY <1>2, <1>8, ReturnEffect
  <2>2. ASSUME NEW kd \in Child
        PROVE  Served(kd, held[w])'
    BY <1>1, <1>2, <1>8 DEF At, Child, Served, ServedInv, SeenIsServed,
       WorkerStep, qvars
  <2>3. \A kd \in Wanted(lastRead'[held[w]]) : kd \in Child
    BY DEF Wanted, Child
  <2>4. PassState' /\ SuccessMeansServed'
    BY <1>1, <1>2, <1>4, <2>1, <2>2, <2>3, PassServes
  <2> QED
    BY <1>3, <2>4 DEF ServedInv
<1> QED
  BY <1>5, <1>6, <1>7, <1>8 DEF GetDeployment, GetK8sService

LEMMA CreateChildServes ==
    ASSUME TypeInv, ServedInv, NEW w \in Worker,
           CreateDeployment(w) \/ CreateK8sService(w)
    PROVE  ServedInv'
<1>1. /\ WorkerStep /\ UNCHANGED <<obj, lastRead, held, lister>>
      /\ pc[w] \notin {"get", "lookup", "done"}
  BY DEF CreateDeployment, CreateK8sService, At, WorkerStep, qvars, informers
<1>2. /\ ~At(w, "get") /\ held[w] \in Key
      /\ obj[w] = lastRead[held[w]] /\ obj[w].uid \in Version
      /\ pc[w] \in {"getK8sService", "createK8sService"} =>
            Exposed(obj[w]) /\ Served("Deployment", held[w])
  BY <1>1, InPass
<1>3. \/ UNCHANGED <<api, watch, lost>>
      \/ \E d \in Child : SetApi(d, held[w], obj[w].uid)
  BY DEF CreateDeployment, CreateK8sService, Refused, Fault, Child
<1>4. \/ UNCHANGED <<api, watch, lost>>
      \/ \E d \in Kind, j \in Key : \E x \in State(d) : SetApi(d, j, x)
  BY <1>2, <1>3 DEF Child, Kind, State
<1>5. SeenIsServed'
  <2>1. CASE UNCHANGED <<api, watch, lost>>
    BY <1>1, <2>1 DEF ServedInv, SeenIsServed, Served
  <2> QED
    BY <1>1, <1>4, <2>1, WriteSeenIsServed DEF TypeInv, ServedInv
<1>6. \A kd \in Child, k \in Key : Served(kd, k) => Served(kd, k)'
  BY <1>4, ServedStays DEF TypeInv
<1>7. ASSUME NEW d \in Child, SetApi(d, held[w], obj[w].uid)
      PROVE  Served(d, held[w])'
  <2>1. obj[w].uid \in State(d) /\ obj[w].uid # None /\ d \in Kind
    BY <1>2, ControllerAssumption DEF State, Child, Kind
  <2>2. api'[d][held[w]] = obj[w].uid
    BY <1>2, <1>7, <2>1, SetApiWatch DEF TypeInv
  <2> QED
    BY <1>1, <2>1, <2>2 DEF Served
<1>8. CASE Return(w, "error")
  <2>1. /\ pc'[w] = "done" /\ \A v \in Worker \ {w} : pc'[v] = pc[v]
        /\ outcome'[held[w]] = "error"
        /\ \A k \in Key \ {held[w]} : outcome'[k] = outcome[k]
    BY <1>2, <1>8, ReturnEffect
  <2>2. PassState' /\ SuccessMeansServed'
    BY <1>1, <1>2, <1>6, <2>1, PassServes
  <2> QED
    BY <1>5, <2>2 DEF ServedInv
<1>9. CASE /\ SetApi("Deployment", held[w], obj[w].uid)
           /\ AfterDeployment(w)
  <2>1. Served("Deployment", held[w])'
    BY <1>7, <1>9 DEF Child
  <2> QED
    BY <1>1, <1>5, <1>6, <1>9, <2>1, AfterDeploymentServes DEF ServedInv
<1>10. CASE /\ At(w, "createK8sService")
            /\ SetApi("K8sService", held[w], obj[w].uid)
            /\ Return(w, "ok")
  <2>1. /\ pc'[w] = "done" /\ \A v \in Worker \ {w} : pc'[v] = pc[v]
        /\ \A k \in Key \ {held[w]} : outcome'[k] = outcome[k]
    BY <1>2, <1>10, ReturnEffect
  <2>2. Served("Deployment", held[w])' /\ Served("K8sService", held[w])'
    BY <1>1, <1>2, <1>6, <1>7, <1>10 DEF At, Child, Served
  <2>3. \A kd \in Wanted(lastRead'[held[w]]) : Served(kd, held[w])'
    BY <2>2 DEF Wanted, Child
  <2>4. PassState' /\ SuccessMeansServed'
    BY <1>1, <1>2, <1>6, <2>1, <2>3, PassServes
  <2> QED
    BY <1>5, <2>4 DEF ServedInv
<1> QED
  BY <1>8, <1>9, <1>10 DEF CreateDeployment, CreateK8sService, Refused, Fault

LEMMA GetFinishServes ==
    ASSUME TypeInv, ServedInv, NEW w \in Worker, Get(w) \/ Finish(w)
    PROVE  ServedInv'
<1>1. /\ UNCHANGED <<api, watch, lister, obj, lastRead, outcome, lost>>
      /\ pc'[w] \in {pc[w], "get", "lookup"} /\ (At(w, "get") \/ At(w, "done"))
      /\ \A v \in Worker \ {w} : pc'[v] = pc[v] /\ held'[v] = held[v]
  BY DEF Get, GetWait, GetShutdown, GetItem, Finish, Done, Goto, At, AtGet,
     cluster, informers, history, TypeInv, ControllerTypeOK, WorkerPhase, QIInv,
     QTypeOK
<1> QED
  BY <1>1 DEF ServedInv, SeenIsServed, PassState, SuccessMeansServed, Served, At

LEMMA ProcessServes ==
    ASSUME TypeInv, ServedInv, Stop \/ Restart \/ Crash \/ UNCHANGED vars
    PROVE  ServedInv'
<1>1. CASE Stop \/ UNCHANGED vars
  BY <1>1 DEF Stop, ShutDown, vars, qvars, cluster, informers, history,
     ServedInv, SeenIsServed, PassState, SuccessMeansServed, Served
<1>2. CASE NewProcess
  <2>1. PassState' /\ SuccessMeansServed'
    BY <1>2 DEF NewProcess, PassState, SuccessMeansServed
  <2>2. ASSUME NEW kd \in Child, NEW k \in Key, ~Served(kd, k)
        PROVE  /\ lister'[kd][k] = None
               /\ \A i \in DOMAIN watch'[kd][k] : watch'[kd][k][i] = None
    BY <1>2, <2>2 DEF NewProcess, ServedInv, SeenIsServed, Served, Kind
  <2>3. UNCHANGED <<api, lost>>
    BY <1>2 DEF NewProcess
  <2> QED
    BY <2>1, <2>2, <2>3 DEF ServedInv, SeenIsServed, Served
<1> QED
  BY <1>1, <1>2 DEF Restart, Crash

LEMMA ServedInvNext ==
    ASSUME TypeInv, ServedInv, [Next]_vars
    PROVE  ServedInv'
  BY EnvironmentServes, InformerServes, LookupServes, GetChildServes,
     CreateChildServes, GetFinishServes, ProcessServes DEF Next, Work

\* A pass that reports success leaves no wanted child out: each one has been
\* created, whatever failed, crashed or lagged before.
THEOREM SuccessIsServed == Spec => []SuccessMeansServed
<1>1. Init => ServedInv
  BY EmptySeq DEF Init, ServedInv, SeenIsServed, PassState,
     SuccessMeansServed, Kind
<1>2. TypeInv /\ ServedInv /\ [Next]_vars => ServedInv'
  BY ServedInvNext
<1>3. ServedInv => SuccessMeansServed
  BY DEF ServedInv
<1> QED
  BY <1>1, <1>2, <1>3, TypeInvariant, PTL DEF Spec

-----------------------------------------------------------------------------
(* Where the controller rests.                                               *)

\* A sequence is empty exactly when its length is 0.
LEMMA EmptyIsLenZero ==
    ASSUME NEW S, NEW q \in Seq(S)
    PROVE  q = <<>> <=> Len(q) = 0
  BY EmptySeq

\* Appending leaves the state appended at the end; taking the head of a
\* longer sequence leaves the end alone.
LEMMA LastOfAppend ==
    ASSUME NEW S, NEW q \in Seq(S), NEW x \in S
    PROVE  Append(q, x) # <<>> /\ Append(q, x)[Len(Append(q, x))] = x
  BY AppendItems, AppendProperties

LEMMA LastOfTail ==
    ASSUME NEW S, NEW q \in Seq(S), q # <<>>
    PROVE  IF Tail(q) = <<>> THEN Head(q) = q[Len(q)]
           ELSE Tail(q)[Len(Tail(q))] = q[Len(q)]
<1>1. /\ Len(q) \in Nat \ {0} /\ Head(q) = q[1]
      /\ Tail(q) \in Seq(S) /\ Len(Tail(q)) = Len(q) - 1
      /\ \A i \in 1..(Len(q) - 1) : Tail(q)[i] = q[i + 1]
      /\ Tail(q) = <<>> <=> Len(Tail(q)) = 0
  <2>1. /\ Len(q) \in Nat /\ Len(q) # 0
        /\ Tail(q) \in Seq(S) /\ Len(Tail(q)) = Len(q) - 1
        /\ \A i \in 1..Len(Tail(q)) : Tail(q)[i] = q[i + 1]
    BY HeadTailProperties, LenProperties, EmptyIsLenZero
  <2> QED
    BY <2>1, EmptyIsLenZero
<1> QED
  BY <1>1

\* A sequence of two items or more has a head and a tail that is not empty.
LEMMA LongTail ==
    ASSUME NEW S, NEW q \in Seq(S), Len(q) > 1
    PROVE  q # <<>> /\ Tail(q) # <<>>
<1>1. Len(q) \in Nat /\ Len(q) # 0
  BY LenProperties
<1>2. q # <<>>
  BY <1>1, EmptyIsLenZero
<1>3. Tail(q) \in Seq(S) /\ Len(Tail(q)) = Len(q) - 1
  BY <1>2, HeadTailProperties
<1>4. Len(Tail(q)) # 0
  BY <1>1, <1>3
<1> QED
  BY <1>2, <1>3, <1>4, EmptyIsLenZero

\* The condition of WatchEndsAtApi for one kind and key.
EndsAtApi(kd, k) ==
    IF watch[kd][k] = <<>>
    THEN api[kd][k] = IF kd \in synced THEN lister[kd][k] ELSE None
    ELSE api[kd][k] = watch[kd][k][Len(watch[kd][k])]

LEMMA WriteEndsAtApi ==
    ASSUME ClusterTypeOK, WatchEndsAtApi, UNCHANGED <<lister, synced>>,
           NEW d \in Kind, NEW j \in Key, NEW x \in State(d), SetApi(d, j, x)
    PROVE  WatchEndsAtApi'
<1> SUFFICES ASSUME NEW kd \in Kind, NEW k \in Key
             PROVE  EndsAtApi(kd, k)'
  BY DEF WatchEndsAtApi, EndsAtApi
<1>1. CASE kd = d /\ k = j
  <2>1. watch[d][j] \in Seq(State(d))
    BY DEF ClusterTypeOK
  <2> QED
    BY <1>1, <2>1, SetApiWatch, LastOfAppend DEF EndsAtApi
<1>2. CASE kd # d \/ k # j
  BY <1>2, SetApiWatch DEF WatchEndsAtApi, EndsAtApi
<1> QED
  BY <1>1, <1>2

LEMMA InformerEndsAtApi ==
    ASSUME TypeInv, WatchEndsAtApi, Informer
    PROVE  WatchEndsAtApi'
<1> SUFFICES ASSUME NEW kd \in Kind, NEW k \in Key
             PROVE  EndsAtApi(kd, k)'
  BY DEF WatchEndsAtApi, EndsAtApi
<1>1. UNCHANGED api /\ EndsAtApi(kd, k)
  BY DEF Informer, List, Skip, Deliver, Resync, Enqueue, cluster,
     WatchEndsAtApi, EndsAtApi
<1>2. watch[kd][k] # <<>> =>
         IF Tail(watch[kd][k]) = <<>>
         THEN api[kd][k] = Head(watch[kd][k])
         ELSE api[kd][k] = Tail(watch[kd][k])[Len(Tail(watch[kd][k]))]
  <2>1. watch[kd][k] \in Seq(State(kd))
    BY DEF TypeInv, ClusterTypeOK
  <2> QED
    BY <1>1, <2>1, LastOfTail DEF EndsAtApi
<1>3. ASSUME NEW d \in Kind, List(d)
      PROVE  EndsAtApi(kd, k)'
  <2>1. CASE d = kd
    <3>1. /\ kd \in synced' /\ kd \notin synced
          /\ watch'[kd][k] = IF watch[kd][k] = <<>> THEN <<>>
                             ELSE Tail(watch[kd][k])
          /\ lister'[kd][k] = IF watch[kd][k] = <<>> THEN None
                              ELSE Head(watch[kd][k])
      BY <1>3, <2>1 DEF List, TypeInv, ClusterTypeOK, InformerTypeOK
    <3> QED
      BY <1>1, <1>2, <3>1 DEF EndsAtApi
  <2>2. CASE d # kd
    <3>1. /\ kd \in synced' <=> kd \in synced
          /\ watch'[kd][k] = watch[kd][k] /\ lister'[kd][k] = lister[kd][k]
      BY <1>3, <2>2 DEF List, TypeInv, ClusterTypeOK, InformerTypeOK
    <3> QED
      BY <1>1, <3>1 DEF EndsAtApi
  <2> QED
    BY <2>1, <2>2
<1>4. ASSUME NEW d \in Kind, NEW j \in Key, Skip(d, j)
      PROVE  EndsAtApi(kd, k)'
  <2>1. UNCHANGED <<lister, synced>>
        /\ watch' = [watch EXCEPT ![d][j] = Tail(watch[d][j])]
    BY <1>4 DEF Skip, informers
  <2>2. DOMAIN watch = Kind /\ DOMAIN watch[d] = Key
    BY DEF TypeInv, ClusterTypeOK
  <2>3. CASE d = kd /\ j = k
    <3>1. watch[kd][k] \in Seq(State(kd)) /\ Len(watch[kd][k]) > 1
      BY <1>4, <2>3 DEF Skip, TypeInv, ClusterTypeOK
    <3>2. watch[kd][k] # <<>> /\ Tail(watch[kd][k]) # <<>>
      BY <3>1, LongTail
    <3> QED
      BY <1>1, <1>2, <2>1, <2>2, <2>3, <3>2 DEF EndsAtApi
  <2>4. CASE d # kd \/ j # k
    BY <1>1, <2>1, <2>2, <2>4 DEF EndsAtApi
  <2> QED
    BY <2>3, <2>4
<1>5. ASSUME NEW d \in Kind, NEW j \in Key, Deliver(d, j)
      PROVE  EndsAtApi(kd, k)'
  <2>1. /\ d \in synced /\ watch[d][j] # <<>> /\ UNCHANGED synced
        /\ watch' = [watch EXCEPT ![d][j] = Tail(watch[d][j])]
        /\ lister' = [lister EXCEPT ![d][j] = Head(watch[d][j])]
    BY <1>5 DEF Deliver
  <2>2. /\ DOMAIN watch = Kind /\ DOMAIN watch[d] = Key
        /\ DOMAIN lister = Kind /\ DOMAIN lister[d] = Key
    BY DEF TypeInv, ClusterTypeOK, InformerTypeOK
  <2>3. CASE d = kd /\ j = k
    BY <1>1, <1>2, <2>1, <2>2, <2>3 DEF EndsAtApi
  <2>4. CASE d # kd \/ j # k
    BY <1>1, <2>1, <2>2, <2>4 DEF EndsAtApi
  <2> QED
    BY <2>3, <2>4
<1>6. ASSUME NEW j \in Key, Resync(j) \/ Enqueue(j)
      PROVE  EndsAtApi(kd, k)'
  BY <1>1, <1>6 DEF Resync, Enqueue, cluster, EndsAtApi
<1> QED
  BY <1>3, <1>4, <1>5, <1>6 DEF Informer

LEMMA WatchEndsNext ==
    ASSUME TypeInv, WatchEndsAtApi, [Next]_vars
    PROVE  WatchEndsAtApi'
<1>1. CASE Environment
  <2>1. UNCHANGED <<lister, synced>>
    BY <1>1 DEF Environment, CreateService, UpdateService, DeleteService,
       DeleteChild, CollectGarbage, UserStep, informers
  <2> QED
    BY <1>1, <2>1, EnvironmentWrites, WriteEndsAtApi DEF TypeInv
<1>2. ASSUME NEW w \in Worker, Work(w)
      PROVE  WatchEndsAtApi'
  <2>1. UNCHANGED <<lister, synced>>
    BY <1>2 DEF Work, Get, Finish, Lookup, GetDeployment, CreateDeployment,
       GetK8sService, CreateK8sService, WorkerStep, informers
  <2>2. CASE UNCHANGED <<api, watch>>
    BY <2>1, <2>2 DEF WatchEndsAtApi
  <2>3. CASE CreateDeployment(w) \/ CreateK8sService(w)
    <3>1. held[w] \in Key /\ obj[w].uid \in Version
      BY <2>3, WorkerHolds DEF CreateDeployment, CreateK8sService, At
    <3>2. \/ UNCHANGED <<api, watch>>
          \/ \E d \in Child : SetApi(d, held[w], obj[w].uid)
      BY <2>3 DEF CreateDeployment, CreateK8sService, Refused, Fault, Child
    <3> QED
      BY <2>1, <2>2, <3>1, <3>2, WriteEndsAtApi DEF TypeInv, Child, Kind, State
  <2> QED
    BY <1>2, <2>2, <2>3 DEF Work, Get, Finish, Lookup, GetDeployment,
       GetK8sService, cluster
<1>3. CASE NewProcess
  <2> SUFFICES ASSUME NEW kd \in Kind, NEW k \in Key
               PROVE  EndsAtApi(kd, k)'
    BY DEF WatchEndsAtApi, EndsAtApi
  <2>1. /\ api' = api /\ kd \notin synced'
        /\ watch'[kd][k] = IF watch[kd][k] = <<>> /\ api[kd][k] # None
                           THEN <<api[kd][k]>> ELSE watch[kd][k]
    BY <1>3 DEF NewProcess
  <2> QED
    BY <2>1 DEF WatchEndsAtApi, EndsAtApi
<1>4. CASE Stop \/ UNCHANGED vars
  BY <1>4 DEF Stop, vars, cluster, informers, WatchEndsAtApi
<1> QED
  BY <1>1, <1>2, <1>3, <1>4, InformerEndsAtApi DEF Next, Restart, Crash

\* A step of worker w within its pass, or into it, leaves the passes of the
\* other workers open and, if it does not end its own, that one too.
LEMMA PassStaysHeld ==
    ASSUME TypeInv, OpenPassIsHeld, NEW w \in Worker, held[w] \in Key,
           UNCHANGED held,
           \A v \in Worker \ {w} : pc'[v] = pc[v],
           \A k \in Key \ {held[w]} :
              outcome'[k] = outcome[k] /\ lastRead'[k] = lastRead[k],
           \/ outcome'[held[w]] # "none"
           \/ pc'[w] \notin {"get", "lookup", "done"}
    PROVE  OpenPassIsHeld'
<1> SUFFICES ASSUME NEW k \in Key, lastRead'[k] # None, outcome'[k] = "none"
             PROVE  \E v \in Worker :
                       held'[v] = k /\ pc'[v] \notin {"get", "lookup", "done"}
  BY DEF OpenPassIsHeld
<1>1. CASE k = held[w]
  BY <1>1
<1>2. CASE k # held[w]
  <2>1. PICK v \in Worker :
           held[v] = k /\ pc[v] \notin {"get", "lookup", "done"}
    BY <1>2 DEF OpenPassIsHeld
  <2>2. v # w
    BY <1>2, <2>1
  <2> QED
    BY <2>1, <2>2
<1> QED
  BY <1>1, <1>2

LEMMA WorkKeepsPasses ==
    ASSUME TypeInv, OpenPassIsHeld, NEW w \in Worker, Work(w)
    PROVE  OpenPassIsHeld'
<1>1. CASE Lookup(w)
  <2>1. /\ held[w] \in Key /\ UNCHANGED held
        /\ \A k \in Key \ {held[w]} : lastRead'[k] = lastRead[k]
    BY <1>1, WorkerHolds DEF Lookup, At, WorkerStep, qvars, TypeInv,
       ControllerTypeOK
  <2>2. CASE Return(w, "ok")
    BY <2>1, <2>2, ReturnEffect, PassStaysHeld
  <2>3. CASE /\ Goto(w, "getDeployment")
             /\ outcome' = [outcome EXCEPT ![held[w]] = "none"]
    <3>1. \A k \in Key \ {held[w]} : outcome'[k] = outcome[k]
      BY <2>1, <2>3 DEF TypeInv, ControllerTypeOK
    <3> QED
      BY <2>1, <2>3, <3>1, GotoEffect, PassStaysHeld
  <2> QED
    BY <1>1, <2>2, <2>3 DEF Lookup
<1>2. CASE \/ GetDeployment(w) \/ CreateDeployment(w)
           \/ GetK8sService(w) \/ CreateK8sService(w)
  <2>1. /\ held[w] \in Key /\ UNCHANGED <<held, lastRead>>
        /\ \/ \E r \in {"ok", "error"} : Return(w, r)
           \/ /\ UNCHANGED outcome
              /\ \E l \in {"createDeployment", "getK8sService",
                           "createK8sService"} : Goto(w, l)
    BY <1>2, WorkerHolds DEF GetDeployment, CreateDeployment, GetK8sService,
       CreateK8sService, AfterDeployment, Refused, Fault, At, WorkerStep, qvars
  <2>2. ASSUME NEW r \in {"ok", "error"}, Return(w, r)
        PROVE  OpenPassIsHeld'
    BY <2>1, <2>2, ReturnEffect, PassStaysHeld
  <2>3. ASSUME UNCHANGED outcome,
               NEW l \in {"createDeployment", "getK8sService",
                          "createK8sService"}, Goto(w, l)
        PROVE  OpenPassIsHeld'
    BY <2>1, <2>3, GotoEffect, PassStaysHeld
  <2> QED
    BY <2>1, <2>2, <2>3
<1>3. CASE Get(w) \/ Finish(w)
  <2>1. /\ UNCHANGED <<lastRead, outcome>> /\ pc[w] \in {"get", "done"}
        /\ \A v \in Worker \ {w} : pc'[v] = pc[v] /\ held'[v] = held[v]
    BY <1>3 DEF Get, GetWait, GetShutdown, GetItem, Finish, Done, Goto, At,
       AtGet, history, TypeInv, ControllerTypeOK, WorkerPhase, QIInv, QTypeOK
  <2> QED
    BY <2>1 DEF OpenPassIsHeld
<1> QED
  BY <1>1, <1>2, <1>3 DEF Work

LEMMA OpenPassNext ==
    ASSUME TypeInv, OpenPassIsHeld, [Next]_vars
    PROVE  OpenPassIsHeld'
<1>1. CASE Environment
  <2>1. UserStep
    BY <1>1 DEF Environment, CreateService, UpdateService, DeleteService,
       DeleteChild, CollectGarbage
  <2>2. UNCHANGED <<held, pc, lastRead, outcome>>
    BY <2>1 DEF UserStep, qvars
  <2> QED
    BY <2>2 DEF OpenPassIsHeld
<1>2. CASE Informer
  <2>1. UNCHANGED <<held, pc, lastRead, outcome>>
    BY <1>2 DEF Informer, List, Skip, Deliver, Resync, Enqueue, Add, Append1,
       history, qvars
  <2> QED
    BY <2>1 DEF OpenPassIsHeld
<1>3. CASE NewProcess
  BY <1>3 DEF NewProcess, OpenPassIsHeld
<1>4. CASE Stop \/ UNCHANGED vars
  BY <1>4 DEF Stop, ShutDown, vars, qvars, history, OpenPassIsHeld
<1> QED
  BY <1>1, <1>2, <1>3, <1>4, WorkKeepsPasses DEF Next, Restart, Crash

\* At rest the lister shows the Service that is in the API server, the last
\* pass looked that one up, and the pass has ended.
LEMMA RestFollows ==
    ASSUME TypeInv, NoVersionMissed, ServedInv, WatchEndsAtApi, OpenPassIsHeld
    PROVE  RestIsRight
<1> SUFFICES ASSUME NEW k \in Key, Quiet(k), api["Service"][k] # None,
                    outcome[k] # "error",
                    NEW kd \in Wanted(api["Service"][k])
             PROVE  Served(kd, k)
  BY DEF RestIsRight
<1>1. lister["Service"][k] = api["Service"][k]
  BY DEF Quiet, WatchEndsAtApi, Kind
<1>2. \A w \in Worker : held[w] # k
  BY QueueAssumption DEF Quiet, TypeInv, QIInv, ProcessingIsHeld
<1>3. lastRead[k] = api["Service"][k]
  BY <1>1, <1>2 DEF NoVersionMissed, Quiet
<1>4. outcome[k] = "ok"
  BY <1>2, <1>3 DEF OpenPassIsHeld, TypeInv, ControllerTypeOK
<1> QED
  BY <1>3, <1>4 DEF ServedInv, SuccessMeansServed

\* The controller rests only where it should: with nothing under way for a
\* Service, its children were created or the last pass over it failed.
THEOREM RestIsJustified == Spec => []RestIsRight
<1>1. Init => WatchEndsAtApi /\ OpenPassIsHeld
  BY DEF Init, WatchEndsAtApi, OpenPassIsHeld, Kind
<1>2. TypeInv /\ WatchEndsAtApi /\ [Next]_vars => WatchEndsAtApi'
  BY WatchEndsNext
<1>3. TypeInv /\ OpenPassIsHeld /\ [Next]_vars => OpenPassIsHeld'
  BY OpenPassNext
<1>4. Init => ServedInv
  BY EmptySeq DEF Init, ServedInv, SeenIsServed, PassState,
     SuccessMeansServed, Kind
<1>5. TypeInv /\ ServedInv /\ [Next]_vars => ServedInv'
  BY ServedInvNext
<1>6. TypeInv /\ NoVersionMissed /\ ServedInv /\ WatchEndsAtApi
         /\ OpenPassIsHeld => RestIsRight
  BY RestFollows
<1> QED
  BY <1>1, <1>2, <1>3, <1>4, <1>5, <1>6, TypeInvariant, NoServiceForgotten,
     PTL DEF Spec
=============================================================================
