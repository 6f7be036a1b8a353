------------------------------ MODULE Discovery ------------------------------
(***************************************************************************)
(* lite-mesh's discovery server (pkg/xds, cmd/discovery): its handler for  *)
(* Configurations writes one snapshot for every pod that a rule matches,   *)
(* and the ADS server (module AdsServer) hands the snapshots to the Envoys *)
(* of those pods.                                                          *)
(*                                                                         *)
(* A Configuration is its resource version and its rules; a rule is the    *)
(* pods whose labels it matches and the content that buildClusters and     *)
(* buildListeners make of it.  An Envoy is the pod it runs in.             *)
(***************************************************************************)
EXTENDS AdsServer

CONSTANTS
    Conf,        \* keys of Configurations
    Rules,       \* bound: the rule lists that users write
    MaxVersion,  \* bound: writes of Configurations
    MaxPodMoves  \* bound: pods that appear or go

Rule == [match : SUBSET Node, content : Content]

ASSUME DiscoveryAssumption ==
    /\ MaxVersion \in Nat /\ MaxPodMoves \in Nat
    /\ Version = 1..MaxVersion
    /\ Rules \subseteq Seq(Rule)

VARIABLES
    apiConf,     \* apiConf[c]: the Configuration in the API server, or Nil
    apiPods,     \* the pods in the API server
    lister,      \* lister[c]: the Configuration in the informer's indexer
    podLister,   \* the pods in the informer's indexer
    synced,      \* the kinds whose informer HasSynced
    events,      \* Configurations with an event on its way to update
    todo,        \* update's position: rules, version and pods still to do
    version,     \* the last resource version given to a Configuration
    moves

kube == <<apiConf, apiPods, version, moves>>
listers == <<lister, podLister, synced>>
dvars == <<avars, kube, listers, events, todo>>

Kind == {"Configuration", "Pod"}
Configuration == [ver : Version, rules : Rules]

\* What is left of an update: the rules from the current one on, with the pods
\* of that one as the lister showed them when its turn came.
Rest(ver, rules) ==
    [ver |-> ver, rules |-> rules,
     pods |-> IF rules = <<>> THEN {} ELSE podLister \cap Head(rules).match]

Done == [ver |-> NoVersion, rules |-> <<>>, pods |-> {}]

-----------------------------------------------------------------------------
(* Users and the cluster.                                                    *)

UserStep == UNCHANGED <<avars, listers, events, todo>>

Configure(c, rules) ==
    /\ version < MaxVersion
    /\ version' = version + 1
    /\ apiConf' = [apiConf EXCEPT ![c] = [ver |-> version + 1, rules |-> rules]]
    /\ UserStep /\ UNCHANGED <<apiPods, moves>>

DeleteConfiguration(c) ==
    /\ apiConf[c] # Nil
    /\ apiConf' = [apiConf EXCEPT ![c] = Nil]
    /\ UserStep /\ UNCHANGED <<apiPods, version, moves>>

MovePod(p) ==
    /\ moves < MaxPodMoves
    /\ moves' = moves + 1
    /\ apiPods' = IF p \in apiPods THEN apiPods \ {p} ELSE apiPods \cup {p}
    /\ UserStep /\ UNCHANGED <<apiConf, version>>

Users ==
    \/ \E c \in Conf : DeleteConfiguration(c)
    \/ \E c \in Conf, rules \in Rules : Configure(c, rules)
    \/ \E p \in Node : MovePod(p)

-----------------------------------------------------------------------------
(* The informers.  Only Configurations have a handler, and none for deletes. *)

InformerStep == UNCHANGED <<avars, kube, todo>>

ListConfigurations ==
    /\ "Configuration" \notin synced
    /\ synced' = synced \cup {"Configuration"}
    /\ lister' = apiConf
    /\ events' = {c \in Conf : apiConf[c] # Nil}
    /\ InformerStep /\ UNCHANGED podLister

ListPods ==
    /\ "Pod" \notin synced
    /\ synced' = synced \cup {"Pod"}
    /\ podLister' = apiPods
    /\ InformerStep /\ UNCHANGED <<lister, events>>

LearnConfiguration(c) ==
    /\ "Configuration" \in synced /\ lister[c] # apiConf[c]
    /\ lister' = [lister EXCEPT ![c] = apiConf[c]]
    /\ events' = IF apiConf[c] # Nil THEN events \cup {c} ELSE events
    /\ InformerStep /\ UNCHANGED <<podLister, synced>>

LearnPod(p) ==
    /\ "Pod" \in synced /\ (p \in podLister) # (p \in apiPods)
    /\ podLister' = IF p \in apiPods THEN podLister \cup {p} ELSE podLister \ {p}
    /\ InformerStep /\ UNCHANGED <<lister, synced, events>>

\* Mutant: the informer factory is built with a resync period of 0.
ResyncNever(c) == FALSE

\* The periodic resync: an update event for what the indexer has.
Resync(c) ==
    /\ lister[c] # Nil /\ c \notin events
    /\ events' = events \cup {c}
    /\ InformerStep /\ UNCHANGED listers

Informers ==
    \/ ListConfigurations \/ ListPods
    \/ \E c \in Conf : LearnConfiguration(c) \/ Resync(c)
    \/ \E p \in Node : LearnPod(p)

-----------------------------------------------------------------------------
(* The handler.  The listener's goroutine runs one update after the other.   *)

HandlerStep == UNCHANGED <<stream, wire, envoy, breaks, kube, listers>>

\* update reads the Configuration; one that is gone is left alone.
Update(c) ==
    /\ todo = Done /\ c \in events
    /\ events' = events \ {c}
    /\ todo' = IF lister[c] = Nil THEN Done
               ELSE Rest(lister[c].ver, lister[c].rules)
    /\ HandlerStep /\ UNCHANGED cvars

\* Mutant: update returns after the first rule.
NextRuleStops ==
    /\ todo # Done /\ todo.pods = {}
    /\ todo' = Done
    /\ HandlerStep /\ UNCHANGED <<cvars, events>>

\* The loop goes on to the next rule, or ends.
NextRule ==
    /\ todo # Done /\ todo.pods = {}
    /\ todo' = IF Len(todo.rules) <= 1 THEN Done
               ELSE Rest(todo.ver, Tail(todo.rules))
    /\ HandlerStep /\ UNCHANGED <<cvars, events>>

\* Mutant: snapshots are versioned by the format, not by the resource.
SetPodConstantVersion(p) ==
    /\ p \in todo.pods
    /\ SetSnapshot(p, [ver |-> 1, content |-> Head(todo.rules).content])
    /\ todo' = [todo EXCEPT !.pods = @ \ {p}]
    /\ HandlerStep /\ UNCHANGED events

\* Mutant: the snapshot is stored behind the cache's back.
SetPodBypasses(p) ==
    /\ p \in todo.pods
    /\ snapshots' = [snapshots EXCEPT ![p] =
                        [ver |-> todo.ver, content |-> Head(todo.rules).content]]
    /\ UNCHANGED <<watches, chan>>
    /\ todo' = [todo EXCEPT !.pods = @ \ {p}]
    /\ HandlerStep /\ UNCHANGED events

\* The loop's body for one pod, in the order of the pod lister's map.
SetPod(p) ==
    /\ p \in todo.pods
    /\ SetSnapshot(p, [ver |-> todo.ver, content |-> Head(todo.rules).content])
    /\ todo' = [todo EXCEPT !.pods = @ \ {p}]
    /\ HandlerStep /\ UNCHANGED events

Handler ==
    \/ NextRule
    \/ \E c \in Conf : Update(c)
    \/ \E p \in Node : SetPod(p)

-----------------------------------------------------------------------------
(* The process and its streams.                                              *)

\* What the streams do leaves the rest of the process alone.
Outside == UNCHANGED <<kube, listers, events, todo>>

\* The ADS server listens once both informers have synced.
Listen(n, s) == synced = Kind /\ Connect(n, s) /\ Outside

Streams ==
    \/ (Server \/ \E n \in Node : Converse(n)) /\ Outside
    \/ \E n \in Node, s \in Stream : Listen(n, s)

\* A crash, or a signal: main returns, and nothing is kept on disk.
DiscoveryRestart ==
    /\ ServerRestart
    /\ lister' = [c \in Conf |-> Nil] /\ podLister' = {} /\ synced' = {}
    /\ events' = {} /\ todo' = Done
    /\ UNCHANGED kube

DInit ==
    /\ AInit
    /\ apiConf = [c \in Conf |-> Nil] /\ apiPods = {}
    /\ version = 0 /\ moves = 0
    /\ lister = [c \in Conf |-> Nil] /\ podLister = {} /\ synced = {}
    /\ events = {} /\ todo = Done

DNext == Users \/ Informers \/ Handler \/ Streams \/ DiscoveryRestart

DSpec == DInit /\ [][DNext]_dvars

\* Goroutines that can run do run, and select serves every channel; informers
\* list and learn, the resync timer fires for ever; Envoys answer, and connect
\* again when their stream breaks.  Nothing is assumed of users, pods, broken
\* streams and restarts.
DFairSpec ==
    /\ DSpec
    /\ WF_dvars(ListConfigurations) /\ WF_dvars(ListPods)
    /\ \A c \in Conf : /\ WF_dvars(LearnConfiguration(c))
                       /\ WF_dvars(Resync(c)) /\ WF_dvars(Update(c))
    /\ \A n \in Node : /\ WF_dvars(LearnPod(n)) /\ WF_dvars(SetPod(n))
                       /\ WF_dvars(Receive(n) /\ Outside)
                       /\ WF_dvars(\E s \in Stream : Listen(n, s))
                       /\ \A t \in Type : WF_dvars(Subscribe(n, t) /\ Outside)
    /\ WF_dvars(NextRule)
    /\ \A s \in Stream : /\ WF_dvars(Handle(s) /\ Outside)
                         /\ WF_dvars(Close(s) /\ Outside)
                         /\ \A t \in Type : WF_dvars(Respond(s, t) /\ Outside)

-----------------------------------------------------------------------------

Todo == [ver : Version, rules : Seq(Rule), pods : SUBSET Node]

DTypeOK ==
    /\ ATypeOK
    /\ apiConf \in [Conf -> Configuration \cup {Nil}]
    /\ lister \in [Conf -> Configuration \cup {Nil}]
    /\ apiPods \in SUBSET Node /\ podLister \in SUBSET Node
    /\ synced \in SUBSET Kind /\ events \in SUBSET Conf
    /\ todo \in Todo \cup {Done}
    /\ version \in 0..MaxVersion /\ moves \in 0..MaxPodMoves

\* The streams are driven by the ADS server's own steps, and the handler by
\* SetSnapshot alone: what holds of AdsServer holds here.
UsesAdsServer == ASpec

\* "SnapshotCache consistently replies with the latest snapshot" (simple.go:29):
\* an Envoy that the cache keeps waiting uses the content of the latest
\* snapshot of its node, not only its version.
WaitingHasLatest ==
    \A n \in Node, t \in Type :
       /\ conn[n] # Nil /\ OpenWatches(conn[n], t) # {}
       /\ snapshots[n] # Nil
       => config[n][t] = snapshots[n].content

\* The rules that match pod n, in all Configurations.
Matching(n) ==
    {r \in UNION {{<<c, i>> : i \in DOMAIN apiConf[c].rules} :
                     c \in {d \in Conf : apiConf[d] # Nil}} :
        n \in apiConf[r[1]].rules[r[2]].match}

\* Envoy n uses what the only rule that matches its pod says.
Configured(n) ==
    n \in apiPods /\ Cardinality(Matching(n)) = 1 =>
       \A r \in Matching(n), t \in Type :
          config[n][t] = apiConf[r[1]].rules[r[2]].content

\* Once users and faults stop, every Envoy gets the configuration of its pod,
\* be the pod older or newer than the Configuration, and through broken
\* streams, restarts of the Envoy and restarts of the server.
Converges == <>[](\A n \in Node : Configured(n))
=============================================================================
