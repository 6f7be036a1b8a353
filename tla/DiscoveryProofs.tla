--------------------------- MODULE DiscoveryProofs ---------------------------
(***************************************************************************)
(* Proofs about the discovery server, for every set of Configurations and  *)
(* of rule lists.  It uses the ADS server as the specification AdsServer   *)
(* has it, so that every theorem of AdsServerProofs holds of it.  Where no *)
(* two rules of a Configuration match one pod, a version stands for one    *)
(* content of a node, and Envoys that wait have the latest (the end).      *)
(***************************************************************************)
EXTENDS Discovery, AdsTurnProofs

-----------------------------------------------------------------------------
(* The handler's own state.                                                  *)

\* The types of the discovery server's own state; and an update with no rule
\* left has no pod left, so that SetPod finds the rule it works on.
DiscoveryInv ==
    /\ apiConf \in [Conf -> Configuration \cup {Nil}]
    /\ lister \in [Conf -> Configuration \cup {Nil}]
    /\ apiPods \in SUBSET Node /\ podLister \in SUBSET Node
    /\ synced \in SUBSET Kind /\ events \in SUBSET Conf
    /\ todo \in Todo \cup {Done}
    /\ todo.rules = <<>> => todo.pods = {}
    /\ version \in 0..MaxVersion /\ moves \in 0..MaxPodMoves

LEMMA InitDiscovery == DInit => DiscoveryInv
BY DiscoveryAssumption DEF DInit, DiscoveryInv, Done

\* What is left of an update is well formed.
LEMMA RestType ==
    ASSUME NEW ver \in Version, NEW rules \in Seq(Rule), podLister \in SUBSET Node
    PROVE  /\ Rest(ver, rules) \in Todo
           /\ Rest(ver, rules).rules = <<>> => Rest(ver, rules).pods = {}
BY DEF Rest, Todo

LEMMA DonePods == Done.pods = {}
BY DEF Done

LEMMA UsersDiscovery ==
    ASSUME DiscoveryInv, Users
    PROVE  DiscoveryInv'
<1>1. ASSUME NEW c \in Conf, DeleteConfiguration(c)
      PROVE  DiscoveryInv'
  BY <1>1 DEF DeleteConfiguration, UserStep, listers, DiscoveryInv
<1>2. ASSUME NEW c \in Conf, NEW rules \in Rules, Configure(c, rules)
      PROVE  DiscoveryInv'
  <2>1. version + 1 \in Version /\ version' \in 0..MaxVersion
    BY <1>2, DiscoveryAssumption DEF Configure, DiscoveryInv
  <2>2. [ver |-> version + 1, rules |-> rules] \in Configuration
    BY <2>1 DEF Configuration
  <2>3. apiConf' \in [Conf -> Configuration \cup {Nil}]
    BY <1>2, <2>2 DEF Configure, DiscoveryInv
  <2> QED
    BY <1>2, <2>1, <2>3 DEF Configure, UserStep, listers, DiscoveryInv
<1>3. ASSUME NEW p \in Node, MovePod(p)
      PROVE  DiscoveryInv'
  <2>1. moves' \in 0..MaxPodMoves
    BY <1>3, DiscoveryAssumption DEF MovePod, DiscoveryInv
  <2>2. apiPods' \in SUBSET Node
    BY <1>3 DEF MovePod, DiscoveryInv
  <2> QED
    BY <1>3, <2>1, <2>2 DEF MovePod, UserStep, listers, DiscoveryInv
<1> QED
  BY <1>1, <1>2, <1>3 DEF Users

LEMMA InformersDiscovery ==
    ASSUME DiscoveryInv, Informers
    PROVE  DiscoveryInv'
<1> USE DEF InformerStep, kube
<1>1. CASE ListConfigurations
  BY <1>1 DEF ListConfigurations, DiscoveryInv, Kind
<1>2. CASE ListPods
  BY <1>2 DEF ListPods, DiscoveryInv, Kind
<1>3. ASSUME NEW c \in Conf, LearnConfiguration(c)
      PROVE  DiscoveryInv'
  BY <1>3 DEF LearnConfiguration, DiscoveryInv
<1>4. ASSUME NEW c \in Conf, Resync(c)
      PROVE  DiscoveryInv'
  BY <1>4 DEF Resync, listers, DiscoveryInv
<1>5. ASSUME NEW p \in Node, LearnPod(p)
      PROVE  DiscoveryInv'
  BY <1>5 DEF LearnPod, DiscoveryInv
<1> QED
  BY <1>1, <1>2, <1>3, <1>4, <1>5 DEF Informers

LEMMA HandlerDiscovery ==
    ASSUME DiscoveryInv, Handler
    PROVE  DiscoveryInv'
<1>1. HandlerStep
  BY DEF Handler, NextRule, Update, SetPod
<1>2. ASSUME todo' \in Todo \cup {Done}, todo'.rules = <<>> => todo'.pods = {},
             events' \in SUBSET Conf
      PROVE  DiscoveryInv'
  BY <1>1, <1>2 DEF HandlerStep, kube, listers, DiscoveryInv
<1>3. CASE NextRule
  <2>1. CASE todo' = Done
    BY <1>2, <1>3, <2>1, DonePods DEF NextRule, DiscoveryInv
  <2>2. CASE todo' = Rest(todo.ver, Tail(todo.rules)) /\ Len(todo.rules) > 1
    <3>1. todo.ver \in Version /\ todo.rules \in Seq(Rule)
      BY <1>3 DEF NextRule, DiscoveryInv, Todo
    <3>2. Tail(todo.rules) \in Seq(Rule)
      BY <2>2, <3>1, HeadTailProperties
    <3> QED
      BY <1>2, <1>3, <2>2, <3>1, <3>2, RestType DEF NextRule, DiscoveryInv
  <2>3. todo # Done /\ todo.rules \in Seq(Rule)
    BY <1>3 DEF NextRule, DiscoveryInv, Todo
  <2> QED
    BY <1>3, <2>1, <2>2, <2>3 DEF NextRule
<1>4. ASSUME NEW c \in Conf, Update(c)
      PROVE  DiscoveryInv'
  <2>1. CASE todo' = Done
    BY <1>2, <1>4, <2>1, DonePods DEF Update, DiscoveryInv
  <2>2. CASE todo' = Rest(lister[c].ver, lister[c].rules) /\ lister[c] # Nil
    <3>1. lister[c] \in Configuration
      BY <2>2 DEF DiscoveryInv
    <3>2. lister[c].ver \in Version /\ lister[c].rules \in Seq(Rule)
      BY <3>1, DiscoveryAssumption DEF Configuration
    <3> QED
      BY <1>2, <1>4, <2>2, <3>2, RestType DEF Update, DiscoveryInv
  <2> QED
    BY <1>4, <2>1, <2>2 DEF Update
<1>5. ASSUME NEW p \in Node, SetPod(p)
      PROVE  DiscoveryInv'
  <2>1. todo \in Todo
    BY <1>5 DEF SetPod, DiscoveryInv, Done
  <2>2. todo' \in Todo /\ (todo'.rules = <<>> => todo'.pods = {})
    BY <1>5, <2>1 DEF SetPod, DiscoveryInv, Todo
  <2> QED
    BY <1>2, <1>5, <2>2 DEF SetPod, DiscoveryInv
<1> QED
  BY <1>3, <1>4, <1>5 DEF Handler

LEMMA StepDiscovery == DiscoveryInv /\ [DNext]_dvars => DiscoveryInv'
<1> SUFFICES ASSUME DiscoveryInv, [DNext]_dvars
             PROVE  DiscoveryInv'
  OBVIOUS
<1>1. CASE Outside
  BY <1>1 DEF Outside, kube, listers, DiscoveryInv
<1>2. CASE Streams
  BY <1>1, <1>2 DEF Streams, Listen
<1>3. CASE DiscoveryRestart
  BY <1>3 DEF DiscoveryRestart, kube, DiscoveryInv, Done
<1>4. CASE UNCHANGED dvars
  BY <1>1, <1>4 DEF dvars, Outside
<1> QED
  BY <1>2, <1>3, <1>4, UsersDiscovery, InformersDiscovery, HandlerDiscovery DEF DNext

\* Every step of the discovery server is a step of the ADS server, or none:
\* the handler's only way to it is a snapshot that it sets.
LEMMA StepUsesAds == DiscoveryInv /\ [DNext]_dvars => [ANext]_avars
<1> SUFFICES ASSUME DiscoveryInv, [DNext]_dvars
             PROVE  [ANext]_avars
  OBVIOUS
<1>1. CASE Users
  BY <1>1 DEF Users, DeleteConfiguration, Configure, MovePod, UserStep
<1>2. CASE Informers
  BY <1>2 DEF Informers, ListConfigurations, ListPods, LearnConfiguration,
     LearnPod, Resync, InformerStep
<1>3. CASE Handler
  <2>1. ASSUME UNCHANGED cvars, HandlerStep
        PROVE  UNCHANGED avars
    BY <2>1 DEF HandlerStep, avars
  <2>2. ASSUME NEW p \in Node, SetPod(p)
        PROVE  ANext
    <3> DEFINE snap == [ver |-> todo.ver, content |-> Head(todo.rules).content]
    <3>1. todo \in Todo /\ todo.rules # <<>>
      BY <2>2 DEF SetPod, DiscoveryInv, Done
    <3>2. Head(todo.rules) \in Rule /\ todo.ver \in Version
      BY <3>1, HeadTailProperties DEF Todo
    <3>3. snap \in Snapshot
      BY <3>2 DEF Snapshot, Rule
    <3>4. Publish(p, snap)
      BY <2>2 DEF SetPod, HandlerStep, Publish
    <3> QED
      BY <3>3, <3>4 DEF ANext
  <2> QED
    BY <1>3, <2>1, <2>2 DEF Handler, NextRule, Update
<1>4. CASE Streams
  <2>1. Server \/ Envoy
    BY <1>4 DEF Streams, Listen, Envoy
  <2> QED
    BY <2>1 DEF ANext
<1>5. CASE DiscoveryRestart
  BY <1>5 DEF DiscoveryRestart, ANext
<1>6. CASE UNCHANGED dvars
  BY <1>6 DEF dvars
<1> QED
  BY <1>1, <1>2, <1>3, <1>4, <1>5, <1>6 DEF DNext

\* The discovery server implements the ADS server's specification.
THEOREM DiscoveryUsesAdsServer == DSpec => UsesAdsServer
<1>1. DInit => AInit
  BY DEF DInit
<1> QED
  BY <1>1, InitDiscovery, StepDiscovery, StepUsesAds, PTL
     DEF DSpec, UsesAdsServer, ASpec

\* What the discovery server is to its Envoys: for each pod and type, a mailbox
\* for one snapshot at a time (module Delivery), filled by the handler alone.
THEOREM DiscoveryImplementsDelivery == DSpec => RefinesDelivery
  BY DiscoveryUsesAdsServer, ServerImplementsDelivery, PTL DEF UsesAdsServer

\* The variables of the discovery server keep their types.
THEOREM DiscoveryTypeCorrect == DSpec => []DTypeOK
<1>1. DiscoveryInv /\ ATypeOK => DTypeOK
  BY DEF DiscoveryInv, DTypeOK
<1> QED
  BY <1>1, InitDiscovery, StepDiscovery, DiscoveryUsesAdsServer, AdsTypeCorrect, PTL
     DEF DSpec, UsesAdsServer

-----------------------------------------------------------------------------
(* What an Envoy that waits has.                                             *)

\* No two rules of one Configuration match the same pod.
DisjointRules ==
    \A rules \in Rules : \A i, j \in DOMAIN rules :
       i # j => rules[i].match \cap rules[j].match = {}

\* Snapshot x is in the cache for node n, on the way to its Envoy, or in use
\* there.
Holds(n, x) ==
    \/ snapshots[n] = x
    \/ \E s \in Stream, t \in Type :
          client[s] = n /\ values[s][t] # Nil /\ chan[values[s][t]] = x
    \/ \E s \in Stream :
          client[s] = n /\ \E i \in DOMAIN responses[s] : responses[s][i].snap = x
    \/ \E t \in Type : acked[n][t] = x.ver /\ config[n][t] = x.content

\* These rules, at this version, ask for snapshot x of node n.
Asks(ver, rules, n, x) ==
    /\ x.ver = ver
    /\ \E i \in DOMAIN rules : n \in rules[i].match /\ rules[i].content = x.content

\* The API server, the lister or what is left of an update asks for it.
Wanted(n, x) ==
    \/ \E c \in Conf : /\ apiConf[c] # Nil
                       /\ Asks(apiConf[c].ver, apiConf[c].rules, n, x)
    \/ \E c \in Conf : lister[c] # Nil /\ Asks(lister[c].ver, lister[c].rules, n, x)
    \/ Asks(todo.ver, todo.rules, n, x)

Known(n, x) == Holds(n, x) \/ Wanted(n, x)

\* Everywhere in the system, a version stands for one content of a node ...
OneContent ==
    \A n \in Node, x, y \in Snapshot :
       Known(n, x) /\ Known(n, y) /\ x.ver = y.ver => x.content = y.content

\* ... and no version is used that was not given yet.
Dated == \A n \in Node, x \in Snapshot : Known(n, x) => x.ver <= version

PodsMatch == todo.pods # {} => todo.pods \subseteq Head(todo.rules).match

ContentInv == (DisjointRules => OneContent) /\ Dated /\ PodsMatch

LEMMA TurnTypes ==
    ASSUME TurnInv
    PROVE  ATypeOK /\ CTypeOK /\ StreamTypeOK /\ WireTypeOK /\ EnvoyTypeOK
BY DEF TurnInv, WatchInv, ATypeOK

\* What the server's side of a stream does brings a node only what it held.
LEMMA ServerHolds ==
    ASSUME TurnInv, Server, NEW n \in Node, NEW x \in Snapshot, Holds(n, x)'
    PROVE  Holds(n, x)
<1> USE TurnTypes DEF CTypeOK, StreamTypeOK, WireTypeOK
<1>x. x # Nil
  BY CacheAssumption
<1>1. ASSUME NEW s \in Stream, Handle(s)
      PROVE  Holds(n, x)
  <2>1. UNCHANGED <<snapshots, client, responses, acked, config>>
    BY <1>1 DEF Handle, envoy
  <2>2. ASSUME NEW r \in Stream, NEW u \in Type, client[r] = n,
               values'[r][u] # Nil, chan'[values'[r][u]] = x
        PROVE  Holds(n, x)
    <3>1. CASE UNCHANGED <<chan, values>>
      BY <2>2, <3>1 DEF Holds
    <3>2. CASE /\ ~(WatchId \subseteq InUse)
               /\ \E t \in Type : values' = [values EXCEPT ![s][t] = NewChannel]
               /\ \/ chan' = [chan EXCEPT ![NewChannel] = Nil]
                  \/ chan' = [chan EXCEPT ![NewChannel] = snapshots[client[s]]]
      <4>1. PICK t \in Type : values' = [values EXCEPT ![s][t] = NewChannel]
        BY <3>2
      <4>2. NewChannel \in WatchId /\ \A p \in Stream, q \in Type : values[p][q] # NewChannel
        BY <3>2, NewChannelIsFresh DEF InUse
      <4>3. CASE r = s /\ u = t
        <5>1. values'[r][u] = NewChannel
          BY <4>1, <4>3
        <5> QED
          BY <1>x, <2>2, <3>2, <4>2, <4>3, <5>1 DEF Holds
      <4>4. CASE ~(r = s /\ u = t)
        <5>1. values'[r][u] = values[r][u]
          BY <4>1, <4>4
        <5>2. values[r][u] \in WatchId
          BY <2>2, <5>1
        <5>3. chan'[values[r][u]] = chan[values[r][u]]
          BY <3>2, <4>2, <5>2
        <5> QED
          BY <2>2, <5>1, <5>3 DEF Holds
      <4> QED
        BY <4>3, <4>4
    <3>3. Head(requests[s]).type \in Type
      <4>1. requests[s] \in Seq(Requests) /\ requests[s] # <<>>
        BY <1>1 DEF Handle
      <4>2. Head(requests[s]) \in Requests
        BY <4>1, HeadTailProperties
      <4> QED
        BY <4>2 DEF Requests
    <3> QED
      BY <1>1, <3>1, <3>2, <3>3 DEF Handle, CreateWatch
  <2> QED
    BY <2>1, <2>2 DEF Holds
<1>2. ASSUME NEW s \in Stream, NEW t \in Type, Respond(s, t)
      PROVE  Holds(n, x)
  <2> DEFINE m == Response(t, chan[values[s][t]], streamNonce[s] + 1)
  <2>1. /\ UNCHANGED <<snapshots, client, values, acked, config>>
        /\ values[s][t] # Nil /\ values[s][t] \in WatchId
        /\ \A id \in WatchId : chan'[id] \in {Nil, chan[id]}
        /\ \A r \in Stream : r # s => responses'[r] = responses[r]
        /\ responses'[s] = Append(responses[s], m)
    BY <1>2 DEF Respond, envoy
  <2>2. m.snap = chan[values[s][t]]
    BY DEF Response
  <2> HIDE DEF m
  <2>3. ASSUME NEW r \in Stream, NEW u \in Type, client[r] = n,
               values[r][u] # Nil, chan'[values[r][u]] = x
        PROVE  Holds(n, x)
    BY <1>x, <2>1, <2>3 DEF Holds
  <2>4. ASSUME NEW r \in Stream, client[r] = n,
               NEW i \in DOMAIN responses'[r], responses'[r][i].snap = x
        PROVE  Holds(n, x)
    <3>1. CASE r # s
      BY <2>1, <2>4, <3>1 DEF Holds
    <3>2. CASE r = s
      <4>1. responses[s] \in Seq(Responses)
        OBVIOUS
      <4>2. \/ i \in DOMAIN responses[s] /\ responses'[s][i] = responses[s][i]
            \/ responses'[s][i] = m
        <5> DEFINE q == responses[s]
        <5>1. q \in Seq(Responses) /\ i \in DOMAIN Append(q, m) /\ responses'[s] = Append(q, m)
          BY <2>1, <2>4, <3>2
        <5> HIDE DEF q
        <5>2. \/ i \in DOMAIN q /\ Append(q, m)[i] = q[i]
              \/ Append(q, m)[i] = m
          <6>1. Len(q) \in Nat /\ \A k \in 1..Len(q) : q[k] \in Responses \cup {m}
            BY <5>1, LenProperties, ElementOfSeq
          <6>2. q \in Seq(Responses \cup {m})
            BY <5>1, <6>1, SeqDef
          <6> QED
            BY <5>1, <6>2, AppendProperties, LenProperties
        <5> QED
          BY <5>1, <5>2 DEF q
      <4> QED
        BY <2>1, <2>2, <2>4, <3>2, <4>2 DEF Holds
    <3> QED
      BY <3>1, <3>2
  <2> QED
    BY <2>1, <2>3, <2>4 DEF Holds
<1>3. ASSUME NEW s \in Stream, Close(s)
      PROVE  Holds(n, x)
  <2>1. /\ UNCHANGED <<snapshots, acked, config>>
        /\ \A r \in Stream : client'[r] = n =>
              /\ client[r] = n
              /\ \A t \in Type : values'[r][t] = values[r][t]
              /\ responses'[r] = responses[r]
        /\ \A id \in WatchId : chan'[id] \in {Nil, chan[id]}
    BY <1>3, CacheAssumption DEF Close, NoStream, envoy
  <2>2. ASSUME NEW r \in Stream, NEW t \in Type, client'[r] = n,
               values'[r][t] # Nil, chan'[values'[r][t]] = x
        PROVE  Holds(n, x)
    <3>1. client[r] = n /\ values[r][t] # Nil /\ values[r][t] \in WatchId
          /\ chan'[values[r][t]] = x
      BY <2>1, <2>2
    <3> QED
      BY <1>x, <2>1, <3>1 DEF Holds
  <2>3. ASSUME NEW r \in Stream, client'[r] = n,
               NEW i \in DOMAIN responses'[r], responses'[r][i].snap = x
        PROVE  Holds(n, x)
    <3>1. client[r] = n /\ responses'[r] = responses[r]
      BY <2>1, <2>3
    <3> QED
      BY <2>3, <3>1 DEF Holds
  <2> QED
    BY <2>1, <2>2, <2>3 DEF Holds
<1> QED
  BY <1>1, <1>2, <1>3 DEF Server

LEMMA SameSnapshot ==
    ASSUME NEW x \in Snapshot, NEW y \in Snapshot, x.ver = y.ver, x.content = y.content
    PROVE  x = y
BY DEF Snapshot

\* So does what its Envoy does.
LEMMA EnvoyHolds ==
    ASSUME TurnInv, Envoy, NEW n \in Node, NEW x \in Snapshot, Holds(n, x)'
    PROVE  Holds(n, x)
<1> USE TurnTypes DEF CTypeOK, StreamTypeOK, WireTypeOK, EnvoyTypeOK
<1>1. ASSUME NEW m \in Node, NEW s \in Stream, Connect(m, s)
      PROVE  Holds(n, x)
  <2>1. /\ UNCHANGED <<snapshots, chan, values, responses, acked, config>>
        /\ responses[s] = <<>> /\ \A t \in Type : values[s][t] = Nil
        /\ \A r \in Stream : r # s => client'[r] = client[r]
    BY <1>1 DEF Connect, cvars, wire, TurnInv, Ownership, Unserved
  <2>2. ASSUME NEW r \in Stream, client'[r] = n,
               \/ \E t \in Type : values[r][t] # Nil
               \/ \E i \in DOMAIN responses[r] : responses[r][i].snap = x
        PROVE  client[r] = n
    <3>1. r # s
      BY <2>1, <2>2
    <3> QED
      BY <2>1, <2>2, <3>1
  <2> QED
    BY <2>1, <2>2 DEF Holds
<1>2. ASSUME NEW m \in Node, NEW t \in Type, Subscribe(m, t)
      PROVE  Holds(n, x)
  BY <1>2 DEF Subscribe, cvars, stream, Holds
<1>3. ASSUME NEW m \in Node, Receive(m)
      PROVE  Holds(n, x)
  <2> DEFINE s == conn[m]
             q == responses[s]
             r == Head(q)
  <2>1. /\ UNCHANGED <<snapshots, chan, client, values>>
        /\ s \in Stream /\ client[s] = m
        /\ q # <<>> /\ q \in Seq(Responses)
        /\ responses' = [responses EXCEPT ![s] = Tail(q)]
        /\ \/ /\ acked' = [acked EXCEPT ![m][r.type] = r.snap.ver]
              /\ config' = [config EXCEPT ![m][r.type] = r.snap.content]
           \/ UNCHANGED <<acked, config>>
    BY <1>3 DEF Receive, cvars, stream, TurnInv, Ownership, ConnIsServed
  <2>2. /\ r \in Responses /\ 1 \in DOMAIN q /\ r = q[1]
        /\ \A i \in DOMAIN Tail(q) : i + 1 \in DOMAIN q /\ Tail(q)[i] = q[i + 1]
    <3> HIDE DEF q
    <3> QED
      BY <2>1, HeadTailProperties, LenProperties, EmptySeq
  <2>3. r.type \in Type /\ r.snap \in Snapshot
    BY <2>2 DEF Responses
  <2>4. ASSUME NEW p \in Stream, client[p] = n,
               NEW i \in DOMAIN responses'[p], responses'[p][i].snap = x
        PROVE  Holds(n, x)
    <3>1. CASE p = s
      <4>1. responses'[p] = Tail(q)
        BY <2>1, <3>1
      <4>2. i + 1 \in DOMAIN responses[p] /\ responses[p][i + 1].snap = x
        BY <2>2, <2>4, <3>1, <4>1
      <4> QED
        BY <2>4, <4>2 DEF Holds
    <3>2. CASE p # s
      <4>1. responses'[p] = responses[p]
        BY <2>1, <3>2
      <4> QED
        BY <2>4, <4>1 DEF Holds
    <3> QED
      BY <3>1, <3>2
  <2>5. ASSUME NEW t \in Type, acked'[n][t] = x.ver, config'[n][t] = x.content
        PROVE  Holds(n, x)
    <3>1. CASE acked'[n][t] = acked[n][t] /\ config'[n][t] = config[n][t]
      BY <2>5, <3>1 DEF Holds
    <3>2. CASE /\ n = m /\ t = r.type
               /\ acked'[n][t] = r.snap.ver /\ config'[n][t] = r.snap.content
      <4>1. r.snap = x
        <5> HIDE DEF r
        <5>1. r.snap.ver = x.ver /\ r.snap.content = x.content
          BY <2>5, <3>2
        <5> QED
          BY <2>3, <5>1, SameSnapshot
      <4> HIDE DEF q
      <4>2. client[s] = n /\ 1 \in DOMAIN q /\ q[1].snap = x
        BY <2>1, <2>2, <3>2, <4>1
      <4> QED
        BY <2>1, <4>2 DEF Holds, q
    <3> HIDE DEF r
    <3> QED
      BY <2>1, <3>1, <3>2
  <2> QED
    BY <2>1, <2>4, <2>5 DEF Holds
<1>4. ASSUME NEW m \in Node, Leave(m), \/ UNCHANGED <<acked, config>>
                                      \/ EnvoyRestart(m)
      PROVE  Holds(n, x)
  <2>1. /\ UNCHANGED <<snapshots, chan, client, values>>
        /\ \A s \in Stream : responses'[s] = <<>> \/ responses'[s] = responses[s]
    BY <1>4 DEF Leave, cvars, stream
  <2>2. ASSUME NEW t \in Type, acked'[n][t] = x.ver, config'[n][t] = x.content
        PROVE  Holds(n, x)
    <3>1. x.ver # NoVersion
      BY CacheAssumption DEF Snapshot
    <3>2. acked'[n][t] = acked[n][t] /\ config'[n][t] = config[n][t]
      <4>1. CASE UNCHANGED <<acked, config>>
        BY <4>1
      <4>2. CASE EnvoyRestart(m)
        <5>1. n # m
          BY <2>2, <3>1, <4>2 DEF EnvoyRestart
        <5> QED
          BY <4>2, <5>1 DEF EnvoyRestart
      <4> QED
        BY <1>4, <4>1, <4>2
    <3> QED
      BY <2>2, <3>2 DEF Holds
  <2>3. ASSUME NEW s \in Stream, client[s] = n,
               NEW i \in DOMAIN responses'[s], responses'[s][i].snap = x
        PROVE  Holds(n, x)
    <3>1. responses'[s] = responses[s]
      BY <2>1, <2>3
    <3> QED
      BY <2>3, <3>1 DEF Holds
  <2> QED
    BY <2>1, <2>2, <2>3 DEF Holds
<1> QED
  BY <1>1, <1>2, <1>3, <1>4 DEF Envoy, Converse, Break, EnvoyRestart

LEMMA RestartHolds ==
    ASSUME TurnInv, ServerRestart, NEW n \in Node, NEW x \in Snapshot, Holds(n, x)'
    PROVE  Holds(n, x)
<1>1. x # Nil
  BY CacheAssumption
<1> QED
  BY <1>1 DEF ServerRestart, NewServer, Holds

\* A snapshot that is set is held by its node, and nothing else is new.
LEMMA PublishHolds ==
    ASSUME TurnInv, NEW p \in Node, NEW snap \in Snapshot, Publish(p, snap),
           NEW n \in Node, NEW x \in Snapshot, Holds(n, x)'
    PROVE  Holds(n, x) \/ (n = p /\ x = snap)
<1> USE TurnTypes DEF CTypeOK, StreamTypeOK
<1>1. /\ snapshots' = [snapshots EXCEPT ![p] = snap]
      /\ chan' = [id \in WatchId |->
            IF \E w \in Triggered(p, snap.ver) : w.id = id THEN snap ELSE chan[id]]
      /\ UNCHANGED <<client, values, responses, acked, config>>
  BY DEF Publish, SetSnapshot, stream, wire, envoy
<1>2. ASSUME NEW s \in Stream, NEW t \in Type, client[s] = n,
             values[s][t] # Nil, chan'[values[s][t]] = x
      PROVE  Holds(n, x) \/ (n = p /\ x = snap)
  <2>1. values[s][t] \in WatchId
    BY <1>2
  <2>2. CASE chan'[values[s][t]] = chan[values[s][t]]
    BY <1>2, <2>2 DEF Holds
  <2>3. ASSUME NEW w \in Triggered(p, snap.ver), w.id = values[s][t]
        PROVE  n = p /\ x = snap
    <3>1. w \in watches /\ w.node = p
      BY DEF Triggered
    <3>2. w.node = client[s]
      BY <2>3, <3>1, WatchOwner
    <3> QED
      BY <1>1, <1>2, <2>1, <2>3, <3>1, <3>2
  <2> QED
    BY <1>1, <2>1, <2>2, <2>3
<1> QED
  BY <1>1, <1>2 DEF Holds

-----------------------------------------------------------------------------

\* A step after which nothing else is known keeps the invariant.
LEMMA NothingNew ==
    ASSUME ContentInv, version' = version, PodsMatch',
           \A n \in Node, x \in Snapshot : Known(n, x)' => Known(n, x)
    PROVE  ContentInv'
BY DEF ContentInv, OneContent, Dated

\* A step outside of the streams.
LEMMA SameHolds ==
    ASSUME UNCHANGED avars, NEW n, NEW x
    PROVE  Holds(n, x)' <=> Holds(n, x)
BY DEF avars, cvars, stream, wire, envoy, Holds

LEMMA AsksOfTail ==
    ASSUME NEW rules \in Seq(Rule), rules # <<>>, NEW ver, NEW n, NEW x,
           Asks(ver, Tail(rules), n, x)
    PROVE  Asks(ver, rules, n, x)
<1>1. \A i \in DOMAIN Tail(rules) : /\ i + 1 \in DOMAIN rules
                                    /\ Tail(rules)[i] = rules[i + 1]
  BY HeadTailProperties, LenProperties
<1> QED
  BY <1>1 DEF Asks

LEMMA DoneAsksNothing == \A n, x : ~Asks(Done.ver, Done.rules, n, x)
BY DEF Asks, Done

\* The one step that makes something new known: a version that no one has yet,
\* with one content for each node.
LEMMA ConfigureContent ==
    ASSUME DiscoveryInv, ContentInv,
           NEW c \in Conf, NEW rules \in Rules, Configure(c, rules)
    PROVE  ContentInv'
<1>1. /\ UNCHANGED <<avars, lister, todo>>
      /\ version' = version + 1 /\ version \in Nat
      /\ \A d \in Conf : apiConf'[d] = IF d = c THEN [ver |-> version', rules |-> rules]
                                       ELSE apiConf[d]
  BY DEF Configure, UserStep, listers, DiscoveryInv
<1>2. ASSUME NEW n \in Node, NEW x \in Snapshot, Known(n, x)'
      PROVE  \/ Known(n, x) /\ x.ver <= version
             \/ Asks(version', rules, n, x) /\ x.ver = version'
  <2>1. Known(n, x) => x.ver <= version
    BY DEF ContentInv, Dated
  <2>2. CASE Holds(n, x)'
    BY <1>1, <2>1, <2>2, SameHolds DEF Known
  <2>3. CASE Wanted(n, x)'
    <3>1. \/ Wanted(n, x)
          \/ Asks(version', rules, n, x)
      BY <1>1, <2>3 DEF Wanted, Asks
    <3> QED
      BY <2>1, <3>1 DEF Known, Asks
  <2> QED
    BY <1>2, <2>2, <2>3 DEF Known
<1>3. Dated'
  <2> SUFFICES ASSUME NEW n \in Node, NEW x \in Snapshot, Known(n, x)'
               PROVE  x.ver <= version'
    BY DEF Dated
  <2>1. x.ver \in Nat
    BY CacheAssumption DEF Snapshot
  <2> QED
    BY <1>1, <1>2, <2>1
<1>4. ASSUME DisjointRules
      PROVE  OneContent'
  <2> SUFFICES ASSUME NEW n \in Node, NEW x \in Snapshot, NEW y \in Snapshot,
                      Known(n, x)', Known(n, y)', x.ver = y.ver
               PROVE  x.content = y.content
    BY DEF OneContent
  <2>1. x.ver \in Nat /\ y.ver \in Nat
    BY CacheAssumption DEF Snapshot
  <2>2. CASE Known(n, x) /\ Known(n, y)
    BY <1>4, <2>2 DEF ContentInv, OneContent
  <2>3. CASE Asks(version', rules, n, x) /\ Asks(version', rules, n, y)
    BY <1>4, <2>3 DEF Asks, DisjointRules
  <2> QED
    BY <1>1, <1>2, <2>1, <2>2, <2>3
<1>5. PodsMatch'
  BY <1>1 DEF ContentInv, PodsMatch
<1> QED
  BY <1>3, <1>4, <1>5 DEF ContentInv

\* The informers and the users' other steps spread what the API server has.
LEMMA KubeContent ==
    ASSUME DiscoveryInv, ContentInv, UNCHANGED <<avars, todo, version>>,
           \A c \in Conf : apiConf'[c] # Nil => apiConf'[c] = apiConf[c],
           \A c \in Conf : lister'[c] # Nil => lister'[c] \in {lister[c], apiConf[c]}
    PROVE  ContentInv'
<1>1. ASSUME NEW n \in Node, NEW x \in Snapshot, Known(n, x)'
      PROVE  Known(n, x)
  <2>1. Wanted(n, x)' => Wanted(n, x)
    BY DEF Wanted
  <2> QED
    BY <1>1, <2>1, SameHolds DEF Known
<1>2. PodsMatch'
  BY DEF ContentInv, PodsMatch
<1> QED
  BY <1>1, <1>2, NothingNew

LEMMA HandlerContent ==
    ASSUME TurnInv, DiscoveryInv, ContentInv, Handler
    PROVE  ContentInv'
<1>1. UNCHANGED <<kube, listers>> /\ UNCHANGED <<apiConf, lister, version>>
  BY DEF Handler, NextRule, Update, SetPod, HandlerStep, kube, listers
<1>2. ASSUME UNCHANGED avars, PodsMatch',
             \A n \in Node, x \in Snapshot :
                Asks(todo'.ver, todo'.rules, n, x) => Wanted(n, x)
      PROVE  ContentInv'
  <2>1. ASSUME NEW n \in Node, NEW x \in Snapshot, Known(n, x)'
        PROVE  Known(n, x)
    BY <1>1, <1>2, <2>1, SameHolds DEF Known, Wanted
  <2> QED
    BY <1>1, <1>2, <2>1, NothingNew
<1>3. ASSUME UNCHANGED avars, todo' = Done
      PROVE  ContentInv'
  <2>1. PodsMatch'
    BY <1>3 DEF PodsMatch, Done
  <2> QED
    BY <1>2, <1>3, <2>1, DoneAsksNothing
<1>4. CASE NextRule
  <2>1. UNCHANGED avars
    BY <1>4 DEF NextRule, HandlerStep, avars
  <2>2. /\ todo.rules \in Seq(Rule)
        /\ todo' = Done \/ (Len(todo.rules) > 1
                            /\ todo' = Rest(todo.ver, Tail(todo.rules)))
    BY <1>4 DEF NextRule, DiscoveryInv, Todo
  <2>3. ASSUME Len(todo.rules) > 1, todo' = Rest(todo.ver, Tail(todo.rules))
        PROVE  ContentInv'
    <3>1. todo.rules # <<>> /\ todo'.ver = todo.ver /\ todo'.rules = Tail(todo.rules)
      BY <2>2, <2>3, EmptySeq DEF Rest
    <3>2. PodsMatch'
      BY <2>3 DEF PodsMatch, Rest
    <3>3. ASSUME NEW n \in Node, NEW x \in Snapshot, Asks(todo'.ver, todo'.rules, n, x)
          PROVE  Wanted(n, x)
      BY <2>2, <3>1, <3>3, AsksOfTail DEF Wanted
    <3> QED
      BY <1>2, <2>1, <3>2, <3>3
  <2> QED
    BY <1>3, <2>1, <2>2, <2>3
<1>5. ASSUME NEW c \in Conf, Update(c)
      PROVE  ContentInv'
  <2>1. UNCHANGED avars
    BY <1>5 DEF Update, HandlerStep, avars
  <2>2. ASSUME lister[c] # Nil, todo' = Rest(lister[c].ver, lister[c].rules)
        PROVE  ContentInv'
    <3>1. PodsMatch'
      BY <2>2 DEF PodsMatch, Rest
    <3>2. ASSUME NEW n \in Node, NEW x \in Snapshot, Asks(todo'.ver, todo'.rules, n, x)
          PROVE  Wanted(n, x)
      BY <2>2, <3>2 DEF Wanted, Rest
    <3> QED
      BY <1>2, <2>1, <3>1, <3>2
  <2> QED
    BY <1>3, <1>5, <2>1, <2>2 DEF Update
<1>6. ASSUME NEW p \in Node, SetPod(p)
      PROVE  ContentInv'
  <2> DEFINE snap == [ver |-> todo.ver, content |-> Head(todo.rules).content]
  <2>1. todo \in Todo /\ todo.rules # <<>> /\ todo.rules \in Seq(Rule)
    BY <1>6 DEF SetPod, DiscoveryInv, Done, Todo
  <2>2. Head(todo.rules) \in Rule /\ 1 \in DOMAIN todo.rules
        /\ Head(todo.rules) = todo.rules[1]
    BY <2>1, HeadTailProperties, LenProperties, EmptySeq
  <2>3. snap \in Snapshot
    BY <2>1, <2>2 DEF Snapshot, Rule, Todo
  <2>4. Publish(p, snap)
    BY <1>6 DEF SetPod, HandlerStep, Publish
  <2>5. p \in Head(todo.rules).match
    BY <1>6 DEF SetPod, ContentInv, PodsMatch
  <2>6. Wanted(p, snap)
    BY <2>2, <2>5 DEF Wanted, Asks
  <2>7. todo'.ver = todo.ver /\ todo'.rules = todo.rules /\ todo'.pods \subseteq todo.pods
    BY <1>6, <2>1 DEF SetPod, Todo
  <2> HIDE DEF snap
  <2>8. ASSUME NEW n \in Node, NEW x \in Snapshot, Known(n, x)'
        PROVE  Known(n, x)
    <3>1. Holds(n, x)' => Known(n, x)
      BY <2>3, <2>4, <2>6, PublishHolds DEF Known
    <3>2. Wanted(n, x)' => Wanted(n, x)
      BY <1>1, <2>7 DEF Wanted
    <3> QED
      BY <2>8, <3>1, <3>2 DEF Known
  <2>9. PodsMatch'
    BY <1>6, <2>7 DEF PodsMatch, ContentInv, SetPod
  <2> QED
    BY <1>1, <2>8, <2>9, NothingNew
<1> QED
  BY <1>4, <1>5, <1>6 DEF Handler

LEMMA StreamsContent ==
    ASSUME TurnInv, ContentInv, Streams
    PROVE  ContentInv'
<1>1. (Server \/ Envoy) /\ UNCHANGED <<apiConf, lister, todo, version>>
  BY DEF Streams, Listen, Envoy, Outside, kube, listers
<1>2. ASSUME NEW n \in Node, NEW x \in Snapshot, Known(n, x)'
      PROVE  Known(n, x)
  <2>1. Holds(n, x)' => Holds(n, x)
    BY <1>1, ServerHolds, EnvoyHolds
  <2>2. Wanted(n, x)' => Wanted(n, x)
    BY <1>1 DEF Wanted
  <2> QED
    BY <1>2, <2>1, <2>2 DEF Known
<1>3. PodsMatch'
  BY <1>1 DEF ContentInv, PodsMatch
<1> QED
  BY <1>1, <1>2, <1>3, NothingNew

LEMMA RestartContent ==
    ASSUME TurnInv, ContentInv, DiscoveryRestart
    PROVE  ContentInv'
<1>1. /\ ServerRestart /\ UNCHANGED <<apiConf, version>>
      /\ todo' = Done /\ \A c \in Conf : lister'[c] = Nil
  BY DEF DiscoveryRestart, kube
<1>2. ASSUME NEW n \in Node, NEW x \in Snapshot, Known(n, x)'
      PROVE  Known(n, x)
  <2>1. Wanted(n, x)' => Wanted(n, x)
    BY <1>1, DoneAsksNothing DEF Wanted
  <2> QED
    BY <1>1, <1>2, <2>1, RestartHolds DEF Known
<1>3. PodsMatch'
  BY <1>1 DEF PodsMatch, Done
<1> QED
  BY <1>1, <1>2, <1>3, NothingNew

LEMMA StepContent ==
    TurnInv /\ DiscoveryInv /\ ContentInv /\ [DNext]_dvars => ContentInv'
<1> SUFFICES ASSUME TurnInv, DiscoveryInv, ContentInv, [DNext]_dvars
             PROVE  ContentInv'
  OBVIOUS
<1>1. ASSUME NEW c \in Conf, DeleteConfiguration(c)
      PROVE  ContentInv'
  BY <1>1, KubeContent DEF DeleteConfiguration, UserStep, listers, DiscoveryInv
<1>2. ASSUME NEW p \in Node, MovePod(p)
      PROVE  ContentInv'
  BY <1>2, KubeContent DEF MovePod, UserStep, listers
<1>3. CASE Informers
  <2>1. ASSUME NEW c \in Conf, LearnConfiguration(c)
        PROVE  ContentInv'
    BY <2>1, KubeContent DEF LearnConfiguration, InformerStep, kube, DiscoveryInv
  <2> QED
    BY <1>3, <2>1, KubeContent
       DEF Informers, ListConfigurations, ListPods, Resync, LearnPod, InformerStep,
           kube, listers
<1>4. CASE UNCHANGED dvars
  BY <1>4, KubeContent DEF dvars, kube, listers
<1> QED
  BY <1>1, <1>2, <1>3, <1>4, ConfigureContent, HandlerContent, StreamsContent,
     RestartContent DEF DNext, Users

LEMMA InitContent == DInit => ContentInv
<1> SUFFICES ASSUME DInit
             PROVE  ContentInv
  OBVIOUS
<1> USE DEF DInit, AInit, CInit
<1>1. ASSUME NEW n \in Node, NEW x \in Snapshot
      PROVE  ~Known(n, x)
  <2>1. ~Wanted(n, x)
    BY DoneAsksNothing DEF Wanted
  <2>2. x # Nil /\ x.ver # NoVersion
    BY CacheAssumption DEF Snapshot
  <2>3. ~Holds(n, x)
    BY <2>2 DEF Holds
  <2> QED
    BY <2>1, <2>3 DEF Known
<1> QED
  BY <1>1 DEF ContentInv, OneContent, Dated, PodsMatch, Done

\* An Envoy that has accepted a version has a content.
AcceptedIsUsed ==
    \A n \in Node, t \in Type :
       acked[n][t] # NoVersion => config[n][t] \in Content

LEMMA StepAccepted ==
    TurnInv /\ AcceptedIsUsed /\ [ANext]_avars => AcceptedIsUsed'
<1> SUFFICES ASSUME TurnInv, AcceptedIsUsed, [ANext]_avars
             PROVE  AcceptedIsUsed'
  OBVIOUS
<1> USE TurnTypes DEF EnvoyTypeOK, WireTypeOK
<1>1. ASSUME UNCHANGED <<acked, config>>
      PROVE  AcceptedIsUsed'
  BY <1>1 DEF AcceptedIsUsed
<1>2. ASSUME NEW m \in Node, Receive(m)
      PROVE  AcceptedIsUsed'
  <2> DEFINE r == Head(responses[conn[m]])
  <2>1. /\ conn[m] \in Stream /\ responses[conn[m]] # <<>>
        /\ \/ /\ acked' = [acked EXCEPT ![m][r.type] = r.snap.ver]
              /\ config' = [config EXCEPT ![m][r.type] = r.snap.content]
           \/ UNCHANGED <<acked, config>>
    BY <1>2 DEF Receive
  <2>2. r \in Responses
    BY <2>1, HeadTailProperties
  <2>3. r.type \in Type /\ r.snap.content \in Content
    BY <2>2 DEF Responses, Snapshot
  <2> HIDE DEF r
  <2>4. ASSUME NEW n \in Node, NEW t \in Type, acked'[n][t] # NoVersion
        PROVE  config'[n][t] \in Content
    <3>1. CASE config'[n][t] = config[n][t] /\ acked'[n][t] = acked[n][t]
      BY <2>4, <3>1 DEF AcceptedIsUsed
    <3>2. CASE config'[n][t] = r.snap.content
      BY <2>3, <3>2
    <3> QED
      BY <2>1, <2>3, <3>1, <3>2
  <2> QED
    BY <2>4 DEF AcceptedIsUsed
<1>3. ASSUME NEW m \in Node, EnvoyRestart(m)
      PROVE  AcceptedIsUsed'
  BY <1>3 DEF EnvoyRestart, AcceptedIsUsed
<1>4. CASE Server
  BY <1>1, <1>4 DEF Server, Handle, Close, Respond, envoy
<1>5. CASE Envoy
  BY <1>1, <1>2, <1>3, <1>5 DEF Envoy, Converse, Subscribe, Break, Connect
<1>6. CASE ServerRestart
  BY <1>1, <1>6 DEF ServerRestart
<1>7. ASSUME NEW n \in Node, NEW snap \in Snapshot, Publish(n, snap)
      PROVE  AcceptedIsUsed'
  BY <1>1, <1>7 DEF Publish, envoy
<1>8. CASE UNCHANGED avars
  BY <1>1, <1>8 DEF avars, envoy
<1> QED
  BY <1>4, <1>5, <1>6, <1>7, <1>8 DEF ANext

\* If no two rules of one Configuration match the same pod, an Envoy that the
\* cache keeps waiting uses the content of the latest snapshot of its node: it
\* has accepted a snapshot of that version, and one version has one content.
THEOREM WaitingEnvoysAreCurrent == DSpec => [](DisjointRules => WaitingHasLatest)
<1>1. ATypeOK /\ WaitingHasAcked /\ AcceptedIsUsed /\ ContentInv => (DisjointRules => WaitingHasLatest)
  <2> SUFFICES ASSUME ATypeOK, WaitingHasAcked, AcceptedIsUsed, ContentInv,
                      DisjointRules,
                      NEW n \in Node, NEW t \in Type,
                      conn[n] # Nil, OpenWatches(conn[n], t) # {}, snapshots[n] # Nil
               PROVE  config[n][t] = snapshots[n].content
    BY DEF WaitingHasLatest
  <2> DEFINE x == snapshots[n]
             y == [ver |-> x.ver, content |-> config[n][t]]
  <2>1. x \in Snapshot /\ x.ver = acked[n][t]
    BY DEF ATypeOK, CTypeOK, WaitingHasAcked, UpToDate
  <2>2. config[n][t] \in Content
    BY <2>1, CacheAssumption DEF Snapshot, AcceptedIsUsed
  <2>3. y \in Snapshot /\ Known(n, x) /\ Known(n, y)
    BY <2>1, <2>2 DEF Snapshot, Known, Holds
  <2> QED
    BY <2>1, <2>3 DEF ContentInv, OneContent
<1>2. AInit => AcceptedIsUsed
  BY DEF AInit, AcceptedIsUsed
<1> QED
  BY <1>1, <1>2, InitDiscovery, StepDiscovery, InitContent, StepContent, StepAccepted,
     DiscoveryUsesAdsServer, TurnInvariant, AdsTypeCorrect, WaitingEnvoysHaveAcked, PTL
     DEF DSpec, UsesAdsServer, ASpec
=============================================================================
