------------------------------ MODULE AdsServer ------------------------------
(***************************************************************************)
(* The ADS server (go-control-plane's pkg/server/server.go) between the    *)
(* snapshot cache and the Envoys.  One goroutine per stream runs process:  *)
(* it selects among the channels of its watches and the requests of the    *)
(* stream.  The Envoys and gRPC are the environment: an Envoy has at most  *)
(* one stream, but the server may still serve one that it has left.        *)
(***************************************************************************)
EXTENDS SnapshotCache, Sequences, FiniteSets

CONSTANTS
    Stream,      \* bound: streams the server serves at once
    Rejected,    \* contents that Envoy rejects
    MaxNonce,    \* bound: responses on one stream
    MaxBreaks    \* bound: broken streams, restarts of Envoys and of the server

ASSUME AdsAssumption ==
    /\ Nil \notin Stream
    /\ Rejected \subseteq Content
    /\ MaxNonce \in Nat /\ MaxBreaks \in Nat

VARIABLES
    client,        \* client[s]: the node whose stream s is, or Nil
    values,        \* values[s][t]: the channel of the watch, or Nil
    cancel,        \* cancel[s][t]: the watch its cancel function removes, or Nil
    nonce,         \* nonce[s][t]: the nonce of the last response, or 0
    streamNonce,   \* streamNonce[s]: responses sent on the stream
    requests,      \* requests[s]: sent by the Envoy, not selected yet
    responses,     \* responses[s]: sent by the server, not received yet
    conn,          \* conn[n]: the stream of Envoy n, or Nil
    subscribed,    \* subscribed[n]: the types Envoy n requested on it
    acked,         \* acked[n][t]: the version Envoy n accepted last
    config,        \* config[n][t]: the content Envoy n uses, or Nil
    breaks

stream == <<client, values, cancel, nonce, streamNonce>>
wire == <<requests, responses>>
envoy == <<conn, subscribed, acked, config>>
avars == <<cvars, stream, wire, envoy, breaks>>

Request(t, v, x) == [type |-> t, ver |-> v, nonce |-> x]
Response(t, snap, x) == [type |-> t, snap |-> snap, nonce |-> x]

-----------------------------------------------------------------------------
(* The server.                                                               *)

\* The channels that a stream or an open watch refers to.
InUse == {w.id : w \in watches} \cup {values[s][t] : s \in Stream, t \in Type}

NewChannel == CHOOSE id \in WatchId : id \notin InUse

\* Mutant: a request must name the last nonce of the stream, of any type.
AcceptsStreamNonce(s, req) ==
    nonce[s][req.type] = 0 \/ streamNonce[s] = req.nonce

\* The server ignores a request that answers an older response.
Accepts(s, req) == nonce[s][req.type] = 0 \/ nonce[s][req.type] = req.nonce

\* process selects the request channel.
Handle(s) ==
    /\ client[s] # Nil /\ requests[s] # <<>>
    /\ requests' = [requests EXCEPT ![s] = Tail(@)]
    /\ LET req == Head(requests[s])
           t == req.type
       IN  \/ /\ ~Accepts(s, req)
              /\ UNCHANGED <<watches, chan, values, cancel>>
           \/ /\ Accepts(s, req)
              /\ ~(WatchId \subseteq InUse)
              /\ CreateWatch(Cancel({cancel[s][t]}), NewChannel, client[s], t,
                             req.ver)
              /\ values' = [values EXCEPT ![s][t] = NewChannel]
              /\ cancel' = [cancel EXCEPT ![s][t] =
                    IF UpToDate(client[s], req.ver) THEN NewChannel ELSE Nil]
    /\ UNCHANGED <<snapshots, client, nonce, streamNonce, responses, envoy,
                   breaks>>

\* Mutant: process sends without waiting for the channel.
RespondEmpty(s, t) ==
    /\ values[s][t] # Nil
    /\ conn[client[s]] = s
    /\ streamNonce[s] < MaxNonce
    /\ chan' = [chan EXCEPT ![values[s][t]] = Nil]
    /\ streamNonce' = [streamNonce EXCEPT ![s] = @ + 1]
    /\ nonce' = [nonce EXCEPT ![s][t] = streamNonce[s] + 1]
    /\ responses' = [responses EXCEPT ![s] =
          Append(@, Response(t, chan[values[s][t]], streamNonce[s] + 1))]
    /\ UNCHANGED <<snapshots, watches, client, values, cancel, requests, envoy,
                   breaks>>

\* process selects the channel of type t and sends what is in it.
Respond(s, t) ==
    /\ values[s][t] # Nil /\ chan[values[s][t]] # Nil
    /\ conn[client[s]] = s
    /\ streamNonce[s] < MaxNonce
    /\ chan' = [chan EXCEPT ![values[s][t]] = Nil]
    /\ streamNonce' = [streamNonce EXCEPT ![s] = @ + 1]
    /\ nonce' = [nonce EXCEPT ![s][t] = streamNonce[s] + 1]
    /\ responses' = [responses EXCEPT ![s] =
          Append(@, Response(t, chan[values[s][t]], streamNonce[s] + 1))]
    /\ UNCHANGED <<snapshots, watches, client, values, cancel, requests, envoy,
                   breaks>>

\* The state of a stream that is not served.
NoStream(s) ==
    /\ client' = [client EXCEPT ![s] = Nil]
    /\ values' = [values EXCEPT ![s] = [t \in Type |-> Nil]]
    /\ cancel' = [cancel EXCEPT ![s] = [t \in Type |-> Nil]]
    /\ nonce' = [nonce EXCEPT ![s] = [t \in Type |-> 0]]
    /\ streamNonce' = [streamNonce EXCEPT ![s] = 0]
    /\ requests' = [requests EXCEPT ![s] = <<>>]
    /\ responses' = [responses EXCEPT ![s] = <<>>]

\* Mutant: process returns without the deferred Cancel.
CloseLeaks(s) ==
    /\ client[s] # Nil /\ conn[client[s]] # s
    /\ chan' = [id \in WatchId |->
          IF \E t \in Type : values[s][t] = id THEN Nil ELSE chan[id]]
    /\ NoStream(s)
    /\ UNCHANGED <<snapshots, watches, envoy, breaks>>

\* Recv or Send fails on a stream that the Envoy has left: process returns,
\* and its deferred Cancel calls the cancel functions of all types.
Close(s) ==
    /\ client[s] # Nil /\ conn[client[s]] # s
    /\ watches' = Cancel({cancel[s][t] : t \in Type})
    /\ chan' = [id \in WatchId |->
          IF \E t \in Type : values[s][t] = id THEN Nil ELSE chan[id]]
    /\ NoStream(s)
    /\ UNCHANGED <<snapshots, envoy, breaks>>

Server == \E s \in Stream : \/ Handle(s) \/ Close(s)
                            \/ \E t \in Type : Respond(s, t)

-----------------------------------------------------------------------------
(* The Envoys.                                                               *)

Connect(n, s) ==
    /\ conn[n] = Nil /\ client[s] = Nil
    /\ conn' = [conn EXCEPT ![n] = s]
    /\ client' = [client EXCEPT ![s] = n]
    /\ UNCHANGED <<cvars, values, cancel, nonce, streamNonce, wire, subscribed,
                   acked, config, breaks>>

\* The first request of a type on a stream carries the version that the Envoy
\* accepted last, perhaps on an earlier stream.
Subscribe(n, t) ==
    /\ conn[n] # Nil /\ t \notin subscribed[n]
    /\ subscribed' = [subscribed EXCEPT ![n] = @ \cup {t}]
    /\ requests' = [requests EXCEPT ![conn[n]] =
                       Append(@, Request(t, acked[n][t], 0))]
    /\ UNCHANGED <<cvars, stream, responses, conn, acked, config, breaks>>

\* The Envoy applies a response and acknowledges it, or rejects it; either is
\* a request for the next one.
Receive(n) ==
    /\ conn[n] # Nil
    /\ responses[conn[n]] # <<>>
    /\ LET s == conn[n]
           r == Head(responses[s])
           t == r.type
       IN  /\ responses' = [responses EXCEPT ![s] = Tail(@)]
           /\ \/ /\ r.snap.content \notin Rejected
                 /\ acked' = [acked EXCEPT ![n][t] = r.snap.ver]
                 /\ config' = [config EXCEPT ![n][t] = r.snap.content]
              \/ /\ r.snap.content \in Rejected
                 /\ UNCHANGED <<acked, config>>
           /\ requests' = [requests EXCEPT ![s] =
                 Append(@, Request(t, acked'[n][t], r.nonce))]
    /\ UNCHANGED <<cvars, stream, conn, subscribed, breaks>>

\* Envoy n has no stream any more; the server may not have noticed.
Leave(n) ==
    /\ conn[n] # Nil
    /\ breaks < MaxBreaks
    /\ breaks' = breaks + 1
    /\ conn' = [conn EXCEPT ![n] = Nil]
    /\ subscribed' = [subscribed EXCEPT ![n] = {}]
    /\ responses' = [responses EXCEPT ![conn[n]] = <<>>]
    /\ UNCHANGED <<cvars, stream, requests>>

Break(n) == Leave(n) /\ UNCHANGED <<acked, config>>

EnvoyRestart(n) ==
    /\ Leave(n)
    /\ acked' = [acked EXCEPT ![n] = [t \in Type |-> NoVersion]]
    /\ config' = [config EXCEPT ![n] = [t \in Type |-> Nil]]

\* What an Envoy does on the stream it has.
Converse(n) ==
    \/ \E t \in Type : Subscribe(n, t)
    \/ Receive(n) \/ Break(n) \/ EnvoyRestart(n)

Envoy == \E n \in Node : Converse(n) \/ \E s \in Stream : Connect(n, s)

-----------------------------------------------------------------------------

\* The discovery process ends and a new one starts with an empty cache; the
\* Envoys keep what they have accepted.
NewServer ==
    /\ snapshots' = [n \in Node |-> Nil]
    /\ watches' = {}
    /\ chan' = [id \in WatchId |-> Nil]
    /\ client' = [s \in Stream |-> Nil]
    /\ values' = [s \in Stream |-> [t \in Type |-> Nil]]
    /\ cancel' = [s \in Stream |-> [t \in Type |-> Nil]]
    /\ nonce' = [s \in Stream |-> [t \in Type |-> 0]]
    /\ streamNonce' = [s \in Stream |-> 0]
    /\ requests' = [s \in Stream |-> <<>>]
    /\ responses' = [s \in Stream |-> <<>>]
    /\ conn' = [n \in Node |-> Nil]
    /\ subscribed' = [n \in Node |-> {}]

ServerRestart ==
    /\ breaks < MaxBreaks
    /\ breaks' = breaks + 1
    /\ NewServer
    /\ UNCHANGED <<acked, config>>

\* The discovery server sets the snapshot of a node: any one, here.
Publish(n, snap) ==
    /\ SetSnapshot(n, snap)
    /\ UNCHANGED <<stream, wire, envoy, breaks>>

AInit ==
    /\ CInit
    /\ client = [s \in Stream |-> Nil]
    /\ values = [s \in Stream |-> [t \in Type |-> Nil]]
    /\ cancel = [s \in Stream |-> [t \in Type |-> Nil]]
    /\ nonce = [s \in Stream |-> [t \in Type |-> 0]]
    /\ streamNonce = [s \in Stream |-> 0]
    /\ requests = [s \in Stream |-> <<>>]
    /\ responses = [s \in Stream |-> <<>>]
    /\ conn = [n \in Node |-> Nil]
    /\ subscribed = [n \in Node |-> {}]
    /\ acked = [n \in Node |-> [t \in Type |-> NoVersion]]
    /\ config = [n \in Node |-> [t \in Type |-> Nil]]
    /\ breaks = 0

ANext ==
    \/ Server \/ Envoy \/ ServerRestart
    \/ \E n \in Node, snap \in Snapshot : Publish(n, snap)

ASpec == AInit /\ [][ANext]_avars

-----------------------------------------------------------------------------

StreamTypeOK ==
    /\ client \in [Stream -> Node \cup {Nil}]
    /\ values \in [Stream -> [Type -> WatchId \cup {Nil}]]
    /\ cancel \in [Stream -> [Type -> WatchId \cup {Nil}]]
    /\ nonce \in [Stream -> [Type -> 0..MaxNonce]]
    /\ streamNonce \in [Stream -> 0..MaxNonce]

Requests == [type : Type, ver : Version \cup {NoVersion}, nonce : 0..MaxNonce]
Responses == [type : Type, snap : Snapshot, nonce : 1..MaxNonce]

WireTypeOK ==
    /\ requests \in [Stream -> Seq(Requests)]
    /\ responses \in [Stream -> Seq(Responses)]

EnvoyTypeOK ==
    /\ conn \in [Node -> Stream \cup {Nil}]
    /\ subscribed \in [Node -> SUBSET Type]
    /\ acked \in [Node -> [Type -> Version \cup {NoVersion}]]
    /\ config \in [Node -> [Type -> Content \cup {Nil}]]
    /\ breaks \in 0..MaxBreaks

ATypeOK == CTypeOK /\ StreamTypeOK /\ WireTypeOK /\ EnvoyTypeOK

\* No watch outlives its stream: an open watch is the one that a stream of its
\* node waits on, and the stream's cancel function removes it.
NoWatchLeaks ==
    \A w \in watches : \E s \in Stream :
       /\ client[s] = w.node
       /\ values[s][w.type] = w.id /\ cancel[s][w.type] = w.id

\* The turns of type t on stream s: whoever has one has to move next.
AcceptedRequests(s, t) ==
    {i \in DOMAIN requests[s] :
        requests[s][i].type = t /\ Accepts(s, requests[s][i])}

LastResponses(s, t) ==
    {i \in DOMAIN responses[s] :
        responses[s][i].type = t /\ responses[s][i].nonce = nonce[s][t]}

OpenWatches(s, t) == {w \in watches : w.id = values[s][t]}

Turns(s, t) ==
    Cardinality(AcceptedRequests(s, t)) + Cardinality(LastResponses(s, t))
    + Cardinality(OpenWatches(s, t))
    + (IF values[s][t] # Nil /\ chan[values[s][t]] # Nil THEN 1 ELSE 0)

\* Request and response alternate: for each type that an Envoy subscribed to
\* there is exactly one of a request that the server will accept, an open
\* watch, a response in the channel and one on its way.  None, and the Envoy
\* would never hear of a change again; two, and they would race.
OneTurn ==
    \A n \in Node : conn[n] # Nil =>
       \A t \in subscribed[n] : Turns(conn[n], t) = 1

\* An Envoy whose request waits in the cache has accepted the latest snapshot
\* of its node: no request waits with a version the Envoy does not have.
WaitingHasAcked ==
    \A n \in Node, t \in Type :
       conn[n] # Nil /\ OpenWatches(conn[n], t) # {} =>
          UpToDate(n, acked[n][t])

\* The snapshots of type t in a queue of responses.
Sent(q, t) == {q[i].snap : i \in {j \in DOMAIN q : q[j].type = t}}

\* The snapshots under way to Envoy n: in the channel of its stream, or sent.
UnderWay(n, t) ==
    LET s == conn[n]
    IN  IF s = Nil THEN {}
        ELSE (IF values[s][t] = Nil THEN {} ELSE {chan[values[s][t]]} \ {Nil})
             \cup Sent(responses[s], t)

\* The types for which a request of Envoy n waits in the cache.
Waits(n) == {t \in Type : conn[n] # Nil /\ OpenWatches(conn[n], t) # {}}

Accepted(n, t) == [ver |-> acked[n][t], content |-> config[n][t]]

D == INSTANCE Delivery
     WITH latest <- snapshots,
          mail <- [n \in Node |-> [t \in Type |-> UnderWay(n, t)]],
          waiting <- [n \in Node |-> Waits(n)],
          have <- [n \in Node |-> [t \in Type |-> Accepted(n, t)]]

\* Streams, watches, channels and nonces together are one mailbox for each
\* Envoy and type: snapshots arrive one at a time, in the order of publication;
\* a published one reaches every Envoy that waits, but none that has it.
RefinesDelivery == D!Spec
=============================================================================
