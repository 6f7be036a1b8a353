--------------------------- MODULE AdsServerProofs ---------------------------
(***************************************************************************)
(* Proofs about the snapshot cache and the ADS server, for every set of    *)
(* nodes, types, streams and channels, whatever the bounds on responses    *)
(* and breaks.                                                             *)
(***************************************************************************)
EXTENDS AdsServer, SequenceTheorems, TLAPS

-----------------------------------------------------------------------------
(* The watches.                                                              *)

\* A channel belongs to one watch.
OwnChannel == \A v, w \in watches : v.id = w.id => v = w

\* ChannelHasRoom is not inductive as it stands: SetSnapshot fills the channel
\* of a watch that it removes, and would fill that of one that it keeps if two
\* watches had a channel in common.
WatchInv ==
    /\ ATypeOK
    /\ ChannelHasRoom /\ WaitingIsUpToDate /\ NoWatchLeaks /\ OwnChannel

\* A fresh channel is none that a stream or an open watch refers to.
LEMMA NewChannelIsFresh ==
    ASSUME ~(WatchId \subseteq InUse)
    PROVE  NewChannel \in WatchId \ InUse
BY DEF NewChannel

LEMMA InitWatchInv == AInit => WatchInv
<1> SUFFICES ASSUME AInit
             PROVE  WatchInv
  OBVIOUS
<1> USE CacheAssumption, AdsAssumption DEF AInit, CInit
<1>1. CTypeOK
  BY DEF CTypeOK
<1>2. StreamTypeOK
  BY DEF StreamTypeOK
<1>3. WireTypeOK
  BY DEF WireTypeOK
<1>4. EnvoyTypeOK
  BY DEF EnvoyTypeOK, NoVersion
<1>5. ChannelHasRoom /\ WaitingIsUpToDate /\ NoWatchLeaks /\ OwnChannel
  BY DEF ChannelHasRoom, WaitingIsUpToDate, NoWatchLeaks, OwnChannel
<1> QED
  BY <1>1, <1>2, <1>3, <1>4, <1>5 DEF WatchInv, ATypeOK

\* The server's state that the watches hang on.
watchState == <<cvars, client, values, cancel>>

\* A step that leaves the watches and their streams alone.
LEMMA SameWatches ==
    ASSUME WatchInv, UNCHANGED watchState, ATypeOK'
    PROVE  WatchInv'
<1>1. ChannelHasRoom' /\ OwnChannel'
  BY DEF WatchInv, watchState, cvars, ChannelHasRoom, OwnChannel
<1>2. WaitingIsUpToDate'
  BY DEF WatchInv, watchState, cvars, WaitingIsUpToDate, UpToDate
<1>3. NoWatchLeaks'
  BY DEF WatchInv, watchState, cvars, NoWatchLeaks
<1> QED
  BY <1>1, <1>2, <1>3 DEF WatchInv

\* SetSnapshot fills the channels of the watches that it removes.
LEMMA SetSnapshotWatches ==
    ASSUME WatchInv, NEW n \in Node, NEW snap \in Snapshot,
           SetSnapshot(n, snap), UNCHANGED stream
    PROVE  /\ CTypeOK'
           /\ ChannelHasRoom' /\ WaitingIsUpToDate' /\ NoWatchLeaks' /\ OwnChannel'
<1> USE DEF SetSnapshot
<1>1. watches' \subseteq watches
  OBVIOUS
<1>2. CTypeOK'
  <2>1. snapshots' \in [Node -> Snapshot \cup {Nil}]
    BY DEF WatchInv, ATypeOK, CTypeOK
  <2>2. chan' \in [WatchId -> Snapshot \cup {Nil}]
    BY DEF WatchInv, ATypeOK, CTypeOK
  <2> QED
    BY <1>1, <2>1, <2>2 DEF WatchInv, ATypeOK, CTypeOK
<1>3. ChannelHasRoom'
  <2> SUFFICES ASSUME NEW w \in watches'
               PROVE  chan'[w.id] = Nil
    BY DEF ChannelHasRoom
  <2>1. w \in watches /\ w.id \in WatchId /\ chan[w.id] = Nil
    BY <1>1 DEF WatchInv, ATypeOK, CTypeOK, Watch, ChannelHasRoom
  <2>2. ~ \E v \in Triggered(n, snap.ver) : v.id = w.id
    BY <2>1 DEF WatchInv, OwnChannel, Triggered
  <2> QED
    BY <2>1, <2>2
<1>4. WaitingIsUpToDate'
  <2> SUFFICES ASSUME NEW w \in watches'
               PROVE  UpToDate(w.node, w.ver)'
    BY DEF WaitingIsUpToDate
  <2>1. w \in watches /\ w.node \in Node
    BY <1>1 DEF WatchInv, ATypeOK, CTypeOK, Watch
  <2>2. CASE w.node = n
    BY <2>1, <2>2 DEF Triggered, UpToDate, WatchInv, ATypeOK, CTypeOK
  <2>3. CASE w.node # n
    BY <2>1, <2>3 DEF UpToDate, WatchInv, WaitingIsUpToDate, ATypeOK, CTypeOK
  <2> QED
    BY <2>2, <2>3
<1>5. NoWatchLeaks'
  BY <1>1 DEF WatchInv, NoWatchLeaks, stream
<1>6. OwnChannel'
  BY <1>1 DEF WatchInv, OwnChannel
<1> QED
  BY <1>2, <1>3, <1>4, <1>5, <1>6

\* An accepted request: the watch of its type is cancelled, and the new one
\* waits on a channel of its own or is answered at once.
LEMMA HandleWatches ==
    ASSUME WatchInv, NEW s \in Stream, Handle(s)
    PROVE  WatchInv'
<1> DEFINE req == Head(requests[s])
           t == req.type
<1>0. /\ client[s] \in Node
      /\ requests[s] \in Seq(Requests) /\ requests[s] # <<>>
      /\ req \in Requests /\ Tail(requests[s]) \in Seq(Requests)
  BY HeadTailProperties DEF Handle, WatchInv, ATypeOK, StreamTypeOK, WireTypeOK
<1>1. t \in Type /\ req.ver \in Version \cup {NoVersion}
  BY <1>0 DEF Requests
<1>2. WireTypeOK'
  BY <1>0 DEF Handle, WatchInv, ATypeOK, WireTypeOK
<1>3. EnvoyTypeOK'
  BY DEF Handle, WatchInv, ATypeOK, EnvoyTypeOK, envoy
<1>4. CASE UNCHANGED <<watches, chan, values, cancel>>
  <2>1. UNCHANGED watchState
    BY <1>4 DEF Handle, watchState, cvars
  <2>2. CTypeOK' /\ StreamTypeOK'
    BY <2>1 DEF Handle, watchState, cvars, WatchInv, ATypeOK, CTypeOK, StreamTypeOK
  <2> QED
    BY <1>2, <1>3, <2>1, <2>2, SameWatches DEF ATypeOK
<1>5. ASSUME /\ ~(WatchId \subseteq InUse)
             /\ CreateWatch(Cancel({cancel[s][t]}), NewChannel, client[s], t, req.ver)
             /\ values' = [values EXCEPT ![s][t] = NewChannel]
             /\ cancel' = [cancel EXCEPT ![s][t] =
                   IF UpToDate(client[s], req.ver) THEN NewChannel ELSE Nil]
      PROVE  WatchInv'
  <2> DEFINE left == Cancel({cancel[s][t]})
             new == [id |-> NewChannel, node |-> client[s], type |-> t,
                     ver |-> req.ver]
  <2>1. /\ NewChannel \in WatchId
        /\ \A w \in watches : w.id # NewChannel
        /\ \A r \in Stream, u \in Type : values[r][u] # NewChannel
    BY <1>5, NewChannelIsFresh DEF InUse
  <2>2. left \subseteq watches /\ \A w \in left : w.id # cancel[s][t]
    BY DEF Cancel
  <2>3. new \in Watch
    BY <1>0, <1>1, <2>1 DEF Watch
  <2>4. UNCHANGED <<snapshots, client, nonce, streamNonce>>
    BY DEF Handle
  <2>5. \/ /\ UpToDate(client[s], req.ver)
           /\ watches' = left \cup {new}
           /\ chan' = [chan EXCEPT ![NewChannel] = Nil]
        \/ /\ ~UpToDate(client[s], req.ver)
           /\ watches' = left
           /\ chan' = [chan EXCEPT ![NewChannel] = snapshots[client[s]]]
    BY <1>5 DEF CreateWatch
  <2> HIDE DEF left, new, req
  <2>6. CTypeOK' /\ StreamTypeOK'
    <3>1. watches' \in SUBSET Watch
      BY <2>2, <2>3, <2>5 DEF WatchInv, ATypeOK, CTypeOK
    <3>2. chan' \in [WatchId -> Snapshot \cup {Nil}]
      BY <1>0, <2>1, <2>5 DEF WatchInv, ATypeOK, CTypeOK
    <3>3. /\ values' \in [Stream -> [Type -> WatchId \cup {Nil}]]
          /\ cancel' \in [Stream -> [Type -> WatchId \cup {Nil}]]
      BY <1>1, <1>5, <2>1 DEF WatchInv, ATypeOK, StreamTypeOK
    <3> QED
      BY <2>4, <3>1, <3>2, <3>3 DEF WatchInv, ATypeOK, CTypeOK, StreamTypeOK
  <2>7. ChannelHasRoom'
    <3>1. \A w \in left : chan'[w.id] = Nil
      BY <2>1, <2>2, <2>5 DEF WatchInv, ChannelHasRoom, ATypeOK, CTypeOK, Watch
    <3>2. UpToDate(client[s], req.ver) => chan'[new.id] = Nil
      BY <2>1, <2>5 DEF new, WatchInv, ATypeOK, CTypeOK
    <3> QED
      BY <2>5, <3>1, <3>2 DEF ChannelHasRoom
  <2>8. WaitingIsUpToDate'
    <3>1. \A w \in left : UpToDate(w.node, w.ver)
      BY <2>2 DEF WatchInv, WaitingIsUpToDate
    <3>2. \A w \in watches' : UpToDate(w.node, w.ver)
      BY <2>5, <3>1 DEF new
    <3> QED
      BY <2>4, <3>2 DEF WaitingIsUpToDate, UpToDate
  <2>9. NoWatchLeaks'
    <3>1. ASSUME NEW w \in left
          PROVE  \E r \in Stream :
                    /\ client'[r] = w.node
                    /\ values'[r][w.type] = w.id /\ cancel'[r][w.type] = w.id
      <4>1. w \in watches /\ w.type \in Type /\ w.id # cancel[s][t]
        BY <2>2 DEF WatchInv, ATypeOK, CTypeOK, Watch
      <4>2. PICK r \in Stream : /\ client[r] = w.node
                                /\ values[r][w.type] = w.id
                                /\ cancel[r][w.type] = w.id
        BY <4>1 DEF WatchInv, NoWatchLeaks
      <4>3. r # s \/ w.type # t
        BY <4>1, <4>2
      <4>4. values'[r][w.type] = values[r][w.type] /\ cancel'[r][w.type] = cancel[r][w.type]
        BY <1>1, <1>5, <4>1, <4>2, <4>3 DEF WatchInv, ATypeOK, StreamTypeOK
      <4> QED
        BY <2>4, <4>2, <4>4
    <3>2. ASSUME UpToDate(client[s], req.ver)
          PROVE  \E r \in Stream :
                    /\ client'[r] = new.node
                    /\ values'[r][new.type] = new.id /\ cancel'[r][new.type] = new.id
      <4>1. values'[s][t] = NewChannel /\ cancel'[s][t] = NewChannel
        BY <1>1, <1>5, <3>2 DEF WatchInv, ATypeOK, StreamTypeOK
      <4> QED
        BY <2>4, <4>1 DEF new
    <3> QED
      BY <2>5, <3>1, <3>2 DEF NoWatchLeaks
  <2>10. OwnChannel'
    BY <2>1, <2>2, <2>5 DEF new, WatchInv, OwnChannel
  <2> QED
    BY <1>2, <1>3, <2>6, <2>7, <2>8, <2>9, <2>10 DEF WatchInv, ATypeOK
<1> QED
  BY <1>4, <1>5 DEF Handle

\* A response leaves its channel empty.
LEMMA RespondWatches ==
    ASSUME WatchInv, NEW s \in Stream, NEW t \in Type, Respond(s, t)
    PROVE  WatchInv'
<1>1. /\ values[s][t] \in WatchId /\ chan[values[s][t]] \in Snapshot
      /\ streamNonce[s] + 1 \in 1..MaxNonce
  BY AdsAssumption DEF Respond, WatchInv, ATypeOK, CTypeOK, StreamTypeOK
<1>2. CTypeOK'
  BY DEF Respond, WatchInv, ATypeOK, CTypeOK
<1>3. StreamTypeOK'
  BY <1>1 DEF Respond, WatchInv, ATypeOK, StreamTypeOK
<1>4. WireTypeOK'
  <2>1. Response(t, chan[values[s][t]], streamNonce[s] + 1) \in Responses
    BY <1>1 DEF Response, Responses
  <2>2. Append(responses[s], Response(t, chan[values[s][t]], streamNonce[s] + 1))
           \in Seq(Responses)
    BY <2>1, AppendProperties DEF WatchInv, ATypeOK, WireTypeOK
  <2> QED
    BY <2>2 DEF Respond, WatchInv, ATypeOK, WireTypeOK
<1>5. EnvoyTypeOK'
  BY DEF Respond, WatchInv, ATypeOK, EnvoyTypeOK, envoy
<1>6. ChannelHasRoom' /\ OwnChannel'
  BY DEF Respond, WatchInv, ChannelHasRoom, OwnChannel, ATypeOK, CTypeOK, Watch
<1>7. WaitingIsUpToDate' /\ NoWatchLeaks'
  BY DEF Respond, WatchInv, WaitingIsUpToDate, UpToDate, NoWatchLeaks
<1> QED
  BY <1>2, <1>3, <1>4, <1>5, <1>6, <1>7 DEF WatchInv, ATypeOK

\* A stream that ends takes its watches with it, and nobody else's.
LEMMA CloseWatches ==
    ASSUME WatchInv, NEW s \in Stream, Close(s)
    PROVE  WatchInv'
<1> USE DEF Close, NoStream
<1>1. /\ watches' \subseteq watches
      /\ \A w \in watches', t \in Type : w.id # cancel[s][t]
  BY DEF Cancel
<1>2. CTypeOK'
  BY <1>1 DEF WatchInv, ATypeOK, CTypeOK
<1>3. StreamTypeOK'
  BY AdsAssumption DEF WatchInv, ATypeOK, StreamTypeOK
<1>4. WireTypeOK'
  BY DEF WatchInv, ATypeOK, WireTypeOK
<1>5. EnvoyTypeOK'
  BY DEF WatchInv, ATypeOK, EnvoyTypeOK, envoy
<1>6. ChannelHasRoom' /\ OwnChannel'
  BY <1>1 DEF WatchInv, ChannelHasRoom, OwnChannel, ATypeOK, CTypeOK, Watch
<1>7. WaitingIsUpToDate'
  BY <1>1 DEF WatchInv, WaitingIsUpToDate, UpToDate
<1>8. NoWatchLeaks'
  <2> SUFFICES ASSUME NEW w \in watches'
               PROVE  \E r \in Stream :
                         /\ client'[r] = w.node
                         /\ values'[r][w.type] = w.id
                         /\ cancel'[r][w.type] = w.id
    BY DEF NoWatchLeaks
  <2>1. w \in watches /\ w.type \in Type
    BY <1>1 DEF WatchInv, ATypeOK, CTypeOK, Watch
  <2>2. PICK r \in Stream : /\ client[r] = w.node
                            /\ values[r][w.type] = w.id
                            /\ cancel[r][w.type] = w.id
    BY <2>1 DEF WatchInv, NoWatchLeaks
  <2>3. r # s
    BY <1>1, <2>1, <2>2
  <2> QED
    BY <2>2, <2>3 DEF WatchInv, ATypeOK, StreamTypeOK
<1> QED
  BY <1>2, <1>3, <1>4, <1>5, <1>6, <1>7, <1>8 DEF WatchInv, ATypeOK

\* A stream that the server starts to serve had no client and no watch.
LEMMA ConnectWatches ==
    ASSUME WatchInv, NEW n \in Node, NEW s \in Stream, Connect(n, s)
    PROVE  WatchInv'
<1> USE DEF Connect
<1>1. ATypeOK'
  BY DEF WatchInv, ATypeOK, CTypeOK, StreamTypeOK, WireTypeOK, EnvoyTypeOK,
         cvars, wire
<1>2. ChannelHasRoom' /\ OwnChannel' /\ WaitingIsUpToDate'
  BY DEF WatchInv, ChannelHasRoom, OwnChannel, WaitingIsUpToDate, UpToDate, cvars
<1>3. NoWatchLeaks'
  <2> SUFFICES ASSUME NEW w \in watches
               PROVE  \E r \in Stream :
                         /\ client'[r] = w.node
                         /\ values[r][w.type] = w.id
                         /\ cancel[r][w.type] = w.id
    BY DEF NoWatchLeaks, cvars
  <2>1. w.node # Nil
    BY CacheAssumption DEF WatchInv, ATypeOK, CTypeOK, Watch
  <2>2. PICK r \in Stream : /\ client[r] = w.node
                            /\ values[r][w.type] = w.id
                            /\ cancel[r][w.type] = w.id
    BY DEF WatchInv, NoWatchLeaks
  <2>3. r # s
    BY <2>1, <2>2
  <2> QED
    BY <2>2, <2>3 DEF WatchInv, ATypeOK, StreamTypeOK
<1> QED
  BY <1>1, <1>2, <1>3 DEF WatchInv

\* What an Envoy does on its stream changes no watch.
LEMMA ConverseWatches ==
    ASSUME WatchInv, NEW n \in Node, Converse(n)
    PROVE  WatchInv'
<1>1. UNCHANGED <<cvars, stream>>
  BY DEF Converse, Subscribe, Receive, Break, EnvoyRestart, Leave
<1>2. CTypeOK' /\ StreamTypeOK' /\ UNCHANGED watchState
  BY <1>1 DEF WatchInv, ATypeOK, CTypeOK, StreamTypeOK, cvars, stream, watchState
<1>3. ASSUME NEW t \in Type, Subscribe(n, t)
      PROVE  WireTypeOK' /\ EnvoyTypeOK'
  <2>1. conn[n] \in Stream /\ Request(t, acked[n][t], 0) \in Requests
    BY <1>3, AdsAssumption
       DEF Subscribe, Request, Requests, WatchInv, ATypeOK, EnvoyTypeOK
  <2>2. Append(requests[conn[n]], Request(t, acked[n][t], 0)) \in Seq(Requests)
    BY <2>1, AppendProperties DEF WatchInv, ATypeOK, WireTypeOK
  <2>3. WireTypeOK'
    BY <1>3, <2>1, <2>2 DEF Subscribe, WatchInv, ATypeOK, WireTypeOK
  <2>4. EnvoyTypeOK'
    BY <1>3 DEF Subscribe, WatchInv, ATypeOK, EnvoyTypeOK
  <2> QED
    BY <2>3, <2>4
<1>4. ASSUME Receive(n)
      PROVE  WireTypeOK' /\ EnvoyTypeOK'
  <2> DEFINE s == conn[n]
             r == Head(responses[s])
             t == r.type
  <2>1. s \in Stream /\ responses[s] \in Seq(Responses) /\ responses[s] # <<>>
    BY <1>4 DEF Receive, WatchInv, ATypeOK, EnvoyTypeOK, WireTypeOK
  <2>2. r \in Responses /\ Tail(responses[s]) \in Seq(Responses)
    BY <2>1, HeadTailProperties
  <2>3. /\ t \in Type /\ r.snap \in Snapshot /\ r.nonce \in 0..MaxNonce
        /\ r.snap.ver \in Version /\ r.snap.content \in Content
    BY <2>2 DEF Responses, Snapshot
  <2>4. /\ \/ /\ acked' = [acked EXCEPT ![n][t] = r.snap.ver]
              /\ config' = [config EXCEPT ![n][t] = r.snap.content]
           \/ UNCHANGED <<acked, config>>
        /\ responses' = [responses EXCEPT ![s] = Tail(@)]
        /\ requests' = [requests EXCEPT ![s] =
              Append(@, Request(t, acked'[n][t], r.nonce))]
        /\ UNCHANGED <<conn, subscribed, breaks>>
    BY <1>4 DEF Receive
  <2> HIDE DEF r, t
  <2>5. /\ acked' \in [Node -> [Type -> Version \cup {NoVersion}]]
        /\ config' \in [Node -> [Type -> Content \cup {Nil}]]
    <3>1. CASE UNCHANGED <<acked, config>>
      BY <3>1 DEF WatchInv, ATypeOK, EnvoyTypeOK
    <3>2. CASE /\ acked' = [acked EXCEPT ![n][t] = r.snap.ver]
               /\ config' = [config EXCEPT ![n][t] = r.snap.content]
      <4>1. acked' \in [Node -> [Type -> Version \cup {NoVersion}]]
        BY <2>3, <3>2 DEF WatchInv, ATypeOK, EnvoyTypeOK
      <4>2. config' \in [Node -> [Type -> Content \cup {Nil}]]
        BY <2>3, <3>2 DEF WatchInv, ATypeOK, EnvoyTypeOK
      <4> QED
        BY <4>1, <4>2
    <3> QED
      BY <2>4, <3>1, <3>2
  <2>6. EnvoyTypeOK'
    BY <2>4, <2>5 DEF WatchInv, ATypeOK, EnvoyTypeOK
  <2>7. Request(t, acked'[n][t], r.nonce) \in Requests
    BY <2>3, <2>5 DEF Request, Requests
  <2>8. Append(requests[s], Request(t, acked'[n][t], r.nonce)) \in Seq(Requests)
    BY <2>1, <2>7, AppendProperties DEF WatchInv, ATypeOK, WireTypeOK
  <2>9. WireTypeOK'
    BY <2>1, <2>2, <2>4, <2>8 DEF WatchInv, ATypeOK, WireTypeOK
  <2> QED
    BY <2>6, <2>9
<1>5. ASSUME Break(n) \/ EnvoyRestart(n)
      PROVE  WireTypeOK' /\ EnvoyTypeOK'
  <2>1. Leave(n)
    BY <1>5 DEF Break, EnvoyRestart
  <2>2. /\ conn[n] \in Stream
        /\ responses' = [responses EXCEPT ![conn[n]] = <<>>]
        /\ UNCHANGED requests
    BY <2>1 DEF Leave, WatchInv, ATypeOK, EnvoyTypeOK
  <2>3. WireTypeOK'
    BY <2>2 DEF WatchInv, ATypeOK, WireTypeOK
  <2>4. /\ breaks' \in 0..MaxBreaks
        /\ conn' \in [Node -> Stream \cup {Nil}]
        /\ subscribed' \in [Node -> SUBSET Type]
    BY <2>1, AdsAssumption DEF Leave, WatchInv, ATypeOK, EnvoyTypeOK
  <2>5. /\ acked' \in [Node -> [Type -> Version \cup {NoVersion}]]
        /\ config' \in [Node -> [Type -> Content \cup {Nil}]]
    <3>1. CASE UNCHANGED <<acked, config>>
      BY <3>1 DEF WatchInv, ATypeOK, EnvoyTypeOK
    <3>2. CASE /\ acked' = [acked EXCEPT ![n] = [t \in Type |-> NoVersion]]
               /\ config' = [config EXCEPT ![n] = [t \in Type |-> Nil]]
      <4>1. /\ [t \in Type |-> NoVersion] \in [Type -> Version \cup {NoVersion}]
            /\ [t \in Type |-> Nil] \in [Type -> Content \cup {Nil}]
        OBVIOUS
      <4> QED
        BY <3>2, <4>1 DEF WatchInv, ATypeOK, EnvoyTypeOK
    <3> QED
      BY <1>5, <3>1, <3>2 DEF Break, EnvoyRestart
  <2>6. EnvoyTypeOK'
    BY <2>4, <2>5 DEF EnvoyTypeOK
  <2> QED
    BY <2>3, <2>6
<1>6. WireTypeOK' /\ EnvoyTypeOK'
  <2>1. CASE \E t \in Type : Subscribe(n, t)
    BY <1>3, <2>1
  <2> QED
    BY <1>4, <1>5, <2>1 DEF Converse
<1> QED
  BY <1>2, <1>6, SameWatches DEF ATypeOK

\* A new process has no watches.
LEMMA NewServerWatches ==
    ASSUME WatchInv, ServerRestart
    PROVE  WatchInv'
<1> USE CacheAssumption, AdsAssumption DEF ServerRestart, NewServer
<1>1. CTypeOK' /\ StreamTypeOK' /\ WireTypeOK'
  BY DEF CTypeOK, StreamTypeOK, WireTypeOK
<1>2. EnvoyTypeOK'
  BY DEF WatchInv, ATypeOK, EnvoyTypeOK
<1>3. ChannelHasRoom' /\ WaitingIsUpToDate' /\ NoWatchLeaks' /\ OwnChannel'
  BY DEF ChannelHasRoom, WaitingIsUpToDate, NoWatchLeaks, OwnChannel
<1> QED
  BY <1>1, <1>2, <1>3 DEF WatchInv, ATypeOK

LEMMA PublishWatches ==
    ASSUME WatchInv, NEW n \in Node, NEW snap \in Snapshot, Publish(n, snap)
    PROVE  WatchInv'
<1>1. /\ CTypeOK'
      /\ ChannelHasRoom' /\ WaitingIsUpToDate' /\ NoWatchLeaks' /\ OwnChannel'
  BY SetSnapshotWatches DEF Publish
<1>2. StreamTypeOK' /\ WireTypeOK' /\ EnvoyTypeOK'
  BY DEF Publish, stream, wire, envoy, WatchInv, ATypeOK, StreamTypeOK,
         WireTypeOK, EnvoyTypeOK
<1> QED
  BY <1>1, <1>2 DEF WatchInv, ATypeOK

LEMMA StepWatches == WatchInv /\ [ANext]_avars => WatchInv'
<1> SUFFICES ASSUME WatchInv, [ANext]_avars
             PROVE  WatchInv'
  OBVIOUS
<1>1. CASE Server
  BY <1>1, HandleWatches, CloseWatches, RespondWatches DEF Server
<1>2. CASE Envoy
  BY <1>2, ConverseWatches, ConnectWatches DEF Envoy
<1>3. CASE ServerRestart
  BY <1>3, NewServerWatches
<1>4. CASE \E n \in Node, snap \in Snapshot : Publish(n, snap)
  BY <1>4, PublishWatches
<1>5. CASE UNCHANGED avars
  <2>1. ATypeOK' /\ UNCHANGED watchState
    BY <1>5 DEF avars, cvars, stream, wire, envoy, watchState, WatchInv, ATypeOK,
       CTypeOK, StreamTypeOK, WireTypeOK, EnvoyTypeOK
  <2> QED
    BY <2>1, SameWatches
<1> QED
  BY <1>1, <1>2, <1>3, <1>4, <1>5 DEF ANext

THEOREM WatchInvariant == ASpec => []WatchInv
  BY InitWatchInv, StepWatches, PTL DEF ASpec

\* The variables of the ADS server and of its Envoys keep their types.
THEOREM AdsTypeCorrect == ASpec => []ATypeOK
<1>1. WatchInv => ATypeOK
  BY DEF WatchInv
<1> QED
  BY <1>1, WatchInvariant, PTL

\* SetSnapshot never blocks on a channel while it holds the cache's mutex.
THEOREM SetSnapshotNeverBlocks == ASpec => []ChannelHasRoom
<1>1. WatchInv => ChannelHasRoom
  BY DEF WatchInv
<1> QED
  BY <1>1, WatchInvariant, PTL

\* A request is kept waiting only if it has the version of the snapshot.
THEOREM NobodyWaitsBehind == ASpec => []WaitingIsUpToDate
<1>1. WatchInv => WaitingIsUpToDate
  BY DEF WatchInv
<1> QED
  BY <1>1, WatchInvariant, PTL

\* No watch outlives the stream that waits on it.
THEOREM WatchesDoNotLeak == ASpec => []NoWatchLeaks
<1>1. WatchInv => NoWatchLeaks
  BY DEF WatchInv
<1> QED
  BY <1>1, WatchInvariant, PTL
=============================================================================
