---------------------------- MODULE AdsTurnProofs ----------------------------
(***************************************************************************)
(* Request and response alternate on every stream, for each type, and a    *)
(* request that waits has the version its Envoy accepted last: the proofs  *)
(* that OneTurn and WaitingHasAcked hold of the ADS server, whatever the   *)
(* sets of nodes, types, streams and channels and the bounds on responses  *)
(* and breaks.                                                             *)
(***************************************************************************)
EXTENDS AdsServerProofs, FiniteSetTheorems

-----------------------------------------------------------------------------
(* Messages of one type in a queue.                                          *)

\* No message of q has type t.
NoneOf(q, t) == \A i \in DOMAIN q : q[i].type # t

\* Exactly one message of q has type t.
OneOf(q, t) ==
    \E i \in DOMAIN q : /\ q[i].type = t
                        /\ \A j \in DOMAIN q : q[j].type = t => j = i

\* The messages of type t in q have nonce x.
Named(q, t, x) == \A i \in DOMAIN q : q[i].type = t => q[i].nonce = x

LEMMA AppendMessage ==
    ASSUME NEW S, NEW q \in Seq(S), NEW m \in S, NEW t, NEW x
    PROVE  /\ NoneOf(q, t) /\ m.type = t => OneOf(Append(q, m), t)
           /\ NoneOf(q, t) /\ m.type # t => NoneOf(Append(q, m), t)
           /\ OneOf(q, t) /\ m.type # t => OneOf(Append(q, m), t)
           /\ Named(q, t, x) /\ (m.type = t => m.nonce = x)
                 => Named(Append(q, m), t, x)
<1> DEFINE r == Append(q, m)
<1>1. /\ DOMAIN q = 1..Len(q) /\ DOMAIN r = 1..(Len(q) + 1) /\ Len(q) \in Nat
      /\ \A i \in DOMAIN q : r[i] = q[i]
      /\ r[Len(q) + 1] = m
  BY AppendProperties, LenProperties
<1>2. \A i \in DOMAIN r : i \in DOMAIN q \/ i = Len(q) + 1
  BY <1>1
<1>3. DOMAIN q \subseteq DOMAIN r /\ Len(q) + 1 \in DOMAIN r
  BY <1>1
<1> HIDE DEF r
<1>4. NoneOf(q, t) /\ m.type = t => OneOf(r, t)
  BY <1>1, <1>2, <1>3 DEF NoneOf, OneOf
<1>5. NoneOf(q, t) /\ m.type # t => NoneOf(r, t)
  BY <1>1, <1>2 DEF NoneOf
<1>6. OneOf(q, t) /\ m.type # t => OneOf(r, t)
  BY <1>1, <1>2, <1>3 DEF OneOf
<1>7. Named(q, t, x) /\ (m.type = t => m.nonce = x) => Named(r, t, x)
  BY <1>1, <1>2 DEF Named
<1> QED
  BY <1>4, <1>5, <1>6, <1>7 DEF r

LEMMA TakeMessage ==
    ASSUME NEW S, NEW q \in Seq(S), q # <<>>, NEW t, NEW x
    PROVE  /\ NoneOf(q, t) => Head(q).type # t /\ NoneOf(Tail(q), t)
           /\ OneOf(q, t) /\ Head(q).type = t => NoneOf(Tail(q), t)
           /\ OneOf(q, t) /\ Head(q).type # t => OneOf(Tail(q), t)
           /\ Named(q, t, x) => Named(Tail(q), t, x)
           /\ Named(q, t, x) /\ Head(q).type = t => Head(q).nonce = x
<1> DEFINE r == Tail(q)
<1>1. /\ DOMAIN q = 1..Len(q) /\ DOMAIN r = 1..(Len(q) - 1)
      /\ Len(q) \in Nat \ {0}
      /\ \A i \in DOMAIN r : r[i] = q[i + 1]
      /\ Head(q) = q[1]
  BY HeadTailProperties, LenProperties, EmptySeq
<1>2. 1 \in DOMAIN q /\ \A i \in DOMAIN r : i + 1 \in DOMAIN q /\ i + 1 # 1
  BY <1>1
<1>3. \A i \in DOMAIN q : i = 1 \/ (i - 1 \in DOMAIN r /\ r[i - 1] = q[i])
  BY <1>1
<1>4. \A i, j \in DOMAIN r : i + 1 = j + 1 => i = j
  BY <1>1
<1> HIDE DEF r
<1>5. NoneOf(q, t) => Head(q).type # t /\ NoneOf(r, t)
  BY <1>1, <1>2 DEF NoneOf
<1>6. OneOf(q, t) /\ Head(q).type = t => NoneOf(r, t)
  BY <1>1, <1>2 DEF OneOf, NoneOf
<1>7. ASSUME OneOf(q, t), Head(q).type # t
      PROVE  OneOf(r, t)
  <2>1. PICK i \in DOMAIN q : /\ q[i].type = t
                              /\ \A j \in DOMAIN q : q[j].type = t => j = i
    BY <1>7 DEF OneOf
  <2>2. i - 1 \in DOMAIN r /\ r[i - 1].type = t
    BY <1>1, <1>3, <1>7, <2>1
  <2>3. ASSUME NEW j \in DOMAIN r, r[j].type = t
        PROVE  j = i - 1
    <3>1. j + 1 = i
      BY <1>1, <1>2, <2>1, <2>3
    <3> QED
      BY <1>1, <3>1
  <2> QED
    BY <2>2, <2>3 DEF OneOf
<1>8. /\ Named(q, t, x) => Named(r, t, x)
      /\ Named(q, t, x) /\ Head(q).type = t => Head(q).nonce = x
  BY <1>1, <1>2 DEF Named
<1> QED
  BY <1>5, <1>6, <1>7, <1>8 DEF r

LEMMA EmptyMessages ==
    ASSUME NEW t, NEW x
    PROVE  NoneOf(<<>>, t) /\ Named(<<>>, t, x)
BY DEF NoneOf, Named

\* None of a type is any number of names.
LEMMA NoneIsNamed ==
    ASSUME NEW q, NEW t, NEW x, NoneOf(q, t)
    PROVE  Named(q, t, x)
BY DEF NoneOf, Named

-----------------------------------------------------------------------------
(* The invariant.                                                            *)

\* A request of the stream waits in the cache, or is answered already.
Waiting(s, t) == \E w \in watches : w.id = values[s][t]
Answered(s, t) == values[s][t] # Nil /\ chan[values[s][t]] # Nil

\* The four turns of a type that was subscribed to; all messages of the type
\* carry the nonce that the server expects, so that none is ignored.
Turn(s, t) ==
    /\ Named(requests[s], t, nonce[s][t]) /\ Named(responses[s], t, nonce[s][t])
    /\ \/ /\ OneOf(requests[s], t) /\ NoneOf(responses[s], t)
          /\ ~Waiting(s, t) /\ ~Answered(s, t)
       \/ /\ NoneOf(requests[s], t) /\ OneOf(responses[s], t)
          /\ ~Waiting(s, t) /\ ~Answered(s, t)
       \/ /\ NoneOf(requests[s], t) /\ NoneOf(responses[s], t)
          /\ Waiting(s, t) /\ ~Answered(s, t)
       \/ /\ NoneOf(requests[s], t) /\ NoneOf(responses[s], t)
          /\ ~Waiting(s, t) /\ Answered(s, t)

\* A type that was not subscribed to.
Idle(s, t) ==
    /\ NoneOf(requests[s], t) /\ NoneOf(responses[s], t)
    /\ nonce[s][t] = 0 /\ values[s][t] = Nil

\* A channel belongs to one type of one stream, and its cancel function is of
\* that stream.
OwnValue ==
    \A s, r \in Stream, t, u \in Type :
       values[s][t] # Nil /\ values[s][t] = values[r][u] => s = r /\ t = u

CancelsOwn == \A s \in Stream, t \in Type : cancel[s][t] \in {Nil, values[s][t]}

\* What a stream that is not served has, and an Envoy without a stream.
Unserved ==
    \A s \in Stream : client[s] = Nil =>
       /\ requests[s] = <<>> /\ responses[s] = <<>>
       /\ \A t \in Type : values[s][t] = Nil /\ nonce[s][t] = 0

Unconnected == \A n \in Node : conn[n] = Nil => subscribed[n] = {}

ConnIsServed == \A n \in Node : conn[n] # Nil => client[conn[n]] = n

TurnsTaken ==
    \A n \in Node, t \in Type : conn[n] # Nil =>
       IF t \in subscribed[n] THEN Turn(conn[n], t) ELSE Idle(conn[n], t)

\* Whose things are whose.
Ownership ==
    /\ OwnValue /\ CancelsOwn
    /\ Unserved /\ Unconnected /\ ConnIsServed

\* OneTurn speaks of connected Envoys only; that every step of one stream
\* leaves the turns of the others alone needs the watches' invariant and the
\* ownership of channels.
TurnInv == WatchInv /\ Ownership /\ TurnsTaken

LEMMA InitTurnInv == AInit => TurnInv
<1> SUFFICES ASSUME AInit
             PROVE  TurnInv
  OBVIOUS
<1> USE DEF AInit
<1>1. WatchInv
  BY InitWatchInv
<1>2. Ownership
  BY DEF Ownership, OwnValue, CancelsOwn, Unserved, Unconnected, ConnIsServed
<1>3. TurnsTaken
  BY DEF TurnsTaken
<1> QED
  BY <1>1, <1>2, <1>3 DEF TurnInv

-----------------------------------------------------------------------------
(* Ownership.                                                                *)

LEMMA SameOwnership ==
    ASSUME Ownership, UNCHANGED <<client, values, cancel, nonce, requests,
                                  responses, conn, subscribed>>
    PROVE  Ownership'
BY DEF Ownership, OwnValue, CancelsOwn, Unserved, Unconnected, ConnIsServed

LEMMA HandleOwnership ==
    ASSUME WatchInv, Ownership, NEW s \in Stream, Handle(s)
    PROVE  Ownership'
<1> DEFINE t == Head(requests[s]).type
<1>1. /\ requests[s] \in Seq(Requests) /\ requests[s] # <<>>
      /\ client[s] # Nil /\ UNCHANGED <<client, nonce, responses, conn, subscribed>>
      /\ requests' = [requests EXCEPT ![s] = Tail(@)]
  BY DEF Handle, envoy, WatchInv, ATypeOK, WireTypeOK
<1>2. t \in Type
  <2>1. Head(requests[s]) \in Requests
    BY <1>1, HeadTailProperties
  <2> QED
    BY <2>1 DEF Requests
<1>3. \/ UNCHANGED <<values, cancel>>
      \/ /\ ~(WatchId \subseteq InUse)
         /\ values' = [values EXCEPT ![s][t] = NewChannel]
         /\ \/ cancel' = [cancel EXCEPT ![s][t] = NewChannel]
            \/ cancel' = [cancel EXCEPT ![s][t] = Nil]
  BY DEF Handle
<1> HIDE DEF t
<1>4. OwnValue'
  <2>1. CASE UNCHANGED values
    BY <2>1 DEF Ownership, OwnValue
  <2>2. CASE /\ ~(WatchId \subseteq InUse)
             /\ values' = [values EXCEPT ![s][t] = NewChannel]
    <3>1. \A r \in Stream, u \in Type : values[r][u] # NewChannel
      BY <2>2, NewChannelIsFresh DEF InUse
    <3>2. \A r \in Stream, u \in Type :
             values'[r][u] = IF r = s /\ u = t THEN NewChannel ELSE values[r][u]
      BY <1>2, <2>2 DEF WatchInv, ATypeOK, StreamTypeOK
    <3> QED
      BY <3>1, <3>2 DEF Ownership, OwnValue
  <2> QED
    BY <1>3, <2>1, <2>2
<1>5. CancelsOwn'
  <2>1. CASE UNCHANGED <<values, cancel>>
    BY <2>1 DEF Ownership, CancelsOwn
  <2>2. ASSUME values' = [values EXCEPT ![s][t] = NewChannel],
               NEW id \in {NewChannel, Nil}, cancel' = [cancel EXCEPT ![s][t] = id]
        PROVE  CancelsOwn'
    <3>1. \A r \in Stream, u \in Type :
             /\ values'[r][u] = IF r = s /\ u = t THEN NewChannel ELSE values[r][u]
             /\ cancel'[r][u] = IF r = s /\ u = t THEN id ELSE cancel[r][u]
      BY <1>2, <2>2 DEF WatchInv, ATypeOK, StreamTypeOK
    <3> QED
      BY <3>1 DEF Ownership, CancelsOwn
  <2> QED
    BY <1>3, <2>1, <2>2
<1>6. Unserved'
  BY <1>1, <1>3 DEF Ownership, Unserved, WatchInv, ATypeOK, StreamTypeOK, WireTypeOK
<1>7. Unconnected' /\ ConnIsServed'
  BY <1>1 DEF Ownership, Unconnected, ConnIsServed
<1> QED
  BY <1>4, <1>5, <1>6, <1>7 DEF Ownership

LEMMA RespondOwnership ==
    ASSUME WatchInv, Ownership, NEW s \in Stream, NEW t \in Type, Respond(s, t)
    PROVE  Ownership'
<1>1. client[s] # Nil
  BY DEF Respond, Ownership, Unserved
<1>2. /\ UNCHANGED <<client, values, cancel, requests, conn, subscribed>>
      /\ \A r \in Stream \ {s} :
            responses'[r] = responses[r] /\ nonce'[r] = nonce[r]
  BY DEF Respond, envoy, WatchInv, ATypeOK, StreamTypeOK, WireTypeOK
<1> QED
  BY <1>1, <1>2
     DEF Ownership, OwnValue, CancelsOwn, Unserved, Unconnected, ConnIsServed

LEMMA CloseOwnership ==
    ASSUME WatchInv, Ownership, NEW s \in Stream, Close(s)
    PROVE  Ownership'
<1>1. /\ client[s] # Nil /\ conn[client[s]] # s
      /\ UNCHANGED <<conn, subscribed>>
  BY DEF Close, envoy
<1>2. \A r \in Stream \ {s} :
         /\ client'[r] = client[r] /\ values'[r] = values[r]
         /\ cancel'[r] = cancel[r] /\ nonce'[r] = nonce[r]
         /\ requests'[r] = requests[r] /\ responses'[r] = responses[r]
  BY DEF Close, NoStream, WatchInv, ATypeOK, StreamTypeOK, WireTypeOK
<1>3. /\ requests'[s] = <<>> /\ responses'[s] = <<>>
      /\ \A t \in Type : /\ values'[s][t] = Nil /\ cancel'[s][t] = Nil
                         /\ nonce'[s][t] = 0
  BY DEF Close, NoStream, WatchInv, ATypeOK, StreamTypeOK, WireTypeOK
<1>4. OwnValue'
  BY <1>2, <1>3 DEF Ownership, OwnValue
<1>5. CancelsOwn'
  BY <1>2, <1>3 DEF Ownership, CancelsOwn
<1>6. Unserved'
  BY <1>2, <1>3 DEF Ownership, Unserved
<1>7. ConnIsServed'
  <2> SUFFICES ASSUME NEW n \in Node, conn[n] # Nil
               PROVE  client'[conn[n]] = n
    BY <1>1 DEF ConnIsServed
  <2>1. conn[n] \in Stream /\ client[conn[n]] = n
    BY DEF Ownership, ConnIsServed, WatchInv, ATypeOK, EnvoyTypeOK
  <2> QED
    BY <1>1, <1>2, <2>1
<1>8. Unconnected'
  BY <1>1 DEF Ownership, Unconnected
<1> QED
  BY <1>4, <1>5, <1>6, <1>7, <1>8 DEF Ownership

LEMMA ConnectOwnership ==
    ASSUME WatchInv, Ownership, NEW n \in Node, NEW s \in Stream, Connect(n, s)
    PROVE  Ownership'
<1>1. /\ UNCHANGED <<values, cancel, nonce, requests, responses, subscribed>>
      /\ conn[n] = Nil /\ client[s] = Nil
      /\ \A r \in Stream : client'[r] = IF r = s THEN n ELSE client[r]
      /\ \A m \in Node : conn'[m] = IF m = n THEN s ELSE conn[m]
  BY DEF Connect, wire, WatchInv, ATypeOK, StreamTypeOK, EnvoyTypeOK
<1>2. OwnValue' /\ CancelsOwn'
  BY <1>1 DEF Ownership, OwnValue, CancelsOwn
<1>3. Unserved'
  BY <1>1, CacheAssumption DEF Ownership, Unserved
<1>4. Unconnected'
  BY <1>1, AdsAssumption DEF Ownership, Unconnected
<1>5. ConnIsServed'
  <2> SUFFICES ASSUME NEW m \in Node, conn'[m] # Nil
               PROVE  client'[conn'[m]] = m
    BY DEF ConnIsServed
  <2>1. CASE m = n
    BY <1>1, <2>1
  <2>2. CASE m # n
    <3>1. conn'[m] = conn[m] /\ conn[m] \in Stream /\ client[conn[m]] = m
      BY <1>1, <2>2 DEF Ownership, ConnIsServed, WatchInv, ATypeOK, EnvoyTypeOK
    <3>2. conn[m] # s
      BY <1>1, <3>1, CacheAssumption
    <3> QED
      BY <1>1, <3>1, <3>2
  <2> QED
    BY <2>1, <2>2
<1> QED
  BY <1>2, <1>3, <1>4, <1>5 DEF Ownership

LEMMA ConverseOwnership ==
    ASSUME WatchInv, Ownership, NEW n \in Node, Converse(n)
    PROVE  Ownership'
<1>1. UNCHANGED <<client, values, cancel, nonce>>
  BY DEF Converse, Subscribe, Receive, Break, EnvoyRestart, Leave, stream
<1>2. conn[n] \in Stream /\ client[conn[n]] = n /\ n # Nil
  BY CacheAssumption
     DEF Converse, Subscribe, Receive, Break, EnvoyRestart, Leave, Ownership,
         ConnIsServed, WatchInv, ATypeOK, EnvoyTypeOK
<1>3. \A r \in Stream \ {conn[n]} :
         requests'[r] = requests[r] /\ responses'[r] = responses[r]
  BY DEF Converse, Subscribe, Receive, Break, EnvoyRestart, Leave, WatchInv,
         ATypeOK, WireTypeOK
<1>4. OwnValue' /\ CancelsOwn'
  BY <1>1 DEF Ownership, OwnValue, CancelsOwn
<1>5. Unserved'
  BY <1>1, <1>2, <1>3 DEF Ownership, Unserved
<1>6. \A m \in Node : \/ conn'[m] = conn[m] /\ (m # n => subscribed'[m] = subscribed[m])
                      \/ conn'[m] = Nil /\ subscribed'[m] = {}
  BY DEF Converse, Subscribe, Receive, Break, EnvoyRestart, Leave, WatchInv,
         ATypeOK, EnvoyTypeOK
<1>7. Unconnected'
  BY <1>2, <1>6, AdsAssumption DEF Ownership, Unconnected
<1>8. ConnIsServed'
  BY <1>1, <1>6 DEF Ownership, ConnIsServed
<1> QED
  BY <1>4, <1>5, <1>7, <1>8 DEF Ownership

LEMMA StepOwnership ==
    ASSUME WatchInv, Ownership, [ANext]_avars
    PROVE  Ownership'
<1>1. CASE Server
  BY <1>1, HandleOwnership, CloseOwnership, RespondOwnership DEF Server
<1>2. CASE Envoy
  BY <1>2, ConverseOwnership, ConnectOwnership DEF Envoy
<1>3. CASE ServerRestart
  BY <1>3 DEF ServerRestart, NewServer, Ownership, OwnValue, CancelsOwn, Unserved,
     Unconnected, ConnIsServed
<1>4. CASE \E n \in Node, snap \in Snapshot : Publish(n, snap)
  BY <1>4, SameOwnership DEF Publish, stream, wire, envoy
<1>5. CASE UNCHANGED avars
  BY <1>5, SameOwnership DEF avars, stream, wire, envoy
<1> QED
  BY <1>1, <1>2, <1>3, <1>4, <1>5 DEF ANext

-----------------------------------------------------------------------------
(* Turns.                                                                    *)

\* What a step keeps of the messages of type t when q becomes r.
KeepsMessages(q, r, t, x) ==
    /\ NoneOf(q, t) => NoneOf(r, t)
    /\ OneOf(q, t) => OneOf(r, t)
    /\ Named(q, t, x) => Named(r, t, x)

\* The step leaves the turn of type t on stream s as it was.
Keeps(s, t) ==
    /\ KeepsMessages(requests[s], requests'[s], t, nonce[s][t])
    /\ KeepsMessages(responses[s], responses'[s], t, nonce[s][t])
    /\ nonce'[s][t] = nonce[s][t] /\ values'[s][t] = values[s][t]
    /\ Waiting(s, t)' <=> Waiting(s, t)
    /\ Answered(s, t)' <=> Answered(s, t)

LEMMA SameMessages ==
    ASSUME NEW q, NEW t, NEW x
    PROVE  KeepsMessages(q, q, t, x)
BY DEF KeepsMessages

LEMMA OtherAppended ==
    ASSUME NEW S, NEW q \in Seq(S), NEW m \in S, NEW t, NEW x, m.type # t
    PROVE  KeepsMessages(q, Append(q, m), t, x)
BY AppendMessage DEF KeepsMessages

LEMMA OtherTaken ==
    ASSUME NEW S, NEW q \in Seq(S), q # <<>>, NEW t, NEW x, Head(q).type # t
    PROVE  KeepsMessages(q, Tail(q), t, x)
BY TakeMessage DEF KeepsMessages

LEMMA KeptTurn ==
    ASSUME NEW s, NEW t, Keeps(s, t)
    PROVE  (Turn(s, t) => Turn(s, t)') /\ (Idle(s, t) => Idle(s, t)')
<1>1. Turn(s, t) => Turn(s, t)'
  BY DEF Keeps, KeepsMessages, Turn
<1>2. Idle(s, t) => Idle(s, t)'
  BY DEF Keeps, KeepsMessages, Idle
<1> QED
  BY <1>1, <1>2

\* TurnsTaken, with a name for the stream.
LEMMA TurnsFollow ==
    ASSUME ATypeOK',
           \A n \in Node, t \in Type, s \in Stream : conn'[n] = s =>
              IF t \in subscribed'[n] THEN Turn(s, t)' ELSE Idle(s, t)'
    PROVE  TurnsTaken'
<1> SUFFICES ASSUME NEW n \in Node, NEW t \in Type, conn'[n] # Nil
             PROVE  (IF t \in subscribed[n] THEN Turn(conn[n], t)
                                            ELSE Idle(conn[n], t))'
  BY DEF TurnsTaken
<1>1. PICK s \in Stream : conn'[n] = s
  BY DEF ATypeOK, EnvoyTypeOK
<1> QED
  BY <1>1 DEF Turn, Idle, Waiting, Answered

\* An open watch on the channel of type t of stream s is that type's, and the
\* stream's cancel function is for it.
LEMMA WatchOwner ==
    ASSUME TurnInv, NEW s \in Stream, NEW t \in Type, NEW w \in watches,
           w.id = values[s][t]
    PROVE  /\ w.type = t /\ w.node = client[s] /\ cancel[s][t] = w.id
           /\ w.id \in WatchId /\ w.id # Nil
<1>1. w.type \in Type /\ w.id \in WatchId /\ w.id # Nil
  BY CacheAssumption DEF TurnInv, WatchInv, ATypeOK, CTypeOK, Watch
<1>2. PICK r \in Stream : /\ client[r] = w.node
                          /\ values[r][w.type] = w.id /\ cancel[r][w.type] = w.id
  BY DEF TurnInv, WatchInv, NoWatchLeaks
<1>3. r = s /\ w.type = t
  BY <1>1, <1>2 DEF TurnInv, Ownership, OwnValue
<1> QED
  BY <1>1, <1>2, <1>3

\* The stream of a connected Envoy is served for it.
LEMMA ConnectedStream ==
    ASSUME TurnInv, NEW n \in Node, NEW s \in Stream, conn[n] = s
    PROVE  /\ client[s] = n /\ client[s] # Nil
           /\ \A t \in Type : IF t \in subscribed[n] THEN Turn(s, t) ELSE Idle(s, t)
<1>1. s # Nil /\ n # Nil
  BY AdsAssumption, CacheAssumption
<1>2. client[s] = n
  BY <1>1 DEF TurnInv, Ownership, ConnIsServed
<1>3. ASSUME NEW t \in Type
      PROVE  IF t \in subscribed[n] THEN Turn(s, t) ELSE Idle(s, t)
  BY <1>1 DEF TurnInv, TurnsTaken
<1> QED
  BY <1>1, <1>2, <1>3

\* A type of which a request, a response or an answer is under way was
\* subscribed to.
LEMMA BusyIsSubscribed ==
    ASSUME NEW n, NEW s, NEW t,
           IF t \in subscribed[n] THEN Turn(s, t) ELSE Idle(s, t),
           ~NoneOf(requests[s], t) \/ ~NoneOf(responses[s], t) \/ values[s][t] # Nil
    PROVE  t \in subscribed[n] /\ Turn(s, t)
BY DEF Idle

LEMMA HandleTurns ==
    ASSUME TurnInv, NEW s \in Stream, Handle(s), ATypeOK'
    PROVE  TurnsTaken'
<1> DEFINE req == Head(requests[s])
<1>1. /\ requests[s] \in Seq(Requests) /\ requests[s] # <<>>
      /\ UNCHANGED <<client, nonce, responses, conn, subscribed, snapshots>>
      /\ requests' = [requests EXCEPT ![s] = Tail(@)]
  BY DEF Handle, envoy, TurnInv, WatchInv, ATypeOK, WireTypeOK
<1>2. PICK t \in Type : req.type = t
  <2>1. req \in Requests
    BY <1>1, HeadTailProperties
  <2> QED
    BY <2>1 DEF Requests
<1>3. ~NoneOf(requests[s], t)
  BY <1>1, <1>2, TakeMessage
<1>4. \A r \in Stream : requests'[r] = IF r = s THEN Tail(requests[s]) ELSE requests[r]
  BY <1>1 DEF TurnInv, WatchInv, ATypeOK, WireTypeOK
<1> SUFFICES ASSUME NEW n \in Node, NEW u \in Type, NEW r \in Stream, conn'[n] = r
             PROVE  IF u \in subscribed'[n] THEN Turn(r, u)' ELSE Idle(r, u)'
  BY TurnsFollow
<1>5. /\ client[r] = n /\ client[r] # Nil /\ conn[n] = r
      /\ IF u \in subscribed[n] THEN Turn(r, u) ELSE Idle(r, u)
  BY <1>1, ConnectedStream
<1>6. ASSUME Keeps(r, u)
      PROVE  IF u \in subscribed'[n] THEN Turn(r, u)' ELSE Idle(r, u)'
  BY <1>1, <1>5, <1>6, KeptTurn
<1>7. r # s \/ u # t =>
         /\ KeepsMessages(requests[r], requests'[r], u, nonce[r][u])
         /\ KeepsMessages(responses[r], responses'[r], u, nonce[r][u])
  BY <1>1, <1>2, <1>4, SameMessages, OtherTaken
<1>8. CASE ~Accepts(s, req) /\ UNCHANGED <<watches, chan, values, cancel>>
  <2>1. r # s \/ u # t
    <3> SUFFICES ASSUME r = s, u = t
                 PROVE  FALSE
      OBVIOUS
    <3>1. Turn(s, t)
      BY <1>3, <1>5, BusyIsSubscribed
    <3>2. req.nonce = nonce[s][t]
      BY <1>1, <1>2, <3>1, TakeMessage DEF Turn
    <3> QED
      BY <1>2, <1>8, <3>2 DEF Accepts
  <2>2. Keeps(r, u)
    BY <1>1, <1>7, <1>8, <2>1 DEF Keeps, Waiting, Answered
  <2> QED
    BY <1>6, <2>2
<1>9. CASE /\ ~(WatchId \subseteq InUse)
           /\ CreateWatch(Cancel({cancel[s][t]}), NewChannel, client[s], t, req.ver)
           /\ values' = [values EXCEPT ![s][t] = NewChannel]
  <2> DEFINE new == [id |-> NewChannel, node |-> client[s], type |-> t,
                     ver |-> req.ver]
  <2>1. /\ NewChannel \in WatchId
        /\ \A w \in watches : w.id # NewChannel
        /\ \A p \in Stream, q \in Type : values[p][q] # NewChannel
    BY <1>9, NewChannelIsFresh DEF InUse
  <2>2. /\ new.id = NewChannel
        /\ \/ /\ watches' = Cancel({cancel[s][t]}) \cup {new}
              /\ chan' = [chan EXCEPT ![NewChannel] = Nil]
           \/ /\ ~UpToDate(client[s], req.ver)
              /\ watches' = Cancel({cancel[s][t]})
              /\ chan' = [chan EXCEPT ![NewChannel] = snapshots[client[s]]]
    BY <1>9 DEF CreateWatch
  <2>3. \A p \in Stream, q \in Type :
           values'[p][q] = IF p = s /\ q = t THEN NewChannel ELSE values[p][q]
    BY <1>2, <1>9 DEF TurnInv, WatchInv, ATypeOK, StreamTypeOK
  <2> HIDE DEF new, req
  <2>4. CASE r = s /\ u = t
    <3>1. Turn(s, t) /\ t \in subscribed[n]
      BY <1>3, <1>5, <2>4, BusyIsSubscribed
    <3>2. OneOf(requests[s], t) /\ NoneOf(responses[s], t)
      BY <1>3, <3>1 DEF Turn
    <3>3. NoneOf(requests'[s], t) /\ NoneOf(responses'[s], t)
      <4>1. NoneOf(Tail(requests[s]), t)
        BY <1>1, <1>2, <3>2, TakeMessage DEF req
      <4> QED
        BY <1>1, <1>4, <3>2, <4>1
    <3>4. values'[s][t] = NewChannel /\ NewChannel # Nil /\ nonce' = nonce
      BY <1>1, <1>2, <2>1, <2>3, CacheAssumption
    <3>5. \/ Waiting(s, t)' /\ ~Answered(s, t)'
          \/ ~Waiting(s, t)' /\ Answered(s, t)'
      <4>1. CASE /\ watches' = Cancel({cancel[s][t]}) \cup {new}
                 /\ chan' = [chan EXCEPT ![NewChannel] = Nil]
        <5>1. chan'[NewChannel] = Nil
          BY <2>1, <4>1 DEF TurnInv, WatchInv, ATypeOK, CTypeOK
        <5>2. new \in watches' /\ new.id = values'[s][t]
          BY <2>2, <3>4, <4>1
        <5> QED
          BY <3>4, <5>1, <5>2 DEF Waiting, Answered
      <4>2. CASE /\ ~UpToDate(client[s], req.ver)
                 /\ watches' = Cancel({cancel[s][t]})
                 /\ chan' = [chan EXCEPT ![NewChannel] = snapshots[client[s]]]
        <5>1. chan'[NewChannel] # Nil
          BY <2>1, <4>2 DEF UpToDate, TurnInv, WatchInv, ATypeOK, CTypeOK
        <5> QED
          BY <2>1, <3>4, <4>2, <5>1 DEF Cancel, Waiting, Answered
      <4> QED
        BY <2>2, <4>1, <4>2
    <3>6. /\ Named(requests'[s], t, nonce'[s][t])
          /\ Named(responses'[s], t, nonce'[s][t])
      BY <3>3, NoneIsNamed
    <3>7. Turn(s, t)'
      BY <3>3, <3>5, <3>6 DEF Turn
    <3> QED
      BY <1>1, <2>4, <3>1, <3>7
  <2>5. CASE r # s \/ u # t
    <3>1. values'[r][u] = values[r][u] /\ values[r][u] # NewChannel
      BY <2>1, <2>3, <2>5
    <3>2. values[r][u] = Nil \/ values[r][u] # cancel[s][t]
      BY <1>2, <2>5 DEF TurnInv, Ownership, OwnValue, CancelsOwn
    <3>3. Waiting(r, u)' <=> Waiting(r, u)
      <4>1. \A w \in watches : w.id # Nil
        BY CacheAssumption DEF TurnInv, WatchInv, ATypeOK, CTypeOK, Watch
      <4> QED
        BY <2>2, <3>1, <3>2, <4>1 DEF Waiting, Cancel
    <3>4. Answered(r, u)' <=> Answered(r, u)
      BY <2>1, <2>2, <3>1
         DEF Answered, TurnInv, WatchInv, ATypeOK, CTypeOK, StreamTypeOK
    <3>5. Keeps(r, u)
      BY <1>1, <1>7, <2>5, <3>1, <3>3, <3>4 DEF Keeps
    <3> QED
      BY <1>6, <3>5
  <2> QED
    BY <2>4, <2>5
<1> QED
  BY <1>2, <1>8, <1>9 DEF Handle

LEMMA RespondTurns ==
    ASSUME TurnInv, NEW s \in Stream, NEW t \in Type, Respond(s, t), ATypeOK'
    PROVE  TurnsTaken'
<1> DEFINE m == Response(t, chan[values[s][t]], streamNonce[s] + 1)
<1>1. /\ UNCHANGED <<watches, values, requests, conn, subscribed>>
      /\ values[s][t] # Nil /\ chan[values[s][t]] # Nil
      /\ values[s][t] \in WatchId /\ responses[s] \in Seq(Responses)
      /\ chan' = [chan EXCEPT ![values[s][t]] = Nil]
      /\ \A r \in Stream : responses'[r] =
            IF r = s THEN Append(responses[s], m) ELSE responses[r]
      /\ \A r \in Stream, u \in Type : nonce'[r][u] =
            IF r = s /\ u = t THEN streamNonce[s] + 1 ELSE nonce[r][u]
  BY DEF Respond, envoy, TurnInv, WatchInv, ATypeOK, WireTypeOK, StreamTypeOK
<1>2. m \in Responses /\ m.type = t /\ m.nonce = streamNonce[s] + 1
  BY <1>1, AdsAssumption
     DEF Respond, Response, Responses, TurnInv, WatchInv, ATypeOK, CTypeOK, StreamTypeOK
<1> HIDE DEF m
<1> SUFFICES ASSUME NEW n \in Node, NEW u \in Type, NEW r \in Stream, conn'[n] = r
             PROVE  IF u \in subscribed'[n] THEN Turn(r, u)' ELSE Idle(r, u)'
  BY TurnsFollow
<1>3. IF u \in subscribed[n] THEN Turn(r, u) ELSE Idle(r, u)
  BY <1>1, ConnectedStream
<1>4. Waiting(r, u)' <=> Waiting(r, u)
  BY <1>1 DEF Waiting
<1>5. CASE r = s /\ u = t
  <2>1. Turn(s, t) /\ t \in subscribed[n]
    BY <1>1, <1>3, <1>5, BusyIsSubscribed
  <2>2. NoneOf(requests[s], t) /\ NoneOf(responses[s], t) /\ ~Waiting(s, t)
    BY <1>1, <2>1 DEF Turn, Answered
  <2>3. NoneOf(requests'[s], t) /\ Named(requests'[s], t, nonce'[s][t])
    BY <1>1, <2>2, NoneIsNamed
  <2>4. Named(responses[s], t, nonce'[s][t])
    BY <2>2, NoneIsNamed
  <2>5. OneOf(responses'[s], t) /\ Named(responses'[s], t, nonce'[s][t])
    BY <1>1, <1>2, <2>2, <2>4, AppendMessage
  <2>6. ~Answered(s, t)'
    BY <1>1 DEF Answered, TurnInv, WatchInv, ATypeOK, CTypeOK
  <2>7. Turn(s, t)'
    BY <1>4, <1>5, <2>2, <2>3, <2>5, <2>6 DEF Turn
  <2> QED
    BY <1>1, <1>5, <2>1, <2>7
<1>6. CASE r # s \/ u # t
  <2>1. values[r][u] # values[s][t]
    BY <1>1, <1>6 DEF TurnInv, Ownership, OwnValue
  <2>2. Answered(r, u)' <=> Answered(r, u)
    BY <1>1, <2>1 DEF Answered, TurnInv, WatchInv, ATypeOK, CTypeOK, StreamTypeOK
  <2>3. KeepsMessages(responses[r], responses'[r], u, nonce[r][u])
    BY <1>1, <1>2, <1>6, SameMessages, OtherAppended
  <2>4. Keeps(r, u)
    BY <1>1, <1>4, <1>6, <2>2, <2>3, SameMessages DEF Keeps
  <2> QED
    BY <1>1, <1>3, <2>4, KeptTurn
<1> QED
  BY <1>5, <1>6

LEMMA CloseTurns ==
    ASSUME TurnInv, NEW s \in Stream, Close(s), ATypeOK'
    PROVE  TurnsTaken'
<1> SUFFICES ASSUME NEW n \in Node, NEW u \in Type, NEW r \in Stream, conn'[n] = r
             PROVE  IF u \in subscribed'[n] THEN Turn(r, u)' ELSE Idle(r, u)'
  BY TurnsFollow
<1>1. /\ UNCHANGED <<conn, subscribed>>
      /\ client[s] # Nil /\ conn[client[s]] # s
      /\ watches' = Cancel({cancel[s][t] : t \in Type})
      /\ \A id \in WatchId : chan'[id] =
            IF \E t \in Type : values[s][t] = id THEN Nil ELSE chan[id]
  BY DEF Close, envoy
<1>2. /\ client[r] = n
      /\ IF u \in subscribed[n] THEN Turn(r, u) ELSE Idle(r, u)
  BY <1>1, ConnectedStream
<1>3. r # s
  BY <1>1, <1>2
<1>4. /\ requests'[r] = requests[r] /\ responses'[r] = responses[r]
      /\ values'[r][u] = values[r][u] /\ nonce'[r][u] = nonce[r][u]
  BY <1>3 DEF Close, NoStream, TurnInv, WatchInv, ATypeOK, StreamTypeOK, WireTypeOK
<1>5. values[r][u] = Nil
      \/ \A t \in Type : values[s][t] # values[r][u] /\ cancel[s][t] # values[r][u]
  BY <1>3 DEF TurnInv, Ownership, OwnValue, CancelsOwn
<1>6. Waiting(r, u)' <=> Waiting(r, u)
  <2>1. \A w \in watches : w.id # Nil
    BY CacheAssumption DEF TurnInv, WatchInv, ATypeOK, CTypeOK, Watch
  <2> QED
    BY <1>1, <1>4, <1>5, <2>1 DEF Waiting, Cancel
<1>7. Answered(r, u)' <=> Answered(r, u)
  BY <1>1, <1>4, <1>5 DEF Answered, TurnInv, WatchInv, ATypeOK, StreamTypeOK
<1>8. Keeps(r, u)
  BY <1>4, <1>6, <1>7, SameMessages DEF Keeps
<1> QED
  BY <1>1, <1>2, <1>8, KeptTurn

LEMMA ConnectTurns ==
    ASSUME TurnInv, NEW m \in Node, NEW s \in Stream, Connect(m, s), ATypeOK'
    PROVE  TurnsTaken'
<1> SUFFICES ASSUME NEW n \in Node, NEW u \in Type, NEW r \in Stream, conn'[n] = r
             PROVE  IF u \in subscribed'[n] THEN Turn(r, u)' ELSE Idle(r, u)'
  BY TurnsFollow
<1>1. /\ UNCHANGED <<watches, chan, values, nonce, requests, responses, subscribed>>
      /\ conn[m] = Nil /\ client[s] = Nil
      /\ conn'[n] = IF n = m THEN s ELSE conn[n]
  BY DEF Connect, cvars, wire, TurnInv, WatchInv, ATypeOK, EnvoyTypeOK
<1>2. CASE n = m
  <2>1. subscribed'[n] = {} /\ r = s
    BY <1>1, <1>2 DEF TurnInv, Ownership, Unconnected
  <2>2. /\ requests'[s] = <<>> /\ responses'[s] = <<>>
        /\ values'[s][u] = Nil /\ nonce'[s][u] = 0
    BY <1>1 DEF TurnInv, Ownership, Unserved
  <2>3. Idle(s, u)'
    BY <2>2, EmptyMessages DEF Idle
  <2> QED
    BY <2>1, <2>3
<1>3. CASE n # m
  <2>1. IF u \in subscribed[n] THEN Turn(r, u) ELSE Idle(r, u)
    BY <1>1, <1>3, ConnectedStream
  <2>2. Keeps(r, u)
    BY <1>1, SameMessages DEF Keeps, Waiting, Answered
  <2> QED
    BY <1>1, <2>1, <2>2, KeptTurn
<1> QED
  BY <1>2, <1>3

\* What an Envoy does on its stream leaves the streams of the others alone.
LEMMA OtherEnvoys ==
    ASSUME TurnInv, NEW m \in Node, Converse(m),
           NEW n \in Node, NEW u \in Type, NEW r \in Stream,
           n # m, conn'[n] = r
    PROVE  IF u \in subscribed'[n] THEN Turn(r, u)' ELSE Idle(r, u)'
<1>1. /\ UNCHANGED <<watches, chan, values, nonce>>
      /\ conn'[n] = conn[n] /\ subscribed'[n] = subscribed[n]
      /\ conn[m] # Nil /\ conn[m] \in Stream
      /\ \A x \in Stream : x # conn[m] =>
            requests'[x] = requests[x] /\ responses'[x] = responses[x]
  BY DEF Converse, Subscribe, Receive, Break, EnvoyRestart, Leave, cvars, stream,
         TurnInv, WatchInv, ATypeOK, EnvoyTypeOK, WireTypeOK
<1>2. /\ client[r] = n
      /\ IF u \in subscribed[n] THEN Turn(r, u) ELSE Idle(r, u)
  BY <1>1, ConnectedStream
<1>3. r # conn[m]
  BY <1>1, <1>2 DEF TurnInv, Ownership, ConnIsServed
<1>4. Keeps(r, u)
  BY <1>1, <1>3, SameMessages DEF Keeps, Waiting, Answered
<1> QED
  BY <1>1, <1>2, <1>4, KeptTurn

LEMMA SubscribeTurns ==
    ASSUME TurnInv, NEW m \in Node, NEW t \in Type, Subscribe(m, t), ATypeOK'
    PROVE  TurnsTaken'
<1> SUFFICES ASSUME NEW n \in Node, NEW u \in Type, NEW r \in Stream, conn'[n] = r
             PROVE  IF u \in subscribed'[n] THEN Turn(r, u)' ELSE Idle(r, u)'
  BY TurnsFollow
<1>1. CASE n # m
  BY <1>1, OtherEnvoys DEF Converse
<1>2. CASE n = m
  <2> DEFINE req == Request(t, acked[m][t], 0)
  <2>1. /\ UNCHANGED <<watches, chan, values, nonce, responses, conn>>
        /\ t \notin subscribed[m] /\ subscribed'[m] = subscribed[m] \cup {t}
        /\ conn[n] = r
        /\ requests'[r] = Append(requests[r], req)
        /\ requests[r] \in Seq(Requests)
    BY <1>2 DEF Subscribe, cvars, stream, TurnInv, WatchInv, ATypeOK, EnvoyTypeOK,
       WireTypeOK
  <2>2. req \in Requests /\ req.type = t /\ req.nonce = 0
    BY AdsAssumption
       DEF Request, Requests, TurnInv, WatchInv, ATypeOK, EnvoyTypeOK
  <2> HIDE DEF req
  <2>3. IF u \in subscribed[n] THEN Turn(r, u) ELSE Idle(r, u)
    BY <2>1, ConnectedStream
  <2>4. (Waiting(r, u)' <=> Waiting(r, u)) /\ (Answered(r, u)' <=> Answered(r, u))
    BY <2>1 DEF Waiting, Answered
  <2>5. CASE u = t
    <3>1. Idle(r, t)
      BY <1>2, <2>1, <2>3, <2>5
    <3>2. ~Waiting(r, t) /\ ~Answered(r, t)
      BY <3>1, CacheAssumption
         DEF Idle, Waiting, Answered, TurnInv, WatchInv, ATypeOK, CTypeOK, Watch
    <3>3. OneOf(requests'[r], t) /\ Named(requests'[r], t, 0)
      <4>1. NoneOf(requests[r], t) /\ Named(requests[r], t, 0)
        BY <3>1, NoneIsNamed DEF Idle
      <4> QED
        BY <2>1, <2>2, <4>1, AppendMessage
    <3>4. NoneOf(responses'[r], t) /\ Named(responses'[r], t, 0) /\ nonce'[r][t] = 0
      BY <2>1, <3>1, NoneIsNamed DEF Idle
    <3>5. Turn(r, t)'
      BY <2>4, <2>5, <3>2, <3>3, <3>4 DEF Turn
    <3> QED
      BY <1>2, <2>1, <2>5, <3>5
  <2>6. CASE u # t
    <3>1. Keeps(r, u)
      BY <2>1, <2>2, <2>4, <2>6, SameMessages, OtherAppended DEF Keeps
    <3> QED
      BY <1>2, <2>1, <2>3, <2>6, <3>1, KeptTurn
  <2> QED
    BY <2>5, <2>6
<1> QED
  BY <1>1, <1>2

LEMMA ReceiveTurns ==
    ASSUME TurnInv, NEW m \in Node, Receive(m), ATypeOK'
    PROVE  TurnsTaken'
<1> SUFFICES ASSUME NEW n \in Node, NEW u \in Type, NEW r \in Stream, conn'[n] = r
             PROVE  IF u \in subscribed'[n] THEN Turn(r, u)' ELSE Idle(r, u)'
  BY TurnsFollow
<1>1. CASE n # m
  BY <1>1, OtherEnvoys DEF Converse
<1>2. CASE n = m
  <2> DEFINE resp == Head(responses[r])
             req == Request(resp.type, acked'[m][resp.type], resp.nonce)
  <2>1. /\ UNCHANGED <<watches, chan, values, nonce, subscribed, conn>>
        /\ conn[n] = r
        /\ responses[r] \in Seq(Responses) /\ responses[r] # <<>>
        /\ responses'[r] = Tail(responses[r])
        /\ requests'[r] = Append(requests[r], req)
        /\ requests[r] \in Seq(Requests)
    BY <1>2 DEF Receive, cvars, stream, TurnInv, WatchInv, ATypeOK, EnvoyTypeOK,
       WireTypeOK
  <2>2. resp \in Responses
    BY <2>1, HeadTailProperties
  <2>3. PICK t \in Type, x \in 0..MaxNonce : resp.type = t /\ resp.nonce = x
    BY <2>2 DEF Responses
  <2>4. req \in Requests /\ req.type = t /\ req.nonce = x
    BY <2>3 DEF Request, Requests, ATypeOK, EnvoyTypeOK
  <2> HIDE DEF req, resp
  <2>5. IF u \in subscribed[n] THEN Turn(r, u) ELSE Idle(r, u)
    BY <2>1, ConnectedStream
  <2>6. (Waiting(r, u)' <=> Waiting(r, u)) /\ (Answered(r, u)' <=> Answered(r, u))
    BY <2>1 DEF Waiting, Answered
  <2>7. CASE u = t
    <3>1. ~NoneOf(responses[r], t)
      BY <2>1, <2>3, TakeMessage DEF resp
    <3>2. Turn(r, t) /\ t \in subscribed[n]
      BY <2>5, <2>7, <3>1, BusyIsSubscribed
    <3>3. /\ NoneOf(requests[r], t) /\ OneOf(responses[r], t)
          /\ ~Waiting(r, t) /\ ~Answered(r, t)
      BY <3>1, <3>2 DEF Turn
    <3>4. x = nonce[r][t]
      BY <2>1, <2>3, <3>2, TakeMessage DEF Turn, resp
    <3>5. NoneOf(responses'[r], t) /\ Named(responses'[r], t, nonce'[r][t])
      <4>1. NoneOf(Tail(responses[r]), t)
        BY <2>1, <2>3, <3>3, TakeMessage DEF resp
      <4> QED
        BY <2>1, <4>1, NoneIsNamed
    <3>6. OneOf(requests'[r], t) /\ Named(requests'[r], t, nonce'[r][t])
      <4>1. Named(requests[r], t, nonce[r][t])
        BY <3>2 DEF Turn
      <4> QED
        BY <2>1, <2>4, <3>3, <3>4, <4>1, AppendMessage
    <3>7. Turn(r, t)'
      BY <2>6, <2>7, <3>3, <3>5, <3>6 DEF Turn
    <3> QED
      BY <1>2, <2>1, <2>7, <3>2, <3>7
  <2>8. CASE u # t
    <3>1. KeepsMessages(requests[r], requests'[r], u, nonce[r][u])
      BY <2>1, <2>4, <2>8, OtherAppended
    <3>2. KeepsMessages(responses[r], responses'[r], u, nonce[r][u])
      BY <2>1, <2>3, <2>8, OtherTaken DEF resp
    <3>3. Keeps(r, u)
      BY <2>1, <2>6, <3>1, <3>2 DEF Keeps
    <3> QED
      BY <2>1, <2>5, <3>3, KeptTurn
  <2> QED
    BY <2>7, <2>8
<1> QED
  BY <1>1, <1>2

LEMMA LeaveTurns ==
    ASSUME TurnInv, NEW m \in Node, Break(m) \/ EnvoyRestart(m), ATypeOK'
    PROVE  TurnsTaken'
<1> SUFFICES ASSUME NEW n \in Node, NEW u \in Type, NEW r \in Stream, conn'[n] = r
             PROVE  IF u \in subscribed'[n] THEN Turn(r, u)' ELSE Idle(r, u)'
  BY TurnsFollow
<1>1. n # m
  BY AdsAssumption DEF Break, EnvoyRestart, Leave, TurnInv, WatchInv, ATypeOK, EnvoyTypeOK
<1> QED
  BY <1>1, OtherEnvoys DEF Converse

\* A snapshot moves a waiting request on to its answer.
LEMMA PublishTurns ==
    ASSUME TurnInv, NEW m \in Node, NEW snap \in Snapshot, Publish(m, snap), ATypeOK'
    PROVE  TurnsTaken'
<1> SUFFICES ASSUME NEW n \in Node, NEW u \in Type, NEW r \in Stream, conn'[n] = r
             PROVE  IF u \in subscribed'[n] THEN Turn(r, u)' ELSE Idle(r, u)'
  BY TurnsFollow
<1> DEFINE gone == Triggered(m, snap.ver)
<1>1. /\ UNCHANGED <<values, nonce, requests, responses, conn, subscribed>>
      /\ watches' = watches \ gone /\ gone \subseteq watches
      /\ \A id \in WatchId : chan'[id] =
            IF \E w \in gone : w.id = id THEN snap ELSE chan[id]
      /\ snap # Nil
  BY CacheAssumption DEF Publish, SetSnapshot, stream, wire, envoy, Triggered
<1> HIDE DEF gone
<1>2. IF u \in subscribed[n] THEN Turn(r, u) ELSE Idle(r, u)
  BY <1>1, ConnectedStream
<1>3. values[r][u] = Nil \/ values[r][u] \in WatchId
  BY DEF TurnInv, WatchInv, ATypeOK, StreamTypeOK
<1>4. CASE \E w \in gone : w.id = values[r][u]
  <2>1. PICK w \in gone : w.id = values[r][u]
    BY <1>4
  <2>2. w \in watches /\ values[r][u] \in WatchId /\ values[r][u] # Nil
    BY <1>1, <2>1, WatchOwner
  <2>3. Turn(r, u) /\ u \in subscribed[n]
    BY <1>2, <2>2, BusyIsSubscribed
  <2>4. Waiting(r, u)
    BY <2>1, <2>2 DEF Waiting
  <2>5. Answered(r, u)'
    BY <1>1, <1>4, <2>2 DEF Answered
  <2>6. ~Waiting(r, u)'
    BY <1>1, <2>1, <2>2 DEF Waiting, TurnInv, WatchInv, OwnChannel
  <2>7. /\ NoneOf(requests[r], u) /\ NoneOf(responses[r], u)
        /\ Named(requests[r], u, nonce[r][u]) /\ Named(responses[r], u, nonce[r][u])
    BY <2>3, <2>4 DEF Turn
  <2>8. Turn(r, u)'
    BY <1>1, <2>5, <2>6, <2>7 DEF Turn
  <2> QED
    BY <1>1, <2>3, <2>8
<1>5. CASE ~ \E w \in gone : w.id = values[r][u]
  <2>1. Waiting(r, u)' <=> Waiting(r, u)
    BY <1>1, <1>5 DEF Waiting
  <2>2. Answered(r, u)' <=> Answered(r, u)
    BY <1>1, <1>3, <1>5 DEF Answered
  <2>3. Keeps(r, u)
    BY <1>1, <2>1, <2>2, SameMessages DEF Keeps
  <2> QED
    BY <1>1, <1>2, <2>3, KeptTurn
<1> QED
  BY <1>4, <1>5

LEMMA SameTurns ==
    ASSUME TurnInv, UNCHANGED avars, ATypeOK'
    PROVE  TurnsTaken'
<1> SUFFICES ASSUME NEW n \in Node, NEW u \in Type, NEW r \in Stream, conn'[n] = r
             PROVE  IF u \in subscribed'[n] THEN Turn(r, u)' ELSE Idle(r, u)'
  BY TurnsFollow
<1>1. UNCHANGED <<watches, chan, values, nonce, requests, responses, conn, subscribed>>
  BY DEF avars, cvars, stream, wire, envoy
<1>2. IF u \in subscribed[n] THEN Turn(r, u) ELSE Idle(r, u)
  BY <1>1, ConnectedStream
<1>3. Keeps(r, u)
  BY <1>1, SameMessages DEF Keeps, Waiting, Answered
<1> QED
  BY <1>1, <1>2, <1>3, KeptTurn

LEMMA StepTurnInv == TurnInv /\ [ANext]_avars => TurnInv'
<1> SUFFICES ASSUME TurnInv, [ANext]_avars
             PROVE  TurnInv'
  OBVIOUS
<1>1. WatchInv' /\ ATypeOK'
  BY StepWatches DEF TurnInv, WatchInv
<1>2. Ownership'
  BY StepOwnership DEF TurnInv
<1>3. TurnsTaken'
  <2>1. CASE Server
    BY <1>1, <2>1, HandleTurns, CloseTurns, RespondTurns DEF Server
  <2>2. CASE Envoy
    BY <1>1, <2>2, SubscribeTurns, ReceiveTurns, LeaveTurns, ConnectTurns
       DEF Envoy, Converse
  <2>3. CASE ServerRestart
    BY <2>3 DEF ServerRestart, NewServer, TurnsTaken
  <2>4. CASE \E n \in Node, snap \in Snapshot : Publish(n, snap)
    BY <1>1, <2>4, PublishTurns
  <2>5. CASE UNCHANGED avars
    BY <1>1, <2>5, SameTurns
  <2> QED
    BY <2>1, <2>2, <2>3, <2>4, <2>5 DEF ANext
<1> QED
  BY <1>1, <1>2, <1>3 DEF TurnInv

-----------------------------------------------------------------------------
(* Counting.                                                                 *)

\* A turn is one of the four summands of Turns.
LEMMA TurnCounts ==
    ASSUME TurnInv, NEW s \in Stream, NEW t \in Type, Turn(s, t)
    PROVE  Turns(s, t) = 1
<1> DEFINE R == AcceptedRequests(s, t)
           P == LastResponses(s, t)
           W == OpenWatches(s, t)
<1>1. /\ NoneOf(requests[s], t) => R = {}
      /\ NoneOf(responses[s], t) => P = {}
  BY DEF AcceptedRequests, LastResponses, NoneOf
<1>2. OneOf(requests[s], t) => \E i : R = {i}
  <2> SUFFICES ASSUME OneOf(requests[s], t)
               PROVE  \E i : R = {i}
    OBVIOUS
  <2>1. PICK i \in DOMAIN requests[s] :
           /\ requests[s][i].type = t
           /\ \A j \in DOMAIN requests[s] : requests[s][j].type = t => j = i
    BY DEF OneOf
  <2>2. Accepts(s, requests[s][i])
    BY <2>1 DEF Accepts, Turn, Named
  <2>3. R = {i}
    BY <2>1, <2>2 DEF AcceptedRequests
  <2> QED
    BY <2>3
<1>3. OneOf(responses[s], t) => \E i : P = {i}
  <2> SUFFICES ASSUME OneOf(responses[s], t)
               PROVE  \E i : P = {i}
    OBVIOUS
  <2>1. PICK i \in DOMAIN responses[s] :
           /\ responses[s][i].type = t
           /\ \A j \in DOMAIN responses[s] : responses[s][j].type = t => j = i
    BY DEF OneOf
  <2>2. responses[s][i].nonce = nonce[s][t]
    BY <2>1 DEF Turn, Named
  <2>3. P = {i}
    BY <2>1, <2>2 DEF LastResponses
  <2> QED
    BY <2>3
<1>4. ~Waiting(s, t) => W = {}
  BY DEF Waiting, OpenWatches
<1>5. Waiting(s, t) => \E w : W = {w}
  <2> SUFFICES ASSUME Waiting(s, t)
               PROVE  \E w : W = {w}
    OBVIOUS
  <2>1. PICK w \in watches : w.id = values[s][t]
    BY DEF Waiting
  <2>2. W = {w}
    BY <2>1 DEF OpenWatches, TurnInv, WatchInv, OwnChannel
  <2> QED
    BY <2>2
<1>6. Cardinality({}) = 0 /\ \A x : Cardinality({x}) = 1
  BY FS_EmptySet, FS_Singleton
<1>7. Turns(s, t) = Cardinality(R) + Cardinality(P) + Cardinality(W)
                    + (IF Answered(s, t) THEN 1 ELSE 0)
  BY DEF Turns, Answered
<1> HIDE DEF R, P, W
<1>8. /\ NoneOf(requests[s], t) => Cardinality(R) = 0
      /\ OneOf(requests[s], t) => Cardinality(R) = 1
  BY <1>1, <1>2, <1>6
<1>9. /\ NoneOf(responses[s], t) => Cardinality(P) = 0
      /\ OneOf(responses[s], t) => Cardinality(P) = 1
  BY <1>1, <1>3, <1>6
<1>10. /\ ~Waiting(s, t) => Cardinality(W) = 0
       /\ Waiting(s, t) => Cardinality(W) = 1
  BY <1>4, <1>5, <1>6
<1> DEFINE r == Cardinality(R)
           p == Cardinality(P)
           w == Cardinality(W)
           a == IF Answered(s, t) THEN 1 ELSE 0
<1>11. \/ r = 1 /\ p = 0 /\ w = 0 /\ a = 0
       \/ r = 0 /\ p = 1 /\ w = 0 /\ a = 0
       \/ r = 0 /\ p = 0 /\ w = 1 /\ a = 0
       \/ r = 0 /\ p = 0 /\ w = 0 /\ a = 1
  BY <1>8, <1>9, <1>10 DEF Turn
<1>12. Turns(s, t) = r + p + w + a
  BY <1>7
<1> HIDE DEF r, p, w, a
<1> QED
  BY <1>11, <1>12

THEOREM TurnInvariant == ASpec => []TurnInv
  BY InitTurnInv, StepTurnInv, PTL DEF ASpec

\* Request and response alternate: for each type that a connected Envoy
\* subscribed to, exactly one of request, open watch, answer and response is
\* there, so that no Envoy is forgotten and no two responses race.
THEOREM RequestsAndResponsesAlternate == ASpec => []OneTurn
<1>1. TurnInv => OneTurn
  <2> SUFFICES ASSUME TurnInv, NEW n \in Node, conn[n] # Nil, NEW t \in subscribed[n]
               PROVE  Turns(conn[n], t) = 1
    BY DEF OneTurn
  <2>1. conn[n] \in Stream /\ t \in Type
    BY DEF TurnInv, WatchInv, ATypeOK, EnvoyTypeOK
  <2>2. Turn(conn[n], t)
    BY <2>1 DEF TurnInv, TurnsTaken
  <2> QED
    BY <2>1, <2>2, TurnCounts
<1> QED
  BY <1>1, TurnInvariant, PTL

-----------------------------------------------------------------------------
(* What a waiting request says of its Envoy.                                 *)

\* The requests of type t in q carry version v.
Carry(q, t, v) == \A i \in DOMAIN q : q[i].type = t => q[i].ver = v

\* A request, on the wire or in the cache, has the version that its Envoy has
\* accepted last: while one is under way no response is, and only a response
\* changes what the Envoy has.
VersionsAgree ==
    \A n \in Node, s \in Stream, t \in Type : conn[n] = s =>
       /\ Carry(requests[s], t, acked[n][t])
       /\ \A w \in watches : w.id = values[s][t] => w.ver = acked[n][t]

LEMMA AppendCarry ==
    ASSUME NEW S, NEW q \in Seq(S), NEW m \in S, NEW t, NEW v,
           Carry(q, t, v), m.type = t => m.ver = v
    PROVE  Carry(Append(q, m), t, v)
<1>1. \A i \in DOMAIN Append(q, m) :
         (i \in DOMAIN q /\ Append(q, m)[i] = q[i]) \/ Append(q, m)[i] = m
  BY AppendProperties, LenProperties
<1> QED
  BY <1>1 DEF Carry

LEMMA TakeCarry ==
    ASSUME NEW S, NEW q \in Seq(S), q # <<>>, NEW t, NEW v, Carry(q, t, v)
    PROVE  /\ Carry(Tail(q), t, v)
           /\ Head(q).type = t => Head(q).ver = v
<1>1. /\ Head(q) = q[1] /\ 1 \in DOMAIN q
      /\ \A i \in DOMAIN Tail(q) : i + 1 \in DOMAIN q /\ Tail(q)[i] = q[i + 1]
  BY HeadTailProperties, LenProperties, EmptySeq
<1> QED
  BY <1>1 DEF Carry

LEMMA EmptyCarry == \A t, v : Carry(<<>>, t, v)
BY DEF Carry

\* A step that adds no request and no watch, and changes no accepted version.
LEMMA FewerVersions ==
    ASSUME VersionsAgree,
           NEW n \in Node, NEW s \in Stream, NEW t \in Type, conn[n] = s,
           requests'[s] = requests[s], values'[s][t] = values[s][t],
           watches' \subseteq watches, acked'[n][t] = acked[n][t]
    PROVE  /\ Carry(requests'[s], t, acked'[n][t])
           /\ \A w \in watches' : w.id = values'[s][t] => w.ver = acked'[n][t]
BY DEF VersionsAgree

LEMMA HandleVersions ==
    ASSUME TurnInv, VersionsAgree, NEW s \in Stream, Handle(s)
    PROVE  VersionsAgree'
<1> DEFINE req == Head(requests[s])
<1>1. /\ requests[s] \in Seq(Requests) /\ requests[s] # <<>>
      /\ UNCHANGED <<client, conn, acked>>
      /\ \A r \in Stream : requests'[r] =
            IF r = s THEN Tail(requests[s]) ELSE requests[r]
  BY DEF Handle, envoy, TurnInv, WatchInv, ATypeOK, WireTypeOK
<1>2. PICK t \in Type : req.type = t
  <2>1. req \in Requests
    BY <1>1, HeadTailProperties
  <2> QED
    BY <2>1 DEF Requests
<1> SUFFICES ASSUME NEW n \in Node, NEW r \in Stream, NEW u \in Type, conn[n] = r
             PROVE  /\ Carry(requests'[r], u, acked[n][u])
                    /\ \A w \in watches' : w.id = values'[r][u] => w.ver = acked[n][u]
  BY <1>1 DEF VersionsAgree
<1>3. /\ Carry(requests[r], u, acked[n][u])
      /\ \A w \in watches : w.id = values[r][u] => w.ver = acked[n][u]
  BY DEF VersionsAgree
<1>4. Carry(requests'[r], u, acked[n][u])
  BY <1>1, <1>3, TakeCarry
<1>5. CASE UNCHANGED <<watches, values>>
  BY <1>3, <1>4, <1>5
<1>6. CASE /\ ~(WatchId \subseteq InUse)
           /\ CreateWatch(Cancel({cancel[s][t]}), NewChannel, client[s], t, req.ver)
           /\ values' = [values EXCEPT ![s][t] = NewChannel]
  <2>1. /\ \A w \in watches : w.id # NewChannel
        /\ \A p \in Stream, q \in Type : values[p][q] # NewChannel
    BY <1>6, NewChannelIsFresh DEF InUse
  <2>2. values'[r][u] = IF r = s /\ u = t THEN NewChannel ELSE values[r][u]
    BY <1>6 DEF TurnInv, WatchInv, ATypeOK, StreamTypeOK
  <2>3. \A w \in watches' : w \in watches \/ (w.id = NewChannel /\ w.ver = req.ver)
    BY <1>6 DEF CreateWatch, Cancel
  <2>4. r = s /\ u = t => req.ver = acked[n][u]
    BY <1>1, <1>2, <1>3, TakeCarry
  <2>5. \A w \in watches' : w.id = values'[r][u] => w.ver = acked[n][u]
    BY <1>3, <2>1, <2>2, <2>3, <2>4
  <2> QED
    BY <1>4, <2>5
<1> QED
  BY <1>2, <1>5, <1>6 DEF Handle

LEMMA ConverseVersions ==
    ASSUME TurnInv, VersionsAgree, NEW m \in Node, Converse(m)
    PROVE  VersionsAgree'
<1> SUFFICES ASSUME NEW n \in Node, NEW r \in Stream, NEW u \in Type, conn'[n] = r
             PROVE  /\ Carry(requests'[r], u, acked'[n][u])
                    /\ \A w \in watches' : w.id = values'[r][u] => w.ver = acked'[n][u]
  BY DEF VersionsAgree
<1>1. /\ UNCHANGED <<watches, values>> /\ conn[n] = r
      /\ conn[m] # Nil /\ conn[m] \in Stream
      /\ n # m => acked'[n] = acked[n]
      /\ \A x \in Stream : x # conn[m] => requests'[x] = requests[x]
  BY AdsAssumption
     DEF Converse, Subscribe, Receive, Break, EnvoyRestart, Leave, cvars, stream,
         TurnInv, WatchInv, ATypeOK, EnvoyTypeOK, WireTypeOK
<1>2. CASE n # m
  <2>1. r # conn[m]
    BY <1>1, <1>2 DEF TurnInv, Ownership, ConnIsServed
  <2> QED
    BY <1>1, <1>2, <2>1, FewerVersions
<1>3. ASSUME n = m, NEW t \in Type, Subscribe(n, t)
      PROVE  /\ Carry(requests'[r], u, acked'[n][u])
             /\ \A w \in watches' : w.id = values'[r][u] => w.ver = acked'[n][u]
  <2> DEFINE req == Request(t, acked[n][t], 0)
  <2>1. /\ requests'[r] = Append(requests[r], req) /\ requests[r] \in Seq(Requests)
        /\ UNCHANGED acked
    BY <1>1, <1>3 DEF Subscribe, TurnInv, WatchInv, ATypeOK, WireTypeOK
  <2>2. req \in Requests /\ req.type = t /\ req.ver = acked[n][t]
    BY AdsAssumption
       DEF Request, Requests, TurnInv, WatchInv, ATypeOK, EnvoyTypeOK
  <2> HIDE DEF req
  <2>3. Carry(requests[r], u, acked[n][u])
    BY <1>1 DEF VersionsAgree
  <2>4. Carry(requests'[r], u, acked'[n][u])
    BY <2>1, <2>2, <2>3, AppendCarry
  <2> QED
    BY <1>1, <2>1, <2>4 DEF VersionsAgree
<1>4. ASSUME n = m, Receive(n)
      PROVE  /\ Carry(requests'[r], u, acked'[n][u])
             /\ \A w \in watches' : w.id = values'[r][u] => w.ver = acked'[n][u]
  <2> DEFINE resp == Head(responses[r])
             req == Request(resp.type, acked'[n][resp.type], resp.nonce)
  <2>1. /\ responses[r] \in Seq(Responses) /\ responses[r] # <<>>
        /\ requests'[r] = Append(requests[r], req) /\ requests[r] \in Seq(Requests)
        /\ \/ acked' = [acked EXCEPT ![n][resp.type] = resp.snap.ver]
           \/ UNCHANGED acked
    BY <1>1, <1>4 DEF Receive, TurnInv, WatchInv, ATypeOK, WireTypeOK
  <2>2. resp \in Responses
    BY <2>1, HeadTailProperties
  <2>3. PICK t \in Type : resp.type = t /\ resp.nonce \in 0..MaxNonce
                         /\ resp.snap.ver \in Version
    BY <2>2 DEF Responses, Snapshot
  <2> HIDE DEF resp
  <2>4. /\ acked'[n][t] \in Version \cup {NoVersion}
        /\ u # t => acked'[n][u] = acked[n][u]
    BY <2>1, <2>3 DEF TurnInv, WatchInv, ATypeOK, EnvoyTypeOK
  <2>5. req \in Requests /\ req.type = t /\ req.ver = acked'[n][t]
    BY <2>3, <2>4 DEF Request, Requests
  <2> HIDE DEF req
  <2>6. /\ Carry(requests[r], u, acked[n][u])
        /\ \A w \in watches : w.id = values[r][u] => w.ver = acked[n][u]
    BY <1>1 DEF VersionsAgree
  <2>7. CASE u = t
    <3>1. ~NoneOf(responses[r], t)
      BY <2>1, <2>3, TakeMessage DEF resp
    <3>2. NoneOf(requests[r], t) /\ ~Waiting(r, t)
      <4>1. IF t \in subscribed[n] THEN Turn(r, t) ELSE Idle(r, t)
        BY <1>1, ConnectedStream
      <4>2. Turn(r, t)
        BY <3>1, <4>1, BusyIsSubscribed
      <4> QED
        BY <3>1, <4>2 DEF Turn
    <3>3. Carry(requests[r], t, acked'[n][t])
      BY <3>2 DEF NoneOf, Carry
    <3>4. Carry(requests'[r], t, acked'[n][t])
      BY <2>1, <2>5, <3>3, AppendCarry
    <3> QED
      BY <1>1, <2>7, <3>2, <3>4 DEF Waiting
  <2>8. CASE u # t
    <3>1. Carry(requests'[r], u, acked[n][u])
      BY <2>1, <2>5, <2>6, <2>8, AppendCarry
    <3> QED
      BY <1>1, <2>4, <2>6, <2>8, <3>1
  <2> QED
    BY <2>7, <2>8
<1>5. n = m => ~Break(n) /\ ~EnvoyRestart(n)
  BY AdsAssumption DEF Break, EnvoyRestart, Leave, TurnInv, WatchInv, ATypeOK, EnvoyTypeOK
<1> QED
  BY <1>2, <1>3, <1>4, <1>5 DEF Converse

LEMMA ConnectVersions ==
    ASSUME TurnInv, VersionsAgree, NEW m \in Node, NEW s \in Stream, Connect(m, s)
    PROVE  VersionsAgree'
<1> SUFFICES ASSUME NEW n \in Node, NEW r \in Stream, NEW u \in Type, conn'[n] = r
             PROVE  /\ Carry(requests'[r], u, acked'[n][u])
                    /\ \A w \in watches' : w.id = values'[r][u] => w.ver = acked'[n][u]
  BY DEF VersionsAgree
<1>1. /\ UNCHANGED <<watches, values, requests, acked>> /\ client[s] = Nil
      /\ conn'[n] = IF n = m THEN s ELSE conn[n]
  BY DEF Connect, cvars, wire, TurnInv, WatchInv, ATypeOK, EnvoyTypeOK
<1>2. CASE n = m
  <2>1. r = s /\ requests[s] = <<>> /\ values[s][u] = Nil
    BY <1>1, <1>2 DEF TurnInv, Ownership, Unserved
  <2>2. \A w \in watches : w.id # Nil
    BY CacheAssumption DEF TurnInv, WatchInv, ATypeOK, CTypeOK, Watch
  <2> QED
    BY <1>1, <2>1, <2>2, EmptyCarry
<1>3. CASE n # m
  BY <1>1, <1>3, FewerVersions
<1> QED
  BY <1>2, <1>3

LEMMA StepVersions == TurnInv /\ VersionsAgree /\ [ANext]_avars => VersionsAgree'
<1> SUFFICES ASSUME TurnInv, VersionsAgree, [ANext]_avars
             PROVE  VersionsAgree'
  OBVIOUS
<1>1. ASSUME NEW s \in Stream, NEW t \in Type, Respond(s, t)
      PROVE  VersionsAgree'
  BY <1>1 DEF Respond, envoy, VersionsAgree
<1>2. ASSUME NEW s \in Stream, Close(s)
      PROVE  VersionsAgree'
  <2> SUFFICES ASSUME NEW n \in Node, NEW r \in Stream, NEW u \in Type, conn'[n] = r
               PROVE  /\ Carry(requests'[r], u, acked'[n][u])
                      /\ \A w \in watches' :
                            w.id = values'[r][u] => w.ver = acked'[n][u]
    BY DEF VersionsAgree
  <2>1. /\ conn[n] = r /\ acked' = acked /\ watches' \subseteq watches
        /\ conn[client[s]] # s
    BY <1>2 DEF Close, envoy, Cancel
  <2>2. r # s
    BY <2>1, ConnectedStream
  <2>3. requests'[r] = requests[r] /\ values'[r][u] = values[r][u]
    BY <1>2, <2>2 DEF Close, NoStream, TurnInv, WatchInv, ATypeOK, StreamTypeOK,
       WireTypeOK
  <2> QED
    BY <2>1, <2>3, FewerVersions
<1>3. CASE Server
  BY <1>1, <1>2, <1>3, HandleVersions DEF Server
<1>4. CASE Envoy
  BY <1>4, ConverseVersions, ConnectVersions DEF Envoy
<1>5. CASE ServerRestart
  BY <1>5, AdsAssumption DEF ServerRestart, NewServer, VersionsAgree
<1>6. ASSUME NEW n \in Node, NEW snap \in Snapshot, Publish(n, snap)
      PROVE  VersionsAgree'
  BY <1>6 DEF Publish, SetSnapshot, stream, wire, envoy, VersionsAgree
<1>7. CASE UNCHANGED avars
  BY <1>7 DEF avars, cvars, stream, wire, envoy, VersionsAgree
<1> QED
  BY <1>3, <1>4, <1>5, <1>6, <1>7 DEF ANext

\* No request is kept waiting with a version that its Envoy does not have: the
\* Envoy has accepted the latest snapshot of its node.
THEOREM WaitingEnvoysHaveAcked == ASpec => []WaitingHasAcked
<1>1. AInit => VersionsAgree
  BY AdsAssumption DEF AInit, VersionsAgree
<1>2. TurnInv /\ VersionsAgree => WaitingHasAcked
  <2> SUFFICES ASSUME TurnInv, VersionsAgree, NEW n \in Node, NEW t \in Type,
                      conn[n] # Nil, NEW w \in OpenWatches(conn[n], t)
               PROVE  UpToDate(n, acked[n][t])
    BY DEF WaitingHasAcked
  <2>1. PICK s \in Stream : conn[n] = s
    BY DEF TurnInv, WatchInv, ATypeOK, EnvoyTypeOK
  <2>2. w \in watches /\ w.id = values[s][t] /\ w.node = n /\ w.ver = acked[n][t]
    BY <2>1, WatchOwner, ConnectedStream DEF OpenWatches, VersionsAgree
  <2> QED
    BY <2>2 DEF TurnInv, WatchInv, WaitingIsUpToDate
<1> QED
  BY <1>1, <1>2, StepVersions, TurnInvariant, PTL DEF ASpec

-----------------------------------------------------------------------------
(* The mailboxes of module Delivery.                                         *)

LEMMA SentAppended ==
    ASSUME NEW S, NEW q \in Seq(S), NEW m \in S, NEW t
    PROVE  \A x : x \in Sent(Append(q, m), t) <=>
                  x \in Sent(q, t) \/ (m.type = t /\ x = m.snap)
<1> DEFINE r == Append(q, m)
<1>1. /\ DOMAIN q = 1..Len(q) /\ DOMAIN r = 1..(Len(q) + 1) /\ Len(q) \in Nat
      /\ \A i \in DOMAIN q : r[i] = q[i]
      /\ r[Len(q) + 1] = m
  BY AppendProperties, LenProperties
<1>2. /\ \A i \in DOMAIN r : i \in DOMAIN q \/ i = Len(q) + 1
      /\ DOMAIN q \subseteq DOMAIN r /\ Len(q) + 1 \in DOMAIN r
  BY <1>1
<1> HIDE DEF r
<1>3. \A x : x \in Sent(r, t) <=> x \in Sent(q, t) \/ (m.type = t /\ x = m.snap)
  BY <1>1, <1>2 DEF Sent
<1> QED
  BY <1>3 DEF r

LEMMA SentTaken ==
    ASSUME NEW S, NEW q \in Seq(S), q # <<>>, NEW t
    PROVE  /\ Head(q).type # t => Sent(Tail(q), t) = Sent(q, t)
           /\ OneOf(q, t) /\ Head(q).type = t => Sent(q, t) = {Head(q).snap}
<1>1. /\ DOMAIN q = 1..Len(q) /\ DOMAIN Tail(q) = 1..(Len(q) - 1)
      /\ Len(q) \in Nat \ {0}
      /\ \A i \in DOMAIN Tail(q) : Tail(q)[i] = q[i + 1]
      /\ Head(q) = q[1]
  BY HeadTailProperties, LenProperties, EmptySeq
<1>2. 1 \in DOMAIN q /\ \A i \in DOMAIN Tail(q) : i + 1 \in DOMAIN q
  BY <1>1
<1>3. \A i \in DOMAIN q : i = 1 \/ (i - 1 \in DOMAIN Tail(q) /\ Tail(q)[i - 1] = q[i])
  BY <1>1
<1>4. ASSUME Head(q).type # t
      PROVE  Sent(Tail(q), t) = Sent(q, t)
  <2>1. \A x : x \in Sent(Tail(q), t) => x \in Sent(q, t)
    BY <1>1, <1>2 DEF Sent
  <2>2. \A x : x \in Sent(q, t) => x \in Sent(Tail(q), t)
    <3>1. \A i \in DOMAIN q : q[i].type = t => \E j \in DOMAIN Tail(q) : Tail(q)[j] = q[i]
      BY <1>1, <1>3, <1>4
    <3> QED
      BY <3>1 DEF Sent
  <2> QED
    BY <2>1, <2>2
<1>5. OneOf(q, t) /\ Head(q).type = t => Sent(q, t) = {Head(q).snap}
  BY <1>1, <1>2 DEF OneOf, Sent
<1> QED
  BY <1>4, <1>5

LEMMA NoneSent ==
    ASSUME NEW q, NEW t, NoneOf(q, t)
    PROVE  Sent(q, t) = {}
BY DEF NoneOf, Sent

\* The mailbox and the waiting types of an Envoy that has stream s.
LEMMA MailOnStream ==
    ASSUME NEW n \in Node, NEW s \in Stream, NEW t \in Type, conn[n] = s
    PROVE  /\ Answered(s, t) =>
                 UnderWay(n, t) = {chan[values[s][t]]} \cup Sent(responses[s], t)
           /\ ~Answered(s, t) => UnderWay(n, t) = Sent(responses[s], t)
           /\ t \in Waits(n) <=> Waiting(s, t)
<1>1. s # Nil
  BY AdsAssumption
<1>2. t \in Waits(n) <=> Waiting(s, t)
  BY <1>1 DEF Waits, OpenWatches, Waiting
<1> QED
  BY <1>1, <1>2 DEF UnderWay, Answered

\* A step that leaves a channel and the responses of its type alone.
LEMMA SameMail ==
    ASSUME NEW n \in Node, NEW s \in Stream, NEW t \in Type,
           conn[n] = s, conn'[n] = s, values'[s][t] = values[s][t],
           values[s][t] # Nil => chan'[values[s][t]] = chan[values[s][t]],
           Sent(responses'[s], t) = Sent(responses[s], t),
           Waiting(s, t)' <=> Waiting(s, t)
    PROVE  /\ UnderWay(n, t)' = UnderWay(n, t)
           /\ t \in Waits(n)' <=> t \in Waits(n)
<1>1. s # Nil
  BY AdsAssumption
<1>2. UnderWay(n, t)' = UnderWay(n, t)
  BY <1>1 DEF UnderWay
<1>3. t \in Waits(n)' <=> t \in Waits(n)
  BY <1>1 DEF Waits, OpenWatches, Waiting
<1> QED
  BY <1>2, <1>3

LEMMA NoStreamNoMail ==
    /\ \A n \in Node, t \in Type : conn[n] = Nil => UnderWay(n, t) = {}
    /\ \A n \in Node : conn[n] = Nil => Waits(n) = {}
BY DEF UnderWay, Waits

\* A step that moves no snapshot, as the mailboxes see it.
LEMMA MailboxesStay ==
    ASSUME \A n \in Node, t \in Type :
              UnderWay(n, t)' = UnderWay(n, t) /\ (t \in Waits(n)' <=> t \in Waits(n)),
           UNCHANGED <<snapshots, acked, config>>
    PROVE  UNCHANGED D!vars
<1>1. \A n \in Node : Waits(n)' = Waits(n)
  BY DEF Waits
<1> QED
  BY <1>1 DEF D!vars, Accepted

\* The server takes a request: an Envoy asks, or one that is ignored or comes
\* from a stream that the Envoy has left.
LEMMA HandleDelivers ==
    ASSUME TurnInv, VersionsAgree, NEW s \in Stream, Handle(s)
    PROVE  [D!Next]_(D!vars)
<1> DEFINE req == Head(requests[s])
<1>1. /\ requests[s] \in Seq(Requests) /\ requests[s] # <<>>
      /\ client[s] \in Node
      /\ UNCHANGED <<responses, conn, snapshots, acked, config>>
  BY DEF Handle, envoy, TurnInv, WatchInv, ATypeOK, WireTypeOK, StreamTypeOK
<1>2. PICK t \in Type : req.type = t
  <2>1. req \in Requests
    BY <1>1, HeadTailProperties
  <2> QED
    BY <2>1 DEF Requests
<1>3. CASE UNCHANGED <<watches, chan, values>>
  <2>1. \A n \in Node, u \in Type :
           UnderWay(n, u)' = UnderWay(n, u) /\ (u \in Waits(n)' <=> u \in Waits(n))
    BY <1>1, <1>3 DEF UnderWay, Waits, OpenWatches
  <2> QED
    BY <1>1, <2>1, MailboxesStay
<1>4. CASE /\ Accepts(s, req)
           /\ ~(WatchId \subseteq InUse)
           /\ CreateWatch(Cancel({cancel[s][t]}), NewChannel, client[s], t, req.ver)
           /\ values' = [values EXCEPT ![s][t] = NewChannel]
  <2>0. PICK n \in Node : client[s] = n
    BY <1>1
  <2> DEFINE new == [id |-> NewChannel, node |-> n, type |-> t, ver |-> req.ver]
  <2>1. /\ NewChannel \in WatchId /\ NewChannel # Nil
        /\ \A w \in watches : w.id # NewChannel /\ w.id # Nil
        /\ \A p \in Stream, q \in Type : values[p][q] # NewChannel
    BY <1>4, NewChannelIsFresh, CacheAssumption
       DEF InUse, TurnInv, WatchInv, ATypeOK, CTypeOK, Watch
  <2>2. /\ new.id = NewChannel
        /\ \/ /\ UpToDate(n, req.ver)
              /\ watches' = Cancel({cancel[s][t]}) \cup {new}
              /\ chan' = [chan EXCEPT ![NewChannel] = Nil]
           \/ /\ ~UpToDate(n, req.ver)
              /\ watches' = Cancel({cancel[s][t]})
              /\ chan' = [chan EXCEPT ![NewChannel] = snapshots[n]]
    BY <1>4, <2>0 DEF CreateWatch
  <2>3. \A p \in Stream, q \in Type :
           values'[p][q] = IF p = s /\ q = t THEN NewChannel ELSE values[p][q]
    BY <1>2, <1>4 DEF TurnInv, WatchInv, ATypeOK, StreamTypeOK
  <2> HIDE DEF new, req
  <2>4. ASSUME NEW m \in Node, NEW u \in Type, ~(conn[m] = s /\ u = t)
        PROVE  UnderWay(m, u)' = UnderWay(m, u) /\ (u \in Waits(m)' <=> u \in Waits(m))
    <3>1. CASE conn[m] = Nil
      BY <1>1, <3>1 DEF UnderWay, Waits
    <3>2. ASSUME NEW r \in Stream, conn[m] = r
          PROVE  UnderWay(m, u)' = UnderWay(m, u) /\ (u \in Waits(m)' <=> u \in Waits(m))
      <4>1. values'[r][u] = values[r][u] /\ values[r][u] # NewChannel
        BY <2>1, <2>3, <2>4, <3>2
      <4>2. values[r][u] = Nil \/ values[r][u] # cancel[s][t]
        BY <1>2, <2>4, <3>2 DEF TurnInv, Ownership, OwnValue, CancelsOwn
      <4>3. Waiting(r, u)' <=> Waiting(r, u)
        BY <2>1, <2>2, <4>1, <4>2 DEF Waiting, Cancel
      <4>4. values[r][u] # Nil => chan'[values[r][u]] = chan[values[r][u]]
        BY <2>1, <2>2, <4>1 DEF TurnInv, WatchInv, ATypeOK, CTypeOK, StreamTypeOK
      <4> QED
        BY <1>1, <3>2, <4>1, <4>3, <4>4, SameMail
    <3> QED
      BY <3>1, <3>2 DEF TurnInv, WatchInv, ATypeOK, EnvoyTypeOK
  <2>5. CASE conn[n] # s
    <3>1. \A m \in Node : conn[m] # s
      BY <2>0, <2>5, ConnectedStream
    <3> QED
      BY <1>1, <2>4, <3>1, MailboxesStay
  <2>6. CASE conn[n] = s
    <3>1. Turn(s, t)
      <4>1. ~NoneOf(requests[s], t)
        BY <1>1, <1>2, TakeMessage DEF req
      <4> QED
        BY <1>1, <2>6, <4>1, ConnectedStream, BusyIsSubscribed
    <3>2. NoneOf(responses[s], t) /\ ~Waiting(s, t) /\ ~Answered(s, t)
      <4>1. ~NoneOf(requests[s], t)
        BY <1>1, <1>2, TakeMessage DEF req
      <4> QED
        BY <3>1, <4>1 DEF Turn
    <3>3. UnderWay(n, t) = {} /\ t \notin Waits(n)
      BY <1>1, <2>6, <3>2, NoneSent, MailOnStream
    <3>4. req.ver = acked[n][t]
      BY <1>1, <1>2, <2>6, TakeCarry DEF VersionsAgree, req
    <3>5. \A m \in Node : conn[m] = s => m = n
      BY <2>0, ConnectedStream
    <3>6. s # Nil /\ values'[s][t] = NewChannel /\ Sent(responses'[s], t) = {}
      BY <1>1, <1>2, <2>3, <3>2, NoneSent, AdsAssumption
    <3>7. CASE /\ UpToDate(n, req.ver)
               /\ watches' = Cancel({cancel[s][t]}) \cup {new}
               /\ chan' = [chan EXCEPT ![NewChannel] = Nil]
      <4>1. chan'[NewChannel] = Nil
        BY <2>1, <3>7 DEF TurnInv, WatchInv, ATypeOK, CTypeOK
      <4>2. UnderWay(n, t)' = {}
        BY <1>1, <2>1, <2>6, <3>6, <4>1 DEF UnderWay
      <4>3. t \in Waits(n)'
        <5>1. new \in watches' /\ new.id = values'[s][t]
          BY <2>2, <3>6, <3>7
        <5> QED
          BY <1>1, <2>6, <3>6, <5>1 DEF Waits, OpenWatches
      <4>4. \A m \in Node, u \in Type : UnderWay(m, u)' = UnderWay(m, u)
        BY <2>4, <3>3, <3>5, <4>2
      <4>5. \A m \in Node : Waits(m)' = IF m = n THEN Waits(m) \cup {t} ELSE Waits(m)
        <5>1. \A m \in Node, u \in Type :
                 u \in Waits(m)' <=> u \in Waits(m) \/ (m = n /\ u = t)
          BY <2>4, <3>5, <4>3
        <5>2. \A m \in Node : Waits(m)' \subseteq Type /\ Waits(m) \subseteq Type
          BY DEF Waits
        <5> QED
          BY <5>1, <5>2
      <4>6. ~D!IsNews(n, t, snapshots[n])
        BY <1>1, <3>4, <3>7 DEF D!IsNews, UpToDate, Accepted
      <4>7. D!Ask(n, t)
        BY <1>1, <3>3, <4>4, <4>5, <4>6 DEF D!Ask, Accepted
      <4> QED
        BY <1>1, <4>7 DEF D!Next
    <3>8. CASE /\ ~UpToDate(n, req.ver)
               /\ watches' = Cancel({cancel[s][t]})
               /\ chan' = [chan EXCEPT ![NewChannel] = snapshots[n]]
      <4>1. chan'[NewChannel] = snapshots[n] /\ snapshots[n] # Nil
        BY <2>1, <3>8 DEF UpToDate, TurnInv, WatchInv, ATypeOK, CTypeOK
      <4>2. UnderWay(n, t)' = {snapshots[n]}
        BY <1>1, <2>1, <2>6, <3>6, <4>1 DEF UnderWay
      <4>3. t \notin Waits(n)'
        BY <1>1, <2>1, <2>6, <3>6, <3>8 DEF Waits, OpenWatches, Cancel
      <4>4. \A m \in Node, u \in Type : UnderWay(m, u)' =
               IF m = n /\ u = t THEN {snapshots[n]} ELSE UnderWay(m, u)
        BY <2>4, <3>5, <4>2
      <4>5. \A m \in Node : Waits(m)' = Waits(m)
        <5>1. \A m \in Node, u \in Type : u \in Waits(m)' <=> u \in Waits(m)
          BY <2>4, <3>3, <3>5, <4>3
        <5>2. \A m \in Node : Waits(m)' \subseteq Type /\ Waits(m) \subseteq Type
          BY DEF Waits
        <5> QED
          BY <5>1, <5>2
      <4>6. D!IsNews(n, t, snapshots[n])
        BY <1>1, <3>4, <3>8, <4>1 DEF D!IsNews, UpToDate, Accepted
      <4>7. D!Ask(n, t)
        BY <1>1, <3>3, <4>4, <4>5, <4>6 DEF D!Ask, Accepted
      <4> QED
        BY <1>1, <4>7 DEF D!Next
    <3> QED
      BY <2>2, <3>7, <3>8
  <2> QED
    BY <2>5, <2>6
<1> QED
  BY <1>2, <1>3, <1>4 DEF Handle

\* A snapshot that goes from the channel to the wire stays under way.
LEMMA RespondDelivers ==
    ASSUME TurnInv, NEW s \in Stream, NEW t \in Type, Respond(s, t)
    PROVE  UNCHANGED D!vars
<1> DEFINE m == Response(t, chan[values[s][t]], streamNonce[s] + 1)
<1>1. /\ UNCHANGED <<watches, values, conn, snapshots, acked, config>>
      /\ values[s][t] # Nil /\ chan[values[s][t]] # Nil
      /\ values[s][t] \in WatchId /\ responses[s] \in Seq(Responses)
      /\ chan' = [chan EXCEPT ![values[s][t]] = Nil]
      /\ \A r \in Stream : responses'[r] =
            IF r = s THEN Append(responses[s], m) ELSE responses[r]
  BY DEF Respond, envoy, TurnInv, WatchInv, ATypeOK, WireTypeOK, StreamTypeOK
<1>2. m \in Responses /\ m.type = t /\ m.snap = chan[values[s][t]]
  BY <1>1, AdsAssumption
     DEF Respond, Response, Responses, TurnInv, WatchInv, ATypeOK, CTypeOK, StreamTypeOK
<1> HIDE DEF m
<1> SUFFICES ASSUME NEW n \in Node, NEW u \in Type
             PROVE  UnderWay(n, u)' = UnderWay(n, u) /\ (u \in Waits(n)' <=> u \in Waits(n))
  BY <1>1, MailboxesStay
<1>3. CASE conn[n] = Nil
  BY <1>1, <1>3 DEF UnderWay, Waits
<1>4. ASSUME NEW r \in Stream, conn[n] = r
      PROVE  UnderWay(n, u)' = UnderWay(n, u) /\ (u \in Waits(n)' <=> u \in Waits(n))
  <2>1. Sent(responses'[r], u) =
           IF r = s /\ u = t THEN Sent(responses[r], u) \cup {m.snap}
                             ELSE Sent(responses[r], u)
    <3>1. responses[s] \in Seq(Responses) /\ m \in Responses
      BY <1>1, <1>2
    <3>2. CASE r = s
      <4>1. \A x : x \in Sent(Append(responses[s], m), u) <=>
                   x \in Sent(responses[s], u) \/ (m.type = u /\ x = m.snap)
        BY <3>1, SentAppended
      <4>2. responses'[r] = Append(responses[s], m) /\ m.type = t
        BY <1>1, <1>2, <3>2
      <4>3. CASE u = t
        <5>1. \A x : x \in Sent(responses'[r], u) <=>
                       x \in Sent(responses[r], u) \cup {m.snap}
          BY <3>2, <4>1, <4>2, <4>3
        <5> QED
          BY <3>2, <4>3, <5>1
      <4>4. CASE u # t
        <5>1. \A x : x \in Sent(responses'[r], u) <=> x \in Sent(responses[r], u)
          BY <3>2, <4>1, <4>2, <4>4
        <5> QED
          BY <4>4, <5>1
      <4> QED
        BY <4>3, <4>4
    <3>3. CASE r # s
      BY <1>1, <3>3
    <3> QED
      BY <3>2, <3>3
  <2>2. u \in Waits(n)' <=> u \in Waits(n)
    BY <1>1 DEF Waits, OpenWatches
  <2>3. CASE r = s /\ u = t
    <3>1. NoneOf(responses[s], t)
      BY <1>1, <1>4, <2>3, ConnectedStream, BusyIsSubscribed DEF Turn, Answered
    <3>2. UnderWay(n, t) = {m.snap}
      BY <1>1, <1>2, <1>4, <2>3, <3>1, NoneSent, MailOnStream DEF Answered
    <3>3. UnderWay(n, t)' = {m.snap}
      <4>1. chan'[values[s][t]] = Nil /\ s # Nil
        BY <1>1, AdsAssumption DEF TurnInv, WatchInv, ATypeOK, CTypeOK
      <4> QED
        BY <1>1, <1>4, <2>1, <2>3, <3>1, <4>1, NoneSent DEF UnderWay
    <3> QED
      BY <2>2, <2>3, <3>2, <3>3
  <2>4. CASE r # s \/ u # t
    <3>1. values[r][u] # values[s][t]
      BY <1>1, <2>4 DEF TurnInv, Ownership, OwnValue
    <3>2. values[r][u] # Nil => chan'[values[r][u]] = chan[values[r][u]]
      BY <1>1, <3>1 DEF TurnInv, WatchInv, ATypeOK, CTypeOK, StreamTypeOK
    <3>3. Waiting(r, u)' <=> Waiting(r, u)
      BY <1>1 DEF Waiting
    <3> QED
      BY <1>1, <1>4, <2>1, <2>4, <3>2, <3>3, SameMail
  <2> QED
    BY <2>3, <2>4
<1> QED
  BY <1>3, <1>4 DEF TurnInv, WatchInv, ATypeOK, EnvoyTypeOK

\* What a left stream still held is nobody's mail.
LEMMA CloseDelivers ==
    ASSUME TurnInv, NEW s \in Stream, Close(s)
    PROVE  UNCHANGED D!vars
<1>1. /\ UNCHANGED <<conn, snapshots, acked, config>>
      /\ client[s] # Nil /\ conn[client[s]] # s
      /\ watches' = Cancel({cancel[s][t] : t \in Type})
      /\ \A id \in WatchId : chan'[id] =
            IF \E t \in Type : values[s][t] = id THEN Nil ELSE chan[id]
  BY DEF Close, envoy
<1> SUFFICES ASSUME NEW n \in Node, NEW u \in Type
             PROVE  UnderWay(n, u)' = UnderWay(n, u) /\ (u \in Waits(n)' <=> u \in Waits(n))
  BY <1>1, MailboxesStay
<1>2. CASE conn[n] = Nil
  BY <1>1, <1>2 DEF UnderWay, Waits
<1>3. ASSUME NEW r \in Stream, conn[n] = r
      PROVE  UnderWay(n, u)' = UnderWay(n, u) /\ (u \in Waits(n)' <=> u \in Waits(n))
  <2>1. r # s
    BY <1>1, <1>3, ConnectedStream
  <2>2. responses'[r] = responses[r] /\ values'[r][u] = values[r][u]
    BY <2>1 DEF Close, NoStream, TurnInv, WatchInv, ATypeOK, StreamTypeOK, WireTypeOK
  <2>3. values[r][u] = Nil
        \/ \A t \in Type : values[s][t] # values[r][u] /\ cancel[s][t] # values[r][u]
    BY <2>1 DEF TurnInv, Ownership, OwnValue, CancelsOwn
  <2>4. Waiting(r, u)' <=> Waiting(r, u)
    <3>1. \A w \in watches : w.id # Nil
      BY CacheAssumption DEF TurnInv, WatchInv, ATypeOK, CTypeOK, Watch
    <3> QED
      BY <1>1, <2>2, <2>3, <3>1 DEF Waiting, Cancel
  <2>5. values[r][u] # Nil => chan'[values[r][u]] = chan[values[r][u]]
    BY <1>1, <2>3 DEF TurnInv, WatchInv, ATypeOK, StreamTypeOK
  <2> QED
    BY <1>1, <1>3, <2>2, <2>4, <2>5, SameMail
<1> QED
  BY <1>2, <1>3 DEF TurnInv, WatchInv, ATypeOK, EnvoyTypeOK

\* A new stream has no mail.
LEMMA ConnectDelivers ==
    ASSUME TurnInv, NEW m \in Node, NEW s \in Stream, Connect(m, s)
    PROVE  UNCHANGED D!vars
<1>1. /\ UNCHANGED <<snapshots, watches, chan, values, responses, acked, config>>
      /\ conn[m] = Nil /\ client[s] = Nil
      /\ \A n \in Node : conn'[n] = IF n = m THEN s ELSE conn[n]
  BY DEF Connect, cvars, wire, TurnInv, WatchInv, ATypeOK, EnvoyTypeOK
<1> SUFFICES ASSUME NEW n \in Node, NEW u \in Type
             PROVE  UnderWay(n, u)' = UnderWay(n, u) /\ (u \in Waits(n)' <=> u \in Waits(n))
  BY <1>1, MailboxesStay
<1>2. CASE n = m
  <2>1. responses[s] = <<>> /\ values[s][u] = Nil
    BY <1>1 DEF TurnInv, Ownership, Unserved
  <2>2. Sent(<<>>, u) = {}
    BY EmptyMessages, NoneSent
  <2>3. \A w \in watches : w.id # Nil
    BY CacheAssumption DEF TurnInv, WatchInv, ATypeOK, CTypeOK, Watch
  <2>4. UnderWay(n, u)' = {} /\ u \notin Waits(n)'
    BY <1>1, <1>2, <2>1, <2>2, <2>3 DEF UnderWay, Waits, OpenWatches
  <2> QED
    BY <1>1, <1>2, <2>4, NoStreamNoMail
<1>3. CASE n # m
  BY <1>1, <1>3 DEF UnderWay, Waits, OpenWatches
<1> QED
  BY <1>2, <1>3

\* What an Envoy does leaves the mailboxes of the others alone.
LEMMA OthersMail ==
    ASSUME TurnInv, NEW m \in Node, Converse(m), NEW n \in Node, NEW u \in Type, n # m
    PROVE  UnderWay(n, u)' = UnderWay(n, u) /\ (u \in Waits(n)' <=> u \in Waits(n))
<1>1. /\ UNCHANGED <<watches, chan, values>>
      /\ conn'[n] = conn[n]
      /\ conn[m] # Nil /\ conn[m] \in Stream
      /\ \A x \in Stream : x # conn[m] => responses'[x] = responses[x]
  BY DEF Converse, Subscribe, Receive, Break, EnvoyRestart, Leave, cvars, stream,
         TurnInv, WatchInv, ATypeOK, EnvoyTypeOK, WireTypeOK
<1>2. conn[n] # Nil => conn[n] # conn[m] /\ conn[n] \in Stream
  BY <1>1 DEF TurnInv, WatchInv, ATypeOK, EnvoyTypeOK, Ownership, ConnIsServed
<1> QED
  BY <1>1, <1>2 DEF UnderWay, Waits, OpenWatches

\* An Envoy takes the only snapshot under way for the type of a response.
LEMMA ReceiveDelivers ==
    ASSUME TurnInv, NEW n \in Node, Receive(n)
    PROVE  [D!Next]_(D!vars)
<1>1. PICK s \in Stream : conn[n] = s
  BY DEF Receive, TurnInv, WatchInv, ATypeOK, EnvoyTypeOK
<1> DEFINE resp == Head(responses[s])
<1>2. /\ UNCHANGED <<snapshots, watches, chan, values, conn>>
      /\ responses[s] \in Seq(Responses) /\ responses[s] # <<>>
      /\ responses'[s] = Tail(responses[s])
      /\ \/ /\ resp.snap.content \notin Rejected
            /\ acked' = [acked EXCEPT ![n][resp.type] = resp.snap.ver]
            /\ config' = [config EXCEPT ![n][resp.type] = resp.snap.content]
         \/ /\ resp.snap.content \in Rejected
            /\ UNCHANGED <<acked, config>>
  BY <1>1 DEF Receive, cvars, stream, TurnInv, WatchInv, ATypeOK, WireTypeOK
<1>3. resp \in Responses
  BY <1>2, HeadTailProperties
<1>4. PICK t \in Type, snap \in Snapshot : resp.type = t /\ resp.snap = snap
  BY <1>3 DEF Responses
<1>5. ~NoneOf(responses[s], t)
  BY <1>2, <1>4, TakeMessage
<1>6. OneOf(responses[s], t) /\ ~Waiting(s, t) /\ ~Answered(s, t)
  BY <1>1, <1>5, ConnectedStream, BusyIsSubscribed DEF Turn
<1>7. UnderWay(n, t) = {snap}
  BY <1>1, <1>2, <1>4, <1>6, SentTaken, MailOnStream
<1>8. UnderWay(n, t)' = {}
  <2>1. NoneOf(Tail(responses[s]), t)
    BY <1>2, <1>4, <1>6, TakeMessage
  <2>2. Sent(responses'[s], t) = {}
    BY <1>2, <2>1, NoneSent
  <2> QED
    BY <1>1, <1>2, <1>6, <2>2 DEF UnderWay, Answered
<1>9. \A m \in Node, u \in Type : m # n \/ u # t => UnderWay(m, u)' = UnderWay(m, u)
  <2>1. ASSUME NEW u \in Type, u # t
        PROVE  UnderWay(n, u)' = UnderWay(n, u)
    <3>1. Sent(responses'[s], u) = Sent(responses[s], u)
      BY <1>2, <1>4, <2>1, SentTaken
    <3> QED
      BY <1>1, <1>2, <3>1 DEF UnderWay
  <2> QED
    BY <2>1, OthersMail DEF Converse
<1>10. \A m \in Node : Waits(m)' = Waits(m)
  BY <1>2 DEF Waits, OpenWatches
<1> HIDE DEF resp
<1>11. \A m \in Node, u \in Type : Accepted(m, u)' =
          IF snap.content \notin Rejected /\ m = n /\ u = t THEN snap ELSE Accepted(m, u)
  <2>1. snap = [ver |-> snap.ver, content |-> snap.content]
    BY DEF Snapshot
  <2> QED
    BY <1>2, <1>4, <2>1 DEF Accepted, TurnInv, WatchInv, ATypeOK, EnvoyTypeOK
<1>12. D!Take(n, t)
  <2> DEFINE mail == [m \in Node |-> [u \in Type |-> UnderWay(m, u)]]
             have == [m \in Node |-> [u \in Type |-> Accepted(m, u)]]
  <2>1. snap \in mail[n][t]
    BY <1>7
  <2>2. mail' = [mail EXCEPT ![n][t] = {}]
    BY <1>8, <1>9
  <2>3. have' = IF snap.content \in Rejected
                THEN have ELSE [have EXCEPT ![n][t] = snap]
    <3>1. CASE snap.content \in Rejected
      BY <1>11, <3>1
    <3>2. CASE snap.content \notin Rejected
      BY <1>11, <3>2
    <3> QED
      BY <3>1, <3>2
  <2>4. /\ UNCHANGED snapshots
        /\ [m \in Node |-> Waits(m)]' = [m \in Node |-> Waits(m)]
    BY <1>2, <1>10
  <2> QED
    BY <2>1, <2>2, <2>3, <2>4 DEF D!Take
<1> QED
  BY <1>12 DEF D!Next

LEMMA LeaveDelivers ==
    ASSUME TurnInv, NEW n \in Node, Break(n) \/ EnvoyRestart(n)
    PROVE  [D!Next]_(D!vars)
<1>1. UNCHANGED snapshots /\ conn'[n] = Nil
  BY DEF Break, EnvoyRestart, Leave, cvars, TurnInv, WatchInv, ATypeOK, EnvoyTypeOK
<1>2. \A m \in Node, u \in Type :
         /\ UnderWay(m, u)' = IF m = n THEN {} ELSE UnderWay(m, u)
         /\ m # n => (u \in Waits(m)' <=> u \in Waits(m))
  <2>1. \A u \in Type : UnderWay(n, u)' = {}
    BY <1>1 DEF UnderWay
  <2>2. Converse(n)
    BY DEF Converse
  <2> QED
    BY <2>1, <2>2, OthersMail
<1>3. \A m \in Node : Waits(m)' = IF m = n THEN {} ELSE Waits(m)
  <2>1. Waits(n)' = {}
    BY <1>1 DEF Waits
  <2>2. ASSUME NEW m \in Node, m # n
        PROVE  Waits(m)' = Waits(m)
    <3>1. Waits(m)' \subseteq Type /\ Waits(m) \subseteq Type
      BY DEF Waits
    <3> QED
      BY <1>2, <2>2, <3>1
  <2> QED
    BY <2>1, <2>2
<1> DEFINE have == [m \in Node |-> [u \in Type |-> Accepted(m, u)]]
<1>4. \/ UNCHANGED have
      \/ have' = [have EXCEPT ![n] = [u \in Type |-> D!Nothing]]
  <2>1. CASE UNCHANGED <<acked, config>>
    BY <2>1 DEF Accepted
  <2>2. CASE EnvoyRestart(n)
    <3>1. \A m \in Node, u \in Type : Accepted(m, u)' =
             IF m = n THEN D!Nothing ELSE Accepted(m, u)
      BY <2>2 DEF EnvoyRestart, Accepted, D!Nothing, TurnInv, WatchInv, ATypeOK,
         EnvoyTypeOK
    <3> QED
      BY <3>1
  <2> QED
    BY <2>1, <2>2 DEF Break
<1>5. D!Leave(n)
  <2> DEFINE mail == [m \in Node |-> [u \in Type |-> UnderWay(m, u)]]
             waiting == [m \in Node |-> Waits(m)]
  <2>1. mail' = [mail EXCEPT ![n] = [u \in Type |-> {}]]
    BY <1>2
  <2>2. waiting' = [waiting EXCEPT ![n] = {}]
    BY <1>3
  <2> QED
    BY <1>1, <1>4, <2>1, <2>2 DEF D!Leave
<1> QED
  BY <1>5 DEF D!Next

\* A published snapshot goes to every type that waits for one: each has
\* accepted what the request in the cache says, and so is told news or nothing.
LEMMA PublishDelivers ==
    ASSUME TurnInv, VersionsAgree, NEW n \in Node, NEW snap \in Snapshot,
           Publish(n, snap)
    PROVE  [D!Next]_(D!vars)
<1> DEFINE gone == Triggered(n, snap.ver)
           told == {t \in Waits(n) : D!IsNews(n, t, snap)}
<1>1. /\ UNCHANGED <<values, responses, conn, acked, config>>
      /\ snapshots' = [snapshots EXCEPT ![n] = snap]
      /\ watches' = watches \ gone
      /\ \A w : w \in gone <=> w \in watches /\ w.node = n /\ w.ver # snap.ver
      /\ \A id \in WatchId : chan'[id] =
            IF \E w \in gone : w.id = id THEN snap ELSE chan[id]
      /\ snap # Nil
  BY CacheAssumption DEF Publish, SetSnapshot, stream, wire, envoy, Triggered
<1> HIDE DEF gone
<1>2. ASSUME NEW m \in Node, NEW r \in Stream, NEW u \in Type, conn[m] = r
      PROVE  /\ UnderWay(m, u)' =
                   IF m = n /\ u \in told THEN {snap} ELSE UnderWay(m, u)
             /\ u \in Waits(m)' <=> u \in Waits(m) /\ ~(m = n /\ u \in told)
  <2>1. r # Nil /\ client[r] = m
    BY <1>2, ConnectedStream, AdsAssumption
  <2>2. CASE \E w \in gone : w.id = values[r][u]
    <3>1. PICK w \in gone : w.id = values[r][u]
      BY <2>2
    <3>2. /\ w \in watches /\ w.node = m /\ m = n /\ w.ver # snap.ver
          /\ values[r][u] \in WatchId /\ values[r][u] # Nil
      BY <1>1, <2>1, <3>1, WatchOwner
    <3>3. Waiting(r, u) /\ u \in Waits(m)
      BY <1>2, <3>1, <3>2, MailOnStream DEF Waiting
    <3>4. w.ver = acked[m][u]
      BY <1>2, <3>1, <3>2 DEF VersionsAgree
    <3>5. u \in told
      BY <1>1, <3>2, <3>3, <3>4 DEF D!IsNews, Accepted
    <3>6. NoneOf(responses[r], u)
      BY <1>2, <3>2, <3>3, ConnectedStream, BusyIsSubscribed DEF Turn
    <3>7. UnderWay(m, u)' = {snap}
      BY <1>1, <1>2, <2>1, <2>2, <3>2, <3>6, NoneSent DEF UnderWay
    <3>8. u \notin Waits(m)'
      BY <1>1, <1>2, <2>1, <3>1, <3>2
         DEF Waits, OpenWatches, TurnInv, WatchInv, OwnChannel
    <3> QED
      BY <3>2, <3>5, <3>7, <3>8
  <2>3. CASE ~ \E w \in gone : w.id = values[r][u]
    <3>1. ~(m = n /\ u \in told)
      <4> SUFFICES ASSUME m = n, u \in told
                   PROVE  FALSE
        OBVIOUS
      <4>1. PICK w \in watches : w.id = values[r][u]
        BY <1>2, MailOnStream DEF Waiting
      <4>2. w.node = n /\ w.ver = acked[n][u]
        BY <1>2, <2>1, <4>1, WatchOwner DEF VersionsAgree
      <4>3. w \in gone
        BY <1>1, <4>1, <4>2 DEF D!IsNews, Accepted
      <4> QED
        BY <2>3, <4>1, <4>3
    <3>2. Waiting(r, u)' <=> Waiting(r, u)
      BY <1>1, <2>3 DEF Waiting
    <3>3. values[r][u] # Nil => chan'[values[r][u]] = chan[values[r][u]]
      BY <1>1, <2>3 DEF TurnInv, WatchInv, ATypeOK, StreamTypeOK
    <3>4. UnderWay(m, u)' = UnderWay(m, u) /\ (u \in Waits(m)' <=> u \in Waits(m))
      BY <1>1, <1>2, <3>2, <3>3, SameMail
    <3> QED
      BY <3>1, <3>4
  <2> QED
    BY <2>2, <2>3
<1>3. ASSUME NEW m \in Node, NEW u \in Type, conn[m] = Nil
      PROVE  /\ UnderWay(m, u)' = UnderWay(m, u) /\ u \notin Waits(m)
             /\ u \notin Waits(m)'
  BY <1>1, <1>3 DEF UnderWay, Waits
<1>4. \A m \in Node : conn[m] = Nil \/ \E r \in Stream : conn[m] = r
  BY DEF TurnInv, WatchInv, ATypeOK, EnvoyTypeOK
<1>5. \A m \in Node, u \in Type :
         /\ UnderWay(m, u)' = IF m = n /\ u \in told THEN {snap} ELSE UnderWay(m, u)
         /\ u \in Waits(m)' <=> u \in Waits(m) /\ ~(m = n /\ u \in told)
  BY <1>2, <1>3, <1>4
<1>6. \A m \in Node : Waits(m)' = IF m = n THEN Waits(m) \ told ELSE Waits(m)
  <2>1. \A m \in Node : Waits(m)' \subseteq Type /\ Waits(m) \subseteq Type
    BY DEF Waits
  <2> QED
    BY <1>5, <2>1
<1>7. \A m \in Node, u \in Type : Accepted(m, u)' = Accepted(m, u)
  BY <1>1 DEF Accepted
<1>8. D!Publish(n, snap)
  <2> DEFINE mail == [m \in Node |-> [u \in Type |-> UnderWay(m, u)]]
             waiting == [m \in Node |-> Waits(m)]
  <2>1. told = {t \in waiting[n] : D!IsNews(n, t, snap)}
    OBVIOUS
  <2> HIDE DEF told
  <2>2. mail' = [mail EXCEPT ![n] =
                    [u \in Type |-> IF u \in told THEN {snap} ELSE mail[n][u]]]
    BY <1>5
  <2>3. waiting' = [waiting EXCEPT ![n] = @ \ told]
    BY <1>6
  <2>4. [m \in Node |-> [u \in Type |-> Accepted(m, u)]]' =
           [m \in Node |-> [u \in Type |-> Accepted(m, u)]]
    BY <1>7
  <2> QED
    BY <1>1, <2>1, <2>2, <2>3, <2>4 DEF D!Publish
<1> QED
  BY <1>8 DEF D!Next

LEMMA RestartDelivers ==
    ASSUME TurnInv, ServerRestart
    PROVE  D!Reset
<1>1. \A n \in Node, t \in Type : UnderWay(n, t)' = {} /\ Waits(n)' = {}
  BY DEF ServerRestart, NewServer, UnderWay, Waits
<1>2. \A n \in Node : Waits(n)' = {}
  BY DEF ServerRestart, NewServer, Waits
<1>3. \A n \in Node, t \in Type : Accepted(n, t)' = Accepted(n, t)
  BY DEF ServerRestart, Accepted
<1> QED
  BY <1>1, <1>2, <1>3 DEF D!Reset, ServerRestart, NewServer

LEMMA StepDelivers == TurnInv /\ VersionsAgree /\ [ANext]_avars => [D!Next]_(D!vars)
<1> SUFFICES ASSUME TurnInv, VersionsAgree, [ANext]_avars
             PROVE  [D!Next]_(D!vars)
  OBVIOUS
<1>1. CASE Server
  BY <1>1, HandleDelivers, RespondDelivers, CloseDelivers DEF Server
<1>2. ASSUME NEW n \in Node, NEW t \in Type, Subscribe(n, t)
      PROVE  UNCHANGED D!vars
  <2>1. \A m \in Node, u \in Type :
           UnderWay(m, u)' = UnderWay(m, u) /\ (u \in Waits(m)' <=> u \in Waits(m))
    BY <1>2 DEF Subscribe, cvars, stream, UnderWay, Waits, OpenWatches
  <2>2. UNCHANGED <<snapshots, acked, config>>
    BY <1>2 DEF Subscribe, cvars
  <2> QED
    BY <2>1, <2>2, MailboxesStay
<1>3. CASE Envoy
  BY <1>2, <1>3, ReceiveDelivers, LeaveDelivers, ConnectDelivers DEF Envoy, Converse
<1>4. CASE ServerRestart
  BY <1>4, RestartDelivers DEF D!Next
<1>5. CASE \E n \in Node, snap \in Snapshot : Publish(n, snap)
  BY <1>5, PublishDelivers
<1>6. CASE UNCHANGED avars
  <2>1. \A m \in Node, u \in Type :
           UnderWay(m, u)' = UnderWay(m, u) /\ (u \in Waits(m)' <=> u \in Waits(m))
    BY <1>6 DEF avars, cvars, stream, wire, envoy, UnderWay, Waits, OpenWatches
  <2> QED
    BY <1>6, <2>1, MailboxesStay DEF avars, cvars, envoy
<1> QED
  BY <1>1, <1>3, <1>4, <1>5, <1>6 DEF ANext

LEMMA InitDelivers == AInit => D!Init
<1> SUFFICES ASSUME AInit
             PROVE  D!Init
  OBVIOUS
<1>1. /\ \A n \in Node : conn[n] = Nil /\ \A t \in Type : Accepted(n, t) = D!Nothing
      /\ snapshots = [n \in Node |-> Nil]
  BY DEF AInit, CInit, Accepted, D!Nothing
<1> QED
  BY <1>1, NoStreamNoMail DEF D!Init

\* Streams, watches, channels and nonces together are one mailbox for each
\* Envoy and type: snapshots arrive one at a time, in the order of publication;
\* a published one reaches every Envoy that waits, but none that has it.
THEOREM ServerImplementsDelivery == ASpec => RefinesDelivery
<1>1. AInit => VersionsAgree
  BY AdsAssumption DEF AInit, VersionsAgree
<1> QED
  BY <1>1, InitDelivers, StepDelivers, StepVersions, TurnInvariant, PTL
  DEF ASpec, RefinesDelivery, D!Spec

LEMMA StepOnlyNews == D!OnlyNews /\ [D!Next]_(D!vars) => D!OnlyNews'
<1> SUFFICES ASSUME D!OnlyNews, [D!Next]_(D!vars)
             PROVE  D!OnlyNews'
  OBVIOUS
<1> DEFINE mail == [n \in Node |-> [t \in Type |-> UnderWay(n, t)]]
           have == [n \in Node |-> [t \in Type |-> Accepted(n, t)]]
<1>1. /\ \A n \in Node, t \in Type :
            /\ mail[n][t] = UnderWay(n, t) /\ mail'[n][t] = UnderWay(n, t)'
            /\ have[n][t] = Accepted(n, t) /\ have'[n][t] = Accepted(n, t)'
      /\ DOMAIN mail = Node /\ \A n \in Node : DOMAIN mail[n] = Type
      /\ DOMAIN have = Node /\ \A n \in Node : DOMAIN have[n] = Type
      /\ \A n \in Node, t \in Type : \A snap \in UnderWay(n, t) :
            snap # Nil /\ snap.ver # Accepted(n, t).ver
  BY DEF D!OnlyNews, D!IsNews
<1> SUFFICES ASSUME NEW n \in Node, NEW t \in Type, NEW snap \in UnderWay(n, t)'
             PROVE  snap # Nil /\ snap.ver # Accepted(n, t)'.ver
  BY DEF D!OnlyNews, D!IsNews
<1>2. ASSUME NEW m \in Node, NEW u \in Type, D!Ask(m, u)
      PROVE  snap # Nil /\ snap.ver # Accepted(n, t)'.ver
  <2>1. Accepted(n, t)' = Accepted(n, t)
    BY <1>1, <1>2 DEF D!Ask
  <2>2. CASE mail' = mail
    BY <1>1, <2>1, <2>2
  <2>3. CASE D!IsNews(m, u, snapshots[m]) /\ mail' = [mail EXCEPT ![m][u] = {snapshots[m]}]
    <3> HIDE DEF mail, have
    <3>1. UnderWay(n, t)' = IF n = m /\ t = u THEN {snapshots[m]} ELSE UnderWay(n, t)
      BY <1>1, <2>3
    <3> QED
      BY <1>1, <2>1, <2>3, <3>1 DEF D!IsNews
  <2> QED
    BY <1>2, <2>2, <2>3 DEF D!Ask
<1>3. ASSUME NEW m \in Node, NEW u \in Type, D!Take(m, u)
      PROVE  snap # Nil /\ snap.ver # Accepted(n, t)'.ver
  <2>1. /\ mail' = [mail EXCEPT ![m][u] = {}]
        /\ \E x : have' = have \/ have' = [have EXCEPT ![m][u] = x]
    BY <1>3 DEF D!Take
  <2> HIDE DEF mail, have
  <2>2. UnderWay(n, t)' = IF n = m /\ t = u THEN {} ELSE UnderWay(n, t)
    BY <1>1, <2>1
  <2>3. (n = m /\ t = u) \/ Accepted(n, t)' = Accepted(n, t)
    BY <1>1, <2>1
  <2> QED
    BY <1>1, <2>2, <2>3
<1>4. ASSUME NEW m \in Node, NEW x \in Snapshot, D!Publish(m, x)
      PROVE  snap # Nil /\ snap.ver # Accepted(n, t)'.ver
  <2> DEFINE told == {v \in Waits(m) : D!IsNews(m, v, x)}
  <2>1. Accepted(n, t)' = Accepted(n, t)
    BY <1>1, <1>4 DEF D!Publish
  <2>2. mail' = [mail EXCEPT ![m] =
                    [v \in Type |-> IF v \in told THEN {x} ELSE mail[m][v]]]
    BY <1>4 DEF D!Publish
  <2> HIDE DEF mail, have, told
  <2>3. UnderWay(n, t)' = IF n = m /\ t \in told THEN {x} ELSE UnderWay(n, t)
    BY <1>1, <2>2
  <2> QED
    BY <1>1, <2>1, <2>3 DEF D!IsNews, told
<1>5. ASSUME NEW m \in Node, D!Leave(m)
      PROVE  snap # Nil /\ snap.ver # Accepted(n, t)'.ver
  <2>1. /\ mail' = [mail EXCEPT ![m] = [v \in Type |-> {}]]
        /\ \E x : have' = have \/ have' = [have EXCEPT ![m] = x]
    BY <1>5 DEF D!Leave
  <2> HIDE DEF mail, have
  <2>2. UnderWay(n, t)' = IF n = m THEN {} ELSE UnderWay(n, t)
    BY <1>1, <2>1
  <2>3. n = m \/ Accepted(n, t)' = Accepted(n, t)
    BY <1>1, <2>1
  <2> QED
    BY <1>1, <2>2, <2>3
<1>6. ~D!Reset
  BY <1>1 DEF D!Reset
<1>7. CASE UNCHANGED D!vars
  <2>1. mail' = mail /\ have' = have
    BY <1>7 DEF D!vars
  <2> QED
    BY <1>1, <2>1
<1> QED
  BY <1>2, <1>3, <1>4, <1>5, <1>6, <1>7 DEF D!Next

\* No Envoy is sent a version that it has accepted already, whatever is
\* published and however streams break: the cache answers only with news.
THEOREM OnlyNewsIsSent == ASpec => []D!OnlyNews
<1>1. D!Init => D!OnlyNews
  BY DEF D!Init, D!OnlyNews
<1> QED
  BY <1>1, StepOnlyNews, ServerImplementsDelivery, PTL
  DEF RefinesDelivery, D!Spec
=============================================================================
