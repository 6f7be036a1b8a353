--------------------------- MODULE InformerProofs ---------------------------
(***************************************************************************)
(* Proofs, for every finite set of keys and all bounds, that an informer   *)
(* loses nothing its reflector saw, that the DeltaFIFO's queue and items   *)
(* agree, that HasSynced waits for the whole first list, that the handler  *)
(* is told exactly what is stored, and that both the listers' copy and     *)
(* what the handler is told move forward.                                  *)
(*                                                                         *)
(* What an object ends at (Final) is read from its queued deltas, from the *)
(* delta under way or from the indexer; the invariant says how these hang  *)
(* together, and that the log of the API server changes one object at a    *)
(* time.  HasSynced counts Pops: the objects of the first list are the     *)
(* first ones in the queue, as many as are still counted.                  *)
(***************************************************************************)
EXTENDS Informer, SequenceTheorems, FiniteSetTheorems, WellFoundedInduction,
        NaturalsInduction, TLAPS

\* A deletion carries no version.
Sound(ds) == \A i \in 1..Len(ds) : ds[i].type = "Deleted" => ds[i].ver = None

\* One step of the API server writes or deletes one object.
OneChange ==
    \A i \in 1..(Len(log) - 1) : \A k, l \in Key :
        log[i + 1][k] # log[i][k] /\ log[i + 1][l] # log[i][l] => k = l

\* Before the first list nothing is queued and nothing known.
NothingBefore ==
    /\ phase = "watch" => seen > 0
    /\ seen > 0 => populated
    /\ ~populated => /\ items = [k \in Key |-> <<>>] /\ queue = <<>>
                     /\ indexer = [k \in Key |-> None] /\ unlisted = {}
                     /\ busy = NoKey

\* How Pop goes through one object's deltas.
ProcessInv ==
    /\ left = <<>> <=> busy = NoKey
    /\ unsent # <<>> => busy # NoKey /\ indexer[busy] = left[1].ver

KeptInv ==
    /\ \A k \in Key : Sound(items[k])
    /\ OneChange
    /\ NothingBefore
    /\ ProcessInv
    /\ SeenIsKept

\* What is left of the first list is under way or among the keys counted, and
\* as many as are counted are queued.
FirstListInv ==
    /\ \A k \in unlisted :
          \/ k = busy
          \/ \E i \in 1..Len(queue) : i <= initialPopulationCount /\ queue[i] = k
    /\ initialPopulationCount <= Len(queue)

InformerInv == TypeOK /\ KeptInv /\ QueueIsItems /\ FirstListInv

-----------------------------------------------------------------------------
(* What the operations on the queue and on an object's deltas do.            *)

LEMMA SeqFacts ==
    ASSUME NEW S, NEW s \in Seq(S)
    PROVE  /\ Len(s) \in Nat /\ DOMAIN s = 1..Len(s)
           /\ \A i \in 1..Len(s) : s[i] \in S
           /\ s = <<>> <=> Len(s) = 0
BY LenProperties, EmptySeq, ElementOfSeq

\* Whatever is queued, the newest delta carries the version that was seen,
\* unless a Sync comes while a deletion waits.
LEMMA QueueActionFacts ==
    ASSUME NEW ds \in Seq(Delta), Sound(ds),
           NEW type \in DeltaType, NEW ver \in Version \cup {None},
           type = "Deleted" => ver = None
    PROVE  /\ QueueAction(ds, type, ver) \in Seq(Delta)
           /\ QueueAction(ds, type, ver) # <<>>
           /\ Sound(QueueAction(ds, type, ver))
           /\ \/ WillObjectBeDeleted(ds) /\ type = "Sync"
              \/ NewestVersion(QueueAction(ds, type, ver)) = ver
<1> DEFINE d == [type |-> type, ver |-> ver]
<1>1. d \in Delta
  BY DEF Delta
<1>2. /\ Append(ds, d) \in Seq(Delta) /\ Len(Append(ds, d)) = Len(ds) + 1
      /\ Append(ds, d)[Len(ds) + 1] = d
      /\ \A i \in 1..Len(ds) : Append(ds, d)[i] = ds[i]
      /\ Len(ds) \in Nat
  BY <1>1, AppendProperties, SeqFacts
<1>3. CASE WillObjectBeDeleted(ds) /\ type \in {"Sync", "Deleted"}
  <2>1. ds # <<>> /\ Len(ds) \in 1..Len(ds)
    BY <1>3, SeqFacts DEF WillObjectBeDeleted
  <2> QED
    BY <1>3, <2>1 DEF QueueAction, WillObjectBeDeleted, NewestVersion, Sound
<1>4. CASE ~(WillObjectBeDeleted(ds) /\ type \in {"Sync", "Deleted"})
  <2>1. QueueAction(ds, type, ver) = Append(ds, d)
    BY <1>4 DEF QueueAction
  <2>2. Append(ds, d) # <<>>
    BY <1>2, EmptySeq
  <2>3. d.type = type /\ d.ver = ver
    OBVIOUS
  <2> HIDE DEF d
  <2>4. Sound(Append(ds, d))
    <3>1. \A i \in 1..(Len(ds) + 1) : i \in 1..Len(ds) \/ i = Len(ds) + 1
      BY <1>2
    <3> QED
      BY <1>2, <2>3, <3>1 DEF Sound
  <2> QED
    BY <1>2, <2>1, <2>2, <2>3, <2>4 DEF NewestVersion
<1> QED
  BY <1>3, <1>4

\* The keys that Enqueue adds are each of the fresh ones, once.
LEMMA OrderingFacts ==
    ASSUME NEW S \in SUBSET Key, NEW q \in Orderings(S)
    PROVE  /\ q \in Seq(Key) /\ Len(q) = Cardinality(S) /\ Cardinality(S) \in Nat
           /\ {q[i] : i \in 1..Len(q)} = S
           /\ \A i, j \in 1..Len(q) : q[i] = q[j] => i = j
<1>1. IsFiniteSet(S) /\ Cardinality(S) \in Nat
  BY InformerAssumption, FS_Subset, FS_CardinalityType
<1> DEFINE n == Cardinality(S)
<1>2. /\ q \in [1..n -> S] /\ DOMAIN q = 1..n
      /\ \A i, j \in 1..n : q[i] = q[j] => i = j
  BY DEF Orderings
<1>3. q \in Seq(S) /\ Len(q) = n
  BY <1>1, <1>2
<1>4. q \in Seq(Key)
  BY <1>3, SeqMonotonic
<1>5. q \in Injection(1..n, S)
  BY <1>2 DEF Injection, IsInjective
<1>6. IsFiniteSet(1..n) /\ Cardinality(1..n) = n
  BY <1>1, FS_Interval
<1>7. q \in Surjection(1..n, S)
  BY <1>1, <1>5, <1>6, FS_Injection
<1>8. \A k \in S : \E i \in 1..n : q[i] = k
  BY <1>7 DEF Surjection
<1> QED
  BY <1>1, <1>2, <1>3, <1>4, <1>8

\* Enqueue keeps queue and items in agreement and the order of what waits.
LEMMA EnqueueFacts ==
    ASSUME TypeOK, QueueIsItems, NEW its \in [Key -> Seq(Delta)],
           NEW S \in SUBSET Key, Enqueue(its, S),
           \A k \in Key : items[k] # <<>> => its[k] # <<>>,
           \A k \in Key \ S : its[k] = items[k]
    PROVE  /\ items' = its /\ queue' \in Seq(Key)
           /\ QueueIsItems'
           /\ Len(queue') = Len(queue) + Cardinality(Fresh(its, S))
           /\ \A i \in 1..Len(queue) : i \in 1..Len(queue') /\ queue'[i] = queue[i]
<1> DEFINE new == Fresh(its, S)
<1>1. PICK q \in Orderings(new) : queue' = queue \o q
  BY DEF Enqueue
<1>2. new \in SUBSET Key
  BY DEF Fresh
<1>3. /\ q \in Seq(Key) /\ Len(q) = Cardinality(new) /\ Cardinality(new) \in Nat
      /\ {q[i] : i \in 1..Len(q)} = new
      /\ \A i, j \in 1..Len(q) : q[i] = q[j] => i = j
  BY <1>2, OrderingFacts
<1>4. queue \in Seq(Key) /\ Len(queue) \in Nat /\ DOMAIN queue = 1..Len(queue)
  BY SeqFacts DEF TypeOK
<1>5. /\ queue' \in Seq(Key) /\ Len(queue') = Len(queue) + Len(q)
      /\ \A i \in 1..(Len(queue) + Len(q)) :
            queue'[i] = IF i <= Len(queue) THEN queue[i] ELSE q[i - Len(queue)]
  <2>1. /\ queue \o q \in Seq(Key) /\ Len(queue \o q) = Len(queue) + Len(q)
        /\ \A i \in 1..(Len(queue) + Len(q)) :
              (queue \o q)[i] = IF i <= Len(queue) THEN queue[i] ELSE q[i - Len(queue)]
    <3>1. queue \in Seq(Key) /\ q \in Seq(Key)
      BY <1>3, <1>4
    <3> QED
      BY <3>1, ConcatProperties
  <2> QED
    BY <1>1, <2>1
<1>6. ASSUME NEW i \in 1..Len(queue')
       PROVE  \/ i \in 1..Len(queue) /\ queue'[i] = queue[i]
              \/ /\ i > Len(queue) /\ i - Len(queue) \in 1..Len(q)
                 /\ queue'[i] = q[i - Len(queue)]
  <2>1. i \in 1..(Len(queue) + Len(q)) /\ Len(q) \in Nat
    BY <1>3, <1>5, <1>6
  <2>2. CASE i <= Len(queue)
    <3>1. i \in 1..Len(queue)
      BY <1>4, <2>1, <2>2
    <3> QED
      BY <1>5, <2>1, <2>2, <3>1
  <2>3. CASE ~(i <= Len(queue))
    <3>1. i > Len(queue) /\ i - Len(queue) \in 1..Len(q)
      BY <1>4, <2>1, <2>3
    <3> QED
      BY <1>5, <2>1, <2>3, <3>1
  <2> QED
    BY <2>2, <2>3
<1>7. ASSUME NEW i \in 1..Len(queue)
       PROVE  i \in 1..Len(queue') /\ queue'[i] = queue[i]
  BY <1>3, <1>4, <1>5, <1>7
<1>8. DOMAIN queue' = 1..Len(queue')
  BY <1>5, SeqFacts
<1>9. items' = its
  BY DEF Enqueue
<1>10. /\ {queue[i] : i \in 1..Len(queue)} = {k \in Key : items[k] # <<>>}
      /\ \A i, j \in 1..Len(queue) : queue[i] = queue[j] => i = j
  BY <1>4 DEF QueueIsItems
<1>11. \A i \in 1..Len(queue) : queue[i] \in Key /\ items[queue[i]] # <<>>
  BY <1>10
<1>12. \A i \in 1..Len(q) : q[i] \in new
  BY <1>3
<1>13. \A k \in Key : its[k] # <<>> <=> items[k] # <<>> \/ k \in new
  BY DEF Fresh
<1>14. \A k \in new : items[k] = <<>>
  BY DEF Fresh
<1> HIDE DEF new
<1>15. {queue'[i] : i \in 1..Len(queue')} = {k \in Key : its[k] # <<>>}
  <2>1. ASSUME NEW i \in 1..Len(queue')
        PROVE  queue'[i] \in Key /\ its[queue'[i]] # <<>>
    <3>1. CASE i \in 1..Len(queue) /\ queue'[i] = queue[i]
      BY <3>1, <1>11, <1>13
    <3>2. CASE i - Len(queue) \in 1..Len(q) /\ queue'[i] = q[i - Len(queue)]
      BY <3>2, <1>2, <1>12, <1>13
    <3> QED
      BY <3>1, <3>2, <1>6
  <2>2. ASSUME NEW k \in Key, its[k] # <<>>
        PROVE  \E i \in 1..Len(queue') : queue'[i] = k
    <3>1. CASE items[k] # <<>>
      <4>1. PICK i \in 1..Len(queue) : queue[i] = k
        BY <1>10, <3>1
      <4>2. i \in 1..Len(queue') /\ queue'[i] = k
        BY <1>3, <1>4, <1>5, <4>1
      <4> QED
        BY <4>2
    <3>2. CASE k \in new
      <4>1. PICK i \in 1..Len(q) : q[i] = k
        BY <1>3, <3>2
      <4>2. /\ Len(queue) + i \in 1..Len(queue')
            /\ ~(Len(queue) + i <= Len(queue)) /\ Len(queue) + i - Len(queue) = i
        BY <1>3, <1>4, <1>5, <4>1
      <4>3. queue'[Len(queue) + i] = k
        BY <1>5, <4>1, <4>2
      <4> QED
        BY <4>2, <4>3
    <3> QED
      BY <2>2, <3>1, <3>2, <1>13
  <2> QED
    BY <2>1, <2>2
<1>16. ASSUME NEW i \in 1..Len(queue'), NEW j \in 1..Len(queue'), queue'[i] = queue'[j]
       PROVE  i = j
  <2>1. CASE i \in 1..Len(queue) /\ queue'[i] = queue[i]
    <3>1. CASE j \in 1..Len(queue) /\ queue'[j] = queue[j]
      BY <1>10, <1>16, <2>1, <3>1
    <3>2. CASE j - Len(queue) \in 1..Len(q) /\ queue'[j] = q[j - Len(queue)]
      BY <1>11, <1>12, <1>14, <1>16, <2>1, <3>2
    <3> QED
      BY <3>1, <3>2, <1>6
  <2>2. CASE i - Len(queue) \in 1..Len(q) /\ queue'[i] = q[i - Len(queue)]
    <3>1. CASE j \in 1..Len(queue) /\ queue'[j] = queue[j]
      BY <1>11, <1>12, <1>14, <1>16, <2>2, <3>1
    <3>2. CASE j - Len(queue) \in 1..Len(q) /\ queue'[j] = q[j - Len(queue)]
      <4>1. i - Len(queue) = j - Len(queue)
        BY <1>3, <1>16, <2>2, <3>2
      <4> QED
        BY <1>4, <4>1
    <3> QED
      BY <3>1, <3>2, <1>6
  <2> QED
    BY <2>1, <2>2, <1>6
<1>17. QueueIsItems'
  BY <1>8, <1>9, <1>15, <1>16 DEF QueueIsItems
<1> QED
  BY <1>3, <1>5, <1>9, <1>17, <1>7 DEF new

\* An object's versions end where the reflector saw them, once the deltas of
\* its first case are queued, or the indexer has it already.
EndsAt(its, k, ver) ==
    \/ its[k] # <<>> /\ NewestVersion(its[k]) = ver
    \/ its[k] = <<>> /\ indexer[k] = ver

LEMMA ReplaceFacts ==
    ASSUME TypeOK, KeptInv, NEW i \in DOMAIN log, NEW k \in Key
    PROVE  LET its == ReplaceDeltas(log[i])
           IN  /\ its[k] \in Seq(Delta) /\ Sound(its[k])
               /\ items[k] # <<>> \/ log[i][k] # None => its[k] # <<>>
               /\ k \notin Overlooked(log[i]) => EndsAt(its, k, log[i][k])
<1> DEFINE state == log[i]
           its == ReplaceDeltas(state)
<1>1. state \in State /\ state[k] \in Version \cup {None}
  BY SeqFacts DEF TypeOK, State
<1>2. items[k] \in Seq(Delta) /\ Sound(items[k]) /\ indexer[k] \in Version \cup {None}
  BY DEF TypeOK, KeptInv, State
<1>3. its[k] = IF state[k] # None THEN QueueAction(items[k], "Sync", state[k])
               ELSE IF indexer[k] # None THEN QueueAction(items[k], "Deleted", None)
               ELSE items[k]
  BY DEF ReplaceDeltas
<1>4. k \notin Overlooked(state)
      => IF state[k] # None THEN ~WillObjectBeDeleted(items[k])
         ELSE indexer[k] # None \/ items[k] = <<>> \/ WillObjectBeDeleted(items[k])
  BY DEF Overlooked
<1> HIDE DEF its, state
<1>5. CASE state[k] # None
  <2>1. /\ its[k] \in Seq(Delta) /\ its[k] # <<>> /\ Sound(its[k])
        /\ WillObjectBeDeleted(items[k]) \/ NewestVersion(its[k]) = state[k]
    BY <1>1, <1>2, <1>3, <1>5, QueueActionFacts DEF DeltaType
  <2> QED
    BY <1>4, <1>5, <2>1 DEF EndsAt, its, state
<1>6. CASE state[k] = None /\ indexer[k] # None
  <2>1. /\ its[k] \in Seq(Delta) /\ its[k] # <<>> /\ Sound(its[k])
        /\ NewestVersion(its[k]) = None
    BY <1>1, <1>2, <1>3, <1>6, QueueActionFacts DEF DeltaType
  <2> QED
    BY <1>6, <2>1 DEF EndsAt, its, state
<1>7. CASE state[k] = None /\ indexer[k] = None
  <2>1. its[k] = items[k]
    BY <1>3, <1>7
  <2>2. WillObjectBeDeleted(items[k]) => items[k] # <<>> /\ NewestVersion(items[k]) = None
    BY <1>2, SeqFacts DEF WillObjectBeDeleted, NewestVersion, Sound
  <2> QED
    BY <1>2, <1>4, <1>7, <2>1, <2>2 DEF EndsAt, its, state
<1> QED
  BY <1>5, <1>6, <1>7

\* A Replace after the first one and a watch event leave the keys of the first
\* list where they are in the queue.
LEMMA FirstListKept ==
    ASSUME TypeOK, FirstListInv, queue' \in Seq(Key),
           \A i \in 1..Len(queue) : i \in 1..Len(queue') /\ queue'[i] = queue[i],
           UNCHANGED <<unlisted, busy, initialPopulationCount>>
    PROVE  FirstListInv'
<1>1. Len(queue) \in Nat /\ Len(queue') \in Nat
  BY SeqFacts DEF TypeOK
<1>2. initialPopulationCount' <= Len(queue')
  <2>1. initialPopulationCount \in Nat /\ initialPopulationCount <= Len(queue)
    BY DEF TypeOK, FirstListInv
  <2>2. Len(queue) <= Len(queue')
    <3>1. CASE Len(queue) = 0
      BY <1>1, <3>1
    <3>2. CASE Len(queue) # 0
      BY <1>1, <3>2
    <3> QED
      BY <3>1, <3>2
  <2> QED
    BY <1>1, <2>1, <2>2
<1>3. SUFFICES ASSUME NEW k \in unlisted, k # busy
               PROVE  \E i \in 1..Len(queue') : i <= initialPopulationCount /\ queue'[i] = k
  BY <1>2 DEF FirstListInv
<1>4. PICK i \in 1..Len(queue) : i <= initialPopulationCount /\ queue[i] = k
  BY <1>3 DEF FirstListInv
<1> QED
  BY <1>4

-----------------------------------------------------------------------------
(* The steps of the API server and of the reflector.                         *)

LEMMA ChangeStep ==
    ASSUME InformerInv, NEW k \in Key, Change(k)
    PROVE  InformerInv'
<1> USE DEF InformerInv
<1>1. PICK new \in State : log' = Append(log, new) /\ \A l \in Key \ {k} : new[l] = Api[l]
  <2>1. Len(log) \in 1..MaxVersion /\ MaxVersion \in Nat /\ Len(log) < MaxVersion
    BY InformerAssumption DEF Change, TypeOK
  <2>2. Api \in State
    BY <2>1, SeqFacts DEF TypeOK, Api
  <2>3. Len(log) + 1 \in Version
    BY <2>1 DEF Version
  <2>4. /\ [Api EXCEPT ![k] = Len(log) + 1] \in State
        /\ [Api EXCEPT ![k] = None] \in State
    BY <2>2, <2>3 DEF State
  <2>5. \A v : \A l \in Key \ {k} : [Api EXCEPT ![k] = v][l] = Api[l]
    BY <2>2 DEF State
  <2> QED
    BY <2>4, <2>5 DEF Change
<1>2. /\ log' \in Seq(State) /\ Len(log') = Len(log) + 1
      /\ log'[Len(log) + 1] = new
      /\ \A i \in 1..Len(log) : log'[i] = log[i]
      /\ Len(log) \in 1..MaxVersion /\ MaxVersion \in Nat
  BY <1>1, AppendProperties, InformerAssumption DEF TypeOK
<1>3. UNCHANGED <<seen, phase, items, queue, populated, initialPopulationCount,
                  busy, left, unsent, indexer, notes, breaks, told, unlisted,
                  overlooked>>
  BY DEF Change, fifo, process
<1>4. TypeOK'
  <2>1. Len(log') \in 1..MaxVersion /\ seen' \in 0..Len(log')
    BY <1>2, <1>3 DEF TypeOK, Change
  <2> QED
    BY <1>2, <1>3, <2>1 DEF TypeOK
<1>5. OneChange'
  <2>1. SUFFICES ASSUME NEW i \in 1..(Len(log') - 1), NEW a \in Key, NEW b \in Key,
                        log'[i + 1][a] # log'[i][a], log'[i + 1][b] # log'[i][b]
                 PROVE  a = b
    BY DEF OneChange
  <2>2. CASE i = Len(log)
    <3>1. log'[i + 1] = new /\ log'[i] = Api
      BY <1>2, <2>2 DEF Api
    <3> QED
      BY <1>1, <2>1, <3>1
  <2>3. CASE i # Len(log)
    <3>1. i \in 1..(Len(log) - 1) /\ i \in 1..Len(log) /\ i + 1 \in 1..Len(log)
      BY <1>2, <2>3
    <3>2. log'[i + 1] = log[i + 1] /\ log'[i] = log[i]
      BY <1>2, <3>1
    <3> QED
      BY <2>1, <3>1, <3>2 DEF KeptInv, OneChange
  <2> QED
    BY <2>2, <2>3
<1>6. SeenIsKept'
  <2>1. seen > 0 => seen \in 1..Len(log)
    BY <1>2 DEF TypeOK
  <2> QED
    BY <1>2, <1>3, <2>1 DEF KeptInv, SeenIsKept, Final
<1>7. KeptInv'
  BY <1>3, <1>5, <1>6 DEF KeptInv, NothingBefore, ProcessInv
<1>8. QueueIsItems' /\ FirstListInv'
  BY <1>3 DEF QueueIsItems, FirstListInv
<1> QED
  BY <1>4, <1>7, <1>8

\* The conjuncts of the invariant that an Enqueue of its for S leaves to show.
LEMMA EnqueueTypes ==
    ASSUME InformerInv, NEW its \in [Key -> Seq(Delta)], NEW S \in SUBSET Key,
           Enqueue(its, S), Unlocked,
           \A k \in Key : items[k] # <<>> => its[k] # <<>>,
           \A k \in Key \ S : its[k] = items[k],
           \A k \in Key : Sound(its[k]),
           UNCHANGED <<process, log, notes, told>>, populated',
           phase' \in {"list", "watch"},
           seen' \in 1..Len(log), breaks' = breaks,
           initialPopulationCount' \in Nat, unlisted' \in SUBSET Key,
           overlooked' \in SUBSET Key, populated' \in BOOLEAN,
           \A k \in Key \ overlooked' : EndsAt(its, k, log[seen'][k])
    PROVE  TypeOK' /\ KeptInv' /\ QueueIsItems'
<1> USE DEF InformerInv
<1>1. items' = its /\ queue' \in Seq(Key) /\ QueueIsItems'
  BY EnqueueFacts
<1>2. UNCHANGED <<busy, left, unsent, indexer, log, notes, told, breaks>>
  BY DEF process
<1>3. TypeOK'
  <2>1. seen' \in 0..Len(log')
    BY <1>2
  <2> QED
    BY <1>1, <1>2, <2>1 DEF TypeOK
<1>4. SeenIsKept'
  <2>1. SUFFICES ASSUME NEW k \in Key \ overlooked'
                 PROVE  Final(k)' = log'[seen'][k]
    BY DEF SeenIsKept
  <2>2. busy' # k
    BY <1>2, InformerAssumption DEF Unlocked
  <2>3. Final(k)' = IF its[k] # <<>> THEN NewestVersion(its[k]) ELSE indexer[k]
    BY <1>1, <1>2, <2>2 DEF Final, NewestVersion
  <2> QED
    BY <1>2, <2>1, <2>3 DEF EndsAt
<1>5. OneChange' /\ NothingBefore' /\ ProcessInv' /\ \A k \in Key : Sound(items[k])'
  <2>1. OneChange'
    BY <1>2 DEF KeptInv, OneChange
  <2>2. NothingBefore'
    BY DEF NothingBefore
  <2>3. ProcessInv'
    BY <1>2 DEF KeptInv, ProcessInv
  <2>4. \A k \in Key : Sound(items[k])'
    BY <1>1 DEF Sound
  <2> QED
    BY <2>1, <2>2, <2>3, <2>4
<1> QED
  BY <1>1, <1>3, <1>4, <1>5 DEF KeptInv

LEMMA ListStep ==
    ASSUME InformerInv, NEW i \in DOMAIN log, List(i)
    PROVE  InformerInv'
<1> USE DEF InformerInv
<1> DEFINE its == ReplaceDeltas(log[i])
<1>1. \A k \in Key : /\ its[k] \in Seq(Delta) /\ Sound(its[k])
                     /\ items[k] # <<>> \/ log[i][k] # None => its[k] # <<>>
                     /\ k \notin Overlooked(log[i]) => EndsAt(its, k, log[i][k])
  BY ReplaceFacts
<1>2. its \in [Key -> Seq(Delta)]
  <2>1. its = [k \in Key |-> its[k]]
    BY DEF ReplaceDeltas
  <2> HIDE DEF its
  <2> QED
    BY <1>1, <2>1
<1>3. /\ Enqueue(its, Key) /\ Unlocked /\ populated' = TRUE
      /\ phase' = "watch" /\ seen' = i /\ overlooked' = Overlooked(log[i])
      /\ UNCHANGED <<process, log, notes, told, breaks>>
  BY DEF List, Populate, process
<1>4. i \in 1..Len(log) /\ log[i] \in State
  BY SeqFacts DEF TypeOK
<1> DEFINE listed == Listed(log[i])
           gone == {k \in Key : log[i][k] = None /\ indexer[k] # None}
<1>5. listed \in SUBSET Key /\ gone \in SUBSET Key
  BY DEF Listed
<1>6. Cardinality(listed) \in Nat /\ Cardinality(gone) \in Nat
  BY <1>5, FS_Subset, FS_CardinalityType, InformerAssumption
<1>7. /\ initialPopulationCount' = IF populated THEN initialPopulationCount
                                   ELSE Cardinality(listed) + Cardinality(gone)
      /\ unlisted' = IF populated THEN unlisted ELSE listed
  BY DEF List, Populate
<1>8. overlooked' \in SUBSET Key
  BY <1>3 DEF Overlooked
<1> HIDE DEF its, listed, gone
<1>9. initialPopulationCount' \in Nat /\ unlisted' \in SUBSET Key
  BY <1>5, <1>6, <1>7 DEF TypeOK
<1>10. TypeOK' /\ KeptInv' /\ QueueIsItems'
  <2>1. \A k \in Key \ Key : its[k] = items[k]
    OBVIOUS
  <2>2. \A k \in Key \ overlooked' : EndsAt(its, k, log[seen'][k])
    BY <1>1, <1>3
  <2> QED
    BY <1>1, <1>2, <1>3, <1>4, <1>8, <1>9, <2>1, <2>2, EnqueueTypes
<1>11. /\ items' = its /\ queue' \in Seq(Key) /\ QueueIsItems'
       /\ Len(queue') = Len(queue) + Cardinality(Fresh(its, Key))
       /\ \A j \in 1..Len(queue) : j \in 1..Len(queue') /\ queue'[j] = queue[j]
  BY <1>1, <1>2, <1>3, EnqueueFacts
<1>12. FirstListInv'
  <2>1. CASE populated
    BY <1>3, <1>7, <1>11, <2>1, FirstListKept DEF process
  <2>2. CASE ~populated
    <3>1. items = [k \in Key |-> <<>>] /\ queue = <<>> /\ indexer = [k \in Key |-> None]
      BY <2>2 DEF KeptInv, NothingBefore
    <3>2. gone = {}
      BY <3>1 DEF gone
    <3>3. Fresh(its, Key) = listed
      <4>1. ASSUME NEW k \in Key, log[i][k] = None
            PROVE  its[k] = <<>>
        BY <3>1, <4>1 DEF its, ReplaceDeltas
      <4> QED
        BY <1>1, <3>1, <4>1 DEF Fresh, listed, Listed
    <3>4. Len(queue') = Cardinality(listed) /\ initialPopulationCount' = Len(queue')
      BY <1>6, <1>7, <1>11, <2>2, <3>1, <3>2, <3>3, FS_EmptySet, EmptySeq
    <3>5. unlisted' = listed /\ \A k \in listed : k \in Key /\ its[k] # <<>>
      BY <1>1, <1>7, <2>2 DEF listed, Listed
    <3>6. ASSUME NEW k \in listed
          PROVE  \E j \in 1..Len(queue') : j <= initialPopulationCount' /\ queue'[j] = k
      <4>1. DOMAIN queue' = 1..Len(queue')
        BY <1>11, SeqFacts
      <4>2. PICK j \in DOMAIN queue' : queue'[j] = k
        BY <1>11, <3>5, <3>6 DEF QueueIsItems
      <4> QED
        BY <3>4, <4>1, <4>2
    <3> QED
      BY <1>6, <3>4, <3>5, <3>6 DEF FirstListInv
  <2> QED
    BY <2>1, <2>2
<1> QED
  BY <1>10, <1>12

LEMMA WatchEventStep ==
    ASSUME InformerInv, NEW k \in Key, WatchEvent(k)
    PROVE  InformerInv'
<1> USE DEF InformerInv
<1> DEFINE now == log[seen + 1][k]
           type == EventType(log[seen][k], now)
           its == IF Ignored(k, type) THEN items
                  ELSE [items EXCEPT ![k] = QueueAction(@, type, now)]
<1>1. /\ Enqueue(its, {k}) /\ Unlocked /\ populated' = TRUE
      /\ phase' = "watch" /\ seen' = seen + 1 /\ overlooked' = overlooked \ {k}
      /\ UNCHANGED <<process, log, notes, told, breaks, initialPopulationCount,
                     unlisted>>
  BY DEF WatchEvent, process
<1>2. seen \in 1..Len(log) /\ seen + 1 \in 1..Len(log) /\ seen \in 1..(Len(log) - 1)
  <2>1. seen \in 0..Len(log) /\ Len(log) \in Nat /\ seen < Len(log) /\ seen > 0
    BY SeqFacts DEF TypeOK, WatchEvent, KeptInv, NothingBefore
  <2> QED
    BY <2>1
<1>3. log[seen] \in State /\ log[seen + 1] \in State
  BY <1>2, SeqFacts DEF TypeOK
<1>4. /\ now \in Version \cup {None}
      /\ type \in {"Deleted", "Added", "Updated"} /\ (type = "Deleted" <=> now = None)
  BY <1>3 DEF State, EventType
<1>5. ASSUME NEW l \in Key \ {k}
      PROVE  log[seen + 1][l] = log[seen][l]
  BY <1>2 DEF WatchEvent, KeptInv, OneChange
<1>6. /\ items \in [Key -> Seq(Delta)] /\ items[k] \in Seq(Delta) /\ Sound(items[k])
      /\ indexer \in State
  BY DEF TypeOK, KeptInv
<1> HIDE DEF now, type
<1>7. /\ QueueAction(items[k], type, now) \in Seq(Delta)
      /\ QueueAction(items[k], type, now) # <<>>
      /\ Sound(QueueAction(items[k], type, now))
      /\ NewestVersion(QueueAction(items[k], type, now)) = now
  <2>1. type \in DeltaType /\ (type = "Deleted" => now = None)
    BY <1>4 DEF DeltaType
  <2>2. WillObjectBeDeleted(items[k]) /\ type = "Sync" => FALSE
    BY <1>4
  <2> QED
    BY <1>4, <1>6, <2>1, <2>2, QueueActionFacts
<1>8. /\ its \in [Key -> Seq(Delta)]
      /\ \A l \in Key \ {k} : its[l] = items[l]
      /\ Ignored(k, type) => its[k] = items[k]
      /\ ~Ignored(k, type) => its[k] = QueueAction(items[k], type, now)
  BY <1>6, <1>7
<1> HIDE DEF its
<1>9. \A l \in Key : (items[l] # <<>> => its[l] # <<>>) /\ Sound(its[l])
  BY <1>7, <1>8 DEF KeptInv
<1>10. ASSUME NEW l \in Key \ overlooked'
       PROVE  EndsAt(its, l, log[seen'][l])
  <2>1. CASE l = k /\ Ignored(k, type)
    BY <1>1, <1>4, <1>8, <2>1 DEF Ignored, EndsAt, now
  <2>2. CASE l = k /\ ~Ignored(k, type)
    BY <1>1, <1>7, <1>8, <2>2 DEF EndsAt, now
  <2>3. CASE l # k
    <3>1. l \in Key \ overlooked /\ busy # l
      BY <1>1, <1>10, <2>3, InformerAssumption DEF Unlocked
    <3>2. Final(l) = log[seen][l]
      BY <1>2, <3>1 DEF KeptInv, SeenIsKept
    <3> QED
      BY <1>1, <1>5, <1>8, <2>3, <3>1, <3>2 DEF Final, EndsAt
  <2> QED
    BY <2>1, <2>2, <2>3
<1>11. TypeOK' /\ KeptInv' /\ QueueIsItems'
  <2>1. /\ initialPopulationCount' \in Nat /\ unlisted' \in SUBSET Key
        /\ overlooked' \in SUBSET Key /\ seen' \in 1..Len(log)
    BY <1>1, <1>2 DEF TypeOK
  <2> QED
    BY <1>1, <1>8, <1>9, <1>10, <2>1, EnqueueTypes
<1>12. FirstListInv'
  <2>1. \A j \in 1..Len(queue) : j \in 1..Len(queue') /\ queue'[j] = queue[j]
    BY <1>1, <1>8, <1>9, EnqueueFacts
  <2>2. queue' \in Seq(Key)
    BY <1>11 DEF TypeOK
  <2> QED
    BY <1>1, <2>1, <2>2, FirstListKept DEF process
<1> QED
  BY <1>11, <1>12

LEMMA WatchBreaksStep ==
    ASSUME InformerInv, WatchBreaks
    PROVE  InformerInv'
<1> USE DEF InformerInv
<1>1. UNCHANGED <<log, seen, items, queue, populated, initialPopulationCount, busy,
                  left, unsent, indexer, notes, told, unlisted, overlooked>>
  BY DEF WatchBreaks, fifo, process
<1>2. TypeOK'
  BY <1>1, InformerAssumption DEF WatchBreaks, TypeOK
<1>3. KeptInv'
  BY <1>1 DEF WatchBreaks, KeptInv, OneChange, NothingBefore, ProcessInv, SeenIsKept,
     Final
<1>4. QueueIsItems' /\ FirstListInv'
  BY <1>1 DEF QueueIsItems, FirstListInv
<1> QED
  BY <1>2, <1>3, <1>4

LEMMA ResyncStep ==
    ASSUME InformerInv, Resync
    PROVE  InformerInv'
<1> USE DEF InformerInv
<1> DEFINE its == ResyncDeltas
<1>1. /\ Enqueue(its, Key) /\ Unlocked /\ seen > 0
      /\ UNCHANGED <<process, log, notes, told, breaks, initialPopulationCount, seen,
                     phase, populated, unlisted, overlooked>>
  BY DEF Resync, process
<1>2. items \in [Key -> Seq(Delta)] /\ indexer \in State
  BY DEF TypeOK
<1>3. \A k \in Key : its[k] = IF indexer[k] = None \/ items[k] # <<>> THEN items[k]
                              ELSE QueueAction(items[k], "Sync", indexer[k])
  BY DEF ResyncDeltas
<1>4. its = [k \in Key |-> its[k]]
  BY DEF ResyncDeltas
<1> HIDE DEF its
<1>5. ASSUME NEW k \in Key
      PROVE  /\ its[k] \in Seq(Delta) /\ Sound(its[k])
             /\ items[k] # <<>> => its[k] = items[k]
             /\ \/ its[k] = items[k]
                \/ its[k] # <<>> /\ NewestVersion(its[k]) = indexer[k]
  <2>1. /\ items[k] \in Seq(Delta) /\ Sound(items[k])
        /\ indexer[k] \in Version \cup {None}
    BY <1>2 DEF KeptInv, State
  <2>2. CASE indexer[k] = None \/ items[k] # <<>>
    BY <1>3, <2>1, <2>2
  <2>3. CASE ~(indexer[k] = None \/ items[k] # <<>>)
    <3>1. ~WillObjectBeDeleted(items[k])
      BY <2>3 DEF WillObjectBeDeleted
    <3> QED
      BY <1>3, <2>1, <2>3, <3>1, QueueActionFacts DEF DeltaType
  <2> QED
    BY <2>2, <2>3
<1>6. its \in [Key -> Seq(Delta)]
  BY <1>4, <1>5
<1>7. seen \in 1..Len(log) /\ populated
  <2>1. seen \in 0..Len(log) /\ Len(log) \in Nat /\ seen > 0
    BY <1>1, SeqFacts DEF TypeOK, KeptInv, NothingBefore
  <2> QED
    BY <2>1 DEF KeptInv, NothingBefore
<1>8. ASSUME NEW k \in Key \ overlooked
      PROVE  EndsAt(its, k, log[seen][k])
  <2>1. Final(k) = log[seen][k] /\ busy # k
    BY <1>1, <1>7, <1>8, InformerAssumption DEF KeptInv, SeenIsKept, Unlocked
  <2> QED
    BY <1>5, <2>1 DEF Final, EndsAt
<1>9. TypeOK' /\ KeptInv' /\ QueueIsItems'
  <2>1. /\ initialPopulationCount' \in Nat /\ unlisted' \in SUBSET Key
        /\ overlooked' \in SUBSET Key /\ populated' \in BOOLEAN
    BY <1>1 DEF TypeOK
  <2>2. \A k \in Key : items[k] # <<>> => its[k] # <<>>
    BY <1>5
  <2>4. phase' \in {"list", "watch"} /\ initialPopulationCount' \in Nat
    BY <1>1 DEF TypeOK
  <2>3. \A k \in Key \ Key : its[k] = items[k]
    OBVIOUS
  <2> QED
    BY <1>1, <1>5, <1>6, <1>7, <1>8, <2>1, <2>2, <2>3, <2>4, EnqueueTypes
<1>10. FirstListInv'
  <2>1. \A j \in 1..Len(queue) : j \in 1..Len(queue') /\ queue'[j] = queue[j]
    BY <1>1, <1>5, <1>6, EnqueueFacts
  <2>2. queue' \in Seq(Key)
    BY <1>9 DEF TypeOK
  <2> QED
    BY <1>1, <2>1, <2>2, FirstListKept DEF process
<1> QED
  BY <1>9, <1>10

-----------------------------------------------------------------------------
(* The steps of processLoop and of the listener.                             *)

LEMMA PopStep ==
    ASSUME InformerInv, Pop
    PROVE  InformerInv'
<1> USE DEF InformerInv
<1> DEFINE k == Head(queue)
<1>1. /\ queue \in Seq(Key) /\ queue # <<>> /\ Len(queue) \in Nat \ {0}
      /\ DOMAIN queue = 1..Len(queue) /\ k = queue[1] /\ k \in Key
      /\ Tail(queue) \in Seq(Key) /\ Len(Tail(queue)) = Len(queue) - 1
      /\ \A i \in 1..(Len(queue) - 1) : Tail(queue)[i] = queue[i + 1]
  BY SeqFacts, HeadTailProperties, EmptySeq DEF TypeOK, Pop
<1>2. items[k] # <<>>
  BY <1>1 DEF QueueIsItems
<1>3. /\ items' = [items EXCEPT ![k] = <<>>] /\ left' = items[k] /\ busy' = k
      /\ queue' = Tail(queue) /\ busy = NoKey /\ left = <<>> /\ unsent = <<>>
      /\ initialPopulationCount' = IF initialPopulationCount > 0
                                   THEN initialPopulationCount - 1 ELSE 0
      /\ UNCHANGED <<log, seen, phase, populated, unsent, indexer, notes, breaks,
                     told, unlisted, overlooked>>
  BY <1>2 DEF Pop, Unlocked, KeptInv, ProcessInv
<1>4. items \in [Key -> Seq(Delta)] /\ items[k] \in Seq(Delta) /\ <<>> \in Seq(Delta)
  BY <1>1, EmptySeq DEF TypeOK
<1>5. k # NoKey
  BY <1>1, InformerAssumption
<1> HIDE DEF k
<1>6. TypeOK'
  <2>1. initialPopulationCount' \in Nat
    BY <1>3 DEF TypeOK
  <2>2. items' \in [Key -> Seq(Delta)]
    BY <1>1, <1>3, <1>4
  <2> QED
    BY <1>1, <1>3, <1>4, <2>1, <2>2 DEF TypeOK
<1>7. KeptInv'
  <2>1. \A l \in Key : Sound(items[l])'
    <3>1. Sound(<<>>)
      BY DEF Sound
    <3> QED
      BY <1>3, <1>4, <3>1 DEF KeptInv, Sound
  <2>2. OneChange'
    BY <1>3 DEF KeptInv, OneChange
  <2>3. populated
    BY <1>1 DEF KeptInv, NothingBefore
  <2>4. NothingBefore' /\ ProcessInv'
    BY <1>2, <1>3, <1>5, <2>3 DEF KeptInv, NothingBefore, ProcessInv
  <2>5. SeenIsKept'
    <3>1. SUFFICES ASSUME seen > 0, NEW l \in Key \ overlooked
                   PROVE  Final(l)' = log[seen][l]
      BY <1>3 DEF SeenIsKept
    <3>2. Final(l) = log[seen][l]
      BY <3>1 DEF KeptInv, SeenIsKept
    <3>3. l # NoKey
      BY InformerAssumption
    <3>4. CASE l = k
      BY <1>2, <1>3, <1>4, <3>2, <3>4 DEF Final, NewestVersion
    <3>5. CASE l # k
      BY <1>3, <1>4, <3>2, <3>3, <3>5 DEF Final, NewestVersion
    <3> QED
      BY <3>4, <3>5
  <2> QED
    BY <2>1, <2>2, <2>4, <2>5 DEF KeptInv
<1>8. QueueIsItems'
  <2>1. /\ \A i \in 1..Len(queue) : queue[i] \in Key /\ items[queue[i]] # <<>>
        /\ \A l \in Key : items[l] # <<>> => \E i \in 1..Len(queue) : queue[i] = l
        /\ \A i, j \in 1..Len(queue) : queue[i] = queue[j] => i = j
    BY <1>1 DEF QueueIsItems
  <2>2. DOMAIN queue' = 1..(Len(queue) - 1)
    BY <1>1, <1>3, SeqFacts
  <2>3. ASSUME NEW i \in 1..(Len(queue) - 1)
        PROVE  /\ i + 1 \in 1..Len(queue) /\ queue'[i] = queue[i + 1]
               /\ queue'[i] # k
    <3>1. i + 1 \in 1..Len(queue) /\ 1 \in 1..Len(queue) /\ i + 1 # 1
      BY <1>1
    <3> QED
      BY <1>1, <1>3, <2>1, <3>1
  <2>4. ASSUME NEW l \in Key
        PROVE  items'[l] # <<>> <=> items[l] # <<>> /\ l # k
    BY <1>1, <1>3, <1>4
  <2>5. \A i \in DOMAIN queue' : queue'[i] \in {l \in Key : items'[l] # <<>>}
    BY <2>1, <2>2, <2>3, <2>4
  <2>6. ASSUME NEW l \in Key, items'[l] # <<>>
        PROVE  \E i \in DOMAIN queue' : queue'[i] = l
    <3>1. PICK i \in 1..Len(queue) : queue[i] = l
      BY <2>1, <2>4, <2>6
    <3>2. i # 1
      BY <1>1, <2>4, <2>6, <3>1
    <3>3. i - 1 \in 1..(Len(queue) - 1) /\ (i - 1) + 1 = i
      BY <1>1, <3>2
    <3> QED
      BY <2>2, <2>3, <3>1, <3>3
  <2>7. ASSUME NEW i \in DOMAIN queue', NEW j \in DOMAIN queue', queue'[i] = queue'[j]
        PROVE  i = j
    <3>1. i + 1 = j + 1
      BY <2>1, <2>2, <2>3, <2>7
    <3> QED
      BY <1>1, <2>2, <3>1
  <2> QED
    BY <2>5, <2>6, <2>7 DEF QueueIsItems
<1>9. FirstListInv'
  <2>1. initialPopulationCount \in Nat /\ initialPopulationCount <= Len(queue)
    BY DEF TypeOK, FirstListInv
  <2>2. initialPopulationCount' <= Len(queue')
    BY <1>1, <1>3, <2>1
  <2>3. SUFFICES ASSUME NEW l \in unlisted, l # k
                 PROVE  \E i \in 1..Len(queue') :
                           i <= initialPopulationCount' /\ queue'[i] = l
    BY <1>3, <2>2 DEF FirstListInv
  <2>4. l # NoKey
    BY InformerAssumption DEF TypeOK
  <2>5. PICK i \in 1..Len(queue) : i <= initialPopulationCount /\ queue[i] = l
    BY <1>3, <2>4 DEF FirstListInv
  <2>6. i # 1
    BY <1>1, <2>3, <2>5
  <2>7. /\ i - 1 \in 1..(Len(queue) - 1) /\ (i - 1) + 1 = i
        /\ i - 1 <= initialPopulationCount'
    BY <1>1, <1>3, <2>5, <2>6, <2>1
  <2>8. queue'[i - 1] = l
    BY <1>1, <1>3, <2>5, <2>7
  <2> QED
    BY <1>1, <1>3, <2>7, <2>8
<1> QED
  BY <1>6, <1>7, <1>8, <1>9

LEMMA StoreStep ==
    ASSUME InformerInv, Store
    PROVE  InformerInv'
<1> USE DEF InformerInv
<1>1. /\ busy \in Key /\ busy # NoKey /\ unsent = <<>> /\ left \in Seq(Delta)
      /\ left # <<>> /\ Head(left) = left[1] /\ left[1] \in Delta
      /\ left[1].ver \in Version \cup {None}
  <2>1. left # <<>> /\ busy \in Key /\ left \in Seq(Delta)
    BY DEF Store, TypeOK, KeptInv, ProcessInv
  <2>2. Head(left) = left[1] /\ left[1] \in Delta
    BY <2>1, HeadTailProperties
  <2> QED
    BY <2>1, <2>2 DEF Store, Delta
<1>2. /\ indexer' = [indexer EXCEPT ![busy] = left[1].ver]
      /\ unsent' = <<NoteOf(left[1])>>
      /\ UNCHANGED <<log, seen, phase, items, queue, populated,
                     initialPopulationCount, busy, left, notes, breaks, told,
                     unlisted, overlooked>>
  BY <1>1 DEF Store, fifo
<1>3. NoteOf(left[1]) \in Note
  BY <1>1 DEF NoteOf, NoteType, Note
<1>4. indexer \in State /\ indexer' \in State /\ indexer'[busy] = left[1].ver
      /\ \A l \in Key \ {busy} : indexer'[l] = indexer[l]
  BY <1>1, <1>2 DEF TypeOK, State
<1>5. TypeOK'
  BY <1>2, <1>3, <1>4 DEF TypeOK
<1>6. KeptInv'
  <2>1. populated
    BY <1>1 DEF KeptInv, NothingBefore
  <2>2. \A l \in Key : Final(l)' = Final(l)
    BY <1>2, <1>4 DEF Final, NewestVersion
  <2> QED
    BY <1>1, <1>2, <1>4, <2>1, <2>2
       DEF KeptInv, OneChange, NothingBefore, ProcessInv, SeenIsKept
<1>7. QueueIsItems' /\ FirstListInv'
  BY <1>2 DEF QueueIsItems, FirstListInv
<1> QED
  BY <1>5, <1>6, <1>7

LEMMA DistributeStep ==
    ASSUME InformerInv, Distribute
    PROVE  InformerInv'
<1> USE DEF InformerInv
<1>1. /\ busy \in Key /\ busy # NoKey /\ left \in Seq(Delta) /\ left # <<>>
      /\ indexer[busy] = left[1].ver /\ unsent \in Seq(Note) /\ notes \in Seq(Note)
      /\ Len(left) \in Nat \ {0}
  BY EmptySeq DEF Distribute, TypeOK, KeptInv, ProcessInv
<1>2. /\ Tail(left) \in Seq(Delta) /\ Len(Tail(left)) = Len(left) - 1
      /\ \A i \in 1..(Len(left) - 1) : Tail(left)[i] = left[i + 1]
  BY <1>1, HeadTailProperties
<1>3. /\ notes' = notes \o unsent /\ unsent' = <<>> /\ left' = Tail(left)
      /\ busy' = IF Len(left) = 1 THEN NoKey ELSE busy
      /\ unlisted' = IF Len(left) = 1 THEN unlisted \ {busy} ELSE unlisted
      /\ UNCHANGED <<log, seen, phase, items, queue, populated,
                     initialPopulationCount, indexer, breaks, told, overlooked>>
  BY DEF Distribute, fifo
<1>4. left' = <<>> <=> Len(left) = 1
  <2>1. Tail(left) = <<>> <=> Len(Tail(left)) = 0
    BY <1>2, SeqFacts
  <2> QED
    BY <1>1, <1>2, <1>3, <2>1
<1>5. TypeOK'
  <2>1. notes' \in Seq(Note)
    BY <1>1, <1>3, ConcatProperties
  <2>2. unsent' \in Seq(Note)
    BY <1>3, EmptySeq
  <2> QED
    BY <1>1, <1>2, <1>3, <2>1, <2>2 DEF TypeOK
<1>6. ASSUME NEW l \in Key
      PROVE  Final(l)' = Final(l)
  <2>1. l # NoKey
    BY InformerAssumption
  <2>2. CASE l # busy
    BY <1>3, <2>1, <2>2 DEF Final, NewestVersion
  <2>3. CASE l = busy /\ Len(left) = 1
    BY <1>1, <1>3, <2>1, <2>3 DEF Final, NewestVersion
  <2>4. CASE l = busy /\ Len(left) # 1
    <3>1. /\ Len(left) - 1 \in 1..(Len(left) - 1) /\ (Len(left) - 1) + 1 = Len(left)
          /\ Len(left') = Len(left) - 1
      BY <1>1, <1>2, <1>3, <2>4
    <3>2. left'[Len(left')] = left[Len(left)]
      BY <1>2, <1>3, <3>1
    <3> QED
      BY <1>3, <2>1, <2>4, <3>2 DEF Final, NewestVersion
  <2> QED
    BY <2>2, <2>3, <2>4
<1>7. KeptInv'
  <2>1. populated
    BY <1>1 DEF KeptInv, NothingBefore
  <2>2. ProcessInv'
    BY <1>1, <1>3, <1>4 DEF ProcessInv
  <2> QED
    BY <1>3, <1>6, <2>1, <2>2 DEF KeptInv, OneChange, NothingBefore, SeenIsKept
<1>8. QueueIsItems' /\ FirstListInv'
  <2>1. QueueIsItems'
    BY <1>3 DEF QueueIsItems
  <2>2. FirstListInv'
    BY <1>3 DEF FirstListInv
  <2> QED
    BY <2>1, <2>2
<1> QED
  BY <1>5, <1>7, <1>8

LEMMA DeliverStep ==
    ASSUME InformerInv, Deliver
    PROVE  InformerInv'
<1> USE DEF InformerInv
<1>1. UNCHANGED <<log, seen, phase, items, queue, populated, initialPopulationCount,
                  busy, left, unsent, indexer, breaks, unlisted, overlooked>>
  BY DEF Deliver, fifo, process
<1>2. TypeOK'
  <2>1. Head(notes) \in Note /\ Tail(notes) \in Seq(Note)
    BY HeadTailProperties DEF Deliver, TypeOK
  <2>2. told' \in State
    BY <2>1 DEF Deliver, TypeOK, State, Note
  <2> QED
    BY <1>1, <2>1, <2>2 DEF Deliver, TypeOK
<1>3. KeptInv'
  BY <1>1 DEF KeptInv, OneChange, NothingBefore, ProcessInv, SeenIsKept, Final
<1>4. QueueIsItems' /\ FirstListInv'
  BY <1>1 DEF QueueIsItems, FirstListInv
<1> QED
  BY <1>2, <1>3, <1>4

-----------------------------------------------------------------------------

LEMMA InformerInit == Init => InformerInv
<1>1. SUFFICES ASSUME Init
               PROVE  InformerInv
  OBVIOUS
<1>2. PICK S \in SUBSET Key : log = <<[k \in Key |-> IF k \in S THEN 1 ELSE None]>>
  BY <1>1 DEF Init
<1>3. log \in Seq(State) /\ Len(log) = 1
  <2>1. 1 \in Version
    BY InformerAssumption DEF Version
  <2>2. [k \in Key |-> IF k \in S THEN 1 ELSE None] \in State
    BY <2>1 DEF State
  <2> QED
    BY <1>2, <2>2
<1>4. /\ seen = 0 /\ phase = "list" /\ items = [k \in Key |-> <<>>] /\ queue = <<>>
      /\ populated = FALSE /\ initialPopulationCount = 0 /\ busy = NoKey
      /\ left = <<>> /\ unsent = <<>> /\ indexer = [k \in Key |-> None]
      /\ notes = <<>> /\ breaks = 0 /\ told = [k \in Key |-> None]
      /\ unlisted = {} /\ overlooked = {}
  BY <1>1 DEF Init
<1>5. TypeOK
  <2>1. Len(log) \in 1..MaxVersion /\ seen \in 0..Len(log) /\ breaks \in 0..MaxBreaks
    BY <1>3, <1>4, InformerAssumption
  <2>2. items \in [Key -> Seq(Delta)] /\ queue \in Seq(Key) /\ left \in Seq(Delta)
        /\ unsent \in Seq(Note) /\ notes \in Seq(Note)
    BY <1>4, EmptySeq
  <2>3. indexer \in State /\ told \in State
    BY <1>4 DEF State
  <2> QED
    BY <1>3, <1>4, <2>1, <2>2, <2>3 DEF TypeOK
<1>6. KeptInv
  <2>1. \A k \in Key : Sound(items[k])
    BY <1>4 DEF Sound
  <2>2. OneChange
    BY <1>3 DEF OneChange
  <2>3. NothingBefore /\ ProcessInv /\ SeenIsKept
    BY <1>4 DEF NothingBefore, ProcessInv, SeenIsKept
  <2> QED
    BY <2>1, <2>2, <2>3 DEF KeptInv
<1>7. QueueIsItems /\ FirstListInv
  BY <1>4 DEF QueueIsItems, FirstListInv
<1> QED
  BY <1>5, <1>6, <1>7 DEF InformerInv

LEMMA InformerNext == InformerInv /\ [Next]_vars => InformerInv'
<1>1. SUFFICES ASSUME InformerInv, [Next]_vars
               PROVE  InformerInv'
  OBVIOUS
<1>2. CASE \E k \in Key : Change(k)
  BY <1>1, <1>2, ChangeStep
<1>3. CASE Reflector
  BY <1>1, <1>3, ListStep, WatchEventStep, WatchBreaksStep, ResyncStep DEF Reflector
<1>4. CASE Processor
  BY <1>1, <1>4, PopStep, StoreStep, DistributeStep, DeliverStep DEF Processor
<1>5. CASE UNCHANGED vars
  <2> USE <1>5 DEF vars, fifo, process
  <2>1. TypeOK'
    BY <1>1 DEF InformerInv, TypeOK
  <2>2. KeptInv'
    BY <1>1 DEF InformerInv, KeptInv, OneChange, NothingBefore, ProcessInv,
       SeenIsKept, Final
  <2>3. QueueIsItems' /\ FirstListInv'
    BY <1>1 DEF InformerInv, QueueIsItems, FirstListInv
  <2> QED
    BY <2>1, <2>2, <2>3 DEF InformerInv
<1> QED
  BY <1>1, <1>2, <1>3, <1>4, <1>5 DEF Next

-----------------------------------------------------------------------------

\* The invariant of this module: log, deltas, queue, indexer and the count of
\* HasSynced agree.
THEOREM InformerInvariant == Spec => []InformerInv
<1> QED
  BY InformerInit, InformerNext, PTL DEF Spec

\* Every variable of an informer keeps its type.
THEOREM InformerTypeCorrect == Spec => []TypeOK
<1>1. InformerInv => TypeOK
  BY DEF InformerInv
<1> QED
  BY <1>1, InformerInvariant, PTL

\* Through lists, watch events, broken watches and resyncs, what the reflector
\* saw last of an object is what the DeltaFIFO and the indexer end at, apart
\* from the objects that Replace overlooks.
THEOREM NothingSeenIsLost == Spec => []SeenIsKept
<1>1. InformerInv => SeenIsKept
  BY DEF InformerInv, KeptInv
<1> QED
  BY <1>1, InformerInvariant, PTL

\* The keys in the DeltaFIFO's queue are those with items, and none is there
\* twice, whichever order Go's maps give to the keys of a Replace.
THEOREM QueueAgreesWithItems == Spec => []QueueIsItems
<1>1. InformerInv => QueueIsItems
  BY DEF InformerInv
<1> QED
  BY <1>1, InformerInvariant, PTL

\* HasSynced, and with it WaitForCacheSync, waits for the whole first list and
\* for no more Pops than there are keys to pop.
THEOREM SyncedIsComplete == Spec => []SyncedWithFirstList
<1>1. InformerInv => SyncedWithFirstList
  <2>1. SUFFICES ASSUME InformerInv, HasSynced, NEW k \in unlisted
                 PROVE  FALSE
    BY DEF SyncedWithFirstList, InformerInv, FirstListInv
  <2>2. k \in Key /\ k # NoKey
    BY <2>1, InformerAssumption DEF InformerInv, TypeOK
  <2>3. busy = NoKey /\ initialPopulationCount = 0
    BY <2>1 DEF HasSynced, Unlocked
  <2>4. PICK i \in 1..Len(queue) : i <= initialPopulationCount
    BY <2>1, <2>2, <2>3 DEF InformerInv, FirstListInv
  <2>5. Len(queue) \in Nat
    BY <2>1, SeqFacts DEF InformerInv, TypeOK
  <2> QED
    BY <2>3, <2>4, <2>5
<1> QED
  BY <1>1, InformerInvariant, PTL

-----------------------------------------------------------------------------
(***************************************************************************)
(* What the handler is told.  The notifications on their way lead from     *)
(* what it was told last to what the listers show, and each is of the type *)
(* that fits its predecessor.  That no deletion is sent of what is not     *)
(* there needs an invariant on the deltas: no two deletions follow each    *)
(* other, and the first delta is one only of an object that the indexer    *)
(* has.                                                                    *)
(***************************************************************************)

\* The deletions are the deltas without a version.
Exact(ds) == \A i \in 1..Len(ds) : ds[i].type = "Deleted" <=> ds[i].ver = None

\* No deletion follows a deletion ...
Inner(ds) == \A i \in 1..(Len(ds) - 1) : ds[i].ver # None \/ ds[i + 1].ver # None

\* ... and none comes first for an object that is not known.
First(ds, known) == ds # <<>> => known # None \/ ds[1].ver # None

DeltasInv ==
    /\ \A k \in Key : Exact(items[k]) /\ Inner(items[k]) /\ First(items[k], indexer[k])
    /\ busy # NoKey => items[busy] = <<>>
    /\ Inner(left)
    /\ unsent = <<>> /\ busy # NoKey => First(left, indexer[busy])

ToldInv == InformerInv /\ DeltasInv /\ ToldAsStored

-----------------------------------------------------------------------------
(* The handler's view.                                                       *)

\* A set of numbers up to n has a largest one.
LEMMA Largest ==
    ASSUME NEW n \in Nat, NEW T \in SUBSET (1..n), T # {}
    PROVE  \E m \in T : \A j \in T : j <= m
<1> DEFINE U == {n - i : i \in T}
<1>1. U \subseteq Nat /\ U # {}
  <2>1. \A i \in T : n - i \in Nat
    OBVIOUS
  <2>2. PICK i \in T : TRUE
    OBVIOUS
  <2> QED
    BY <2>1, <2>2
<1>2. PICK u \in U : \A v \in U : ~ (<<v, u>> \in OpToRel(<, Nat))
  BY <1>1, NatLessThanWellFounded, WFMin
<1>3. \A v \in U : ~(v < u)
  BY <1>1, <1>2 DEF OpToRel
<1>4. PICK m \in T : u = n - m
  BY <1>2
<1>5. ASSUME NEW j \in T
      PROVE  j <= m
  <2>1. ~(n - j < n - m)
    BY <1>3, <1>4
  <2> QED
    BY <2>1
<1> QED
  BY <1>5

\* View for what the handler was told last, t.
Of(s, n, k) == {i \in 1..n : s[i].key = k}
ViewFrom(t, s, n, k) ==
    IF Of(s, n, k) = {} THEN t[k]
    ELSE s[CHOOSE i \in Of(s, n, k) : \A j \in Of(s, n, k) : j <= i].ver

LEMMA ViewIsFrom == \A s, n, k : View(s, n, k) = ViewFrom(told, s, n, k)
BY DEF View, ViewFrom, Of

\* The view is that of the last notification of the key, which there is unless
\* there is none.
LEMMA ViewLast ==
    ASSUME NEW t, NEW s, NEW n \in Nat, NEW k,
           NEW m \in Of(s, n, k), \A j \in Of(s, n, k) : j <= m
    PROVE  ViewFrom(t, s, n, k) = s[m].ver
<1> DEFINE T == Of(s, n, k)
           c == CHOOSE i \in T : \A j \in T : j <= i
<1>1. T \in SUBSET (1..n)
  BY DEF Of
<1>2. T # {} /\ ViewFrom(t, s, n, k) = s[c].ver
  BY DEF ViewFrom
<1>3. c \in T /\ \A j \in T : j <= c
  OBVIOUS
<1>4. c <= m /\ m <= c /\ m \in Nat /\ c \in Nat
  BY <1>1, <1>3
<1>5. c = m
  BY <1>4
<1> QED
  BY <1>2, <1>5

LEMMA LastOf ==
    ASSUME NEW s, NEW n \in Nat, NEW k, Of(s, n, k) # {}
    PROVE  \E m \in Of(s, n, k) : \A j \in Of(s, n, k) : j <= m
BY Largest DEF Of

\* A view depends on the notifications up to n only.
LEMMA ViewPrefix ==
    ASSUME NEW t, NEW s, NEW u, NEW n \in Nat, NEW k,
           \A i \in 1..n : u[i] = s[i]
    PROVE  ViewFrom(t, u, n, k) = ViewFrom(t, s, n, k)
<1>1. Of(u, n, k) = Of(s, n, k)
  BY DEF Of
<1>2. CASE Of(s, n, k) = {}
  BY <1>1, <1>2 DEF ViewFrom
<1>3. CASE Of(s, n, k) # {}
  <2>1. PICK m \in Of(s, n, k) : \A j \in Of(s, n, k) : j <= m
    BY <1>3, LastOf
  <2>2. ViewFrom(t, s, n, k) = s[m].ver
    BY <2>1, ViewLast
  <2>3. ViewFrom(t, u, n, k) = u[m].ver
    BY <1>1, <2>1, ViewLast
  <2> QED
    BY <2>1, <2>2, <2>3 DEF Of
<1> QED
  BY <1>2, <1>3

\* With the next notification its key is seen at its version.
LEMMA ViewNext ==
    ASSUME NEW t, NEW s, NEW n \in Nat, NEW k
    PROVE  ViewFrom(t, s, n + 1, k) =
              IF s[n + 1].key = k THEN s[n + 1].ver ELSE ViewFrom(t, s, n, k)
<1>1. 1..(n + 1) = 1..n \cup {n + 1} /\ n + 1 \in Nat
  OBVIOUS
<1>2. CASE s[n + 1].key = k
  <2>1. n + 1 \in Of(s, n + 1, k) /\ \A j \in Of(s, n + 1, k) : j <= n + 1
    BY <1>2 DEF Of
  <2>2. ViewFrom(t, s, n + 1, k) = s[n + 1].ver
    BY <1>1, <2>1, ViewLast
  <2> QED
    BY <1>2, <2>2
<1>3. CASE s[n + 1].key # k
  <2>1. Of(s, n + 1, k) = Of(s, n, k)
    BY <1>1, <1>3 DEF Of
  <2>2. ViewFrom(t, s, n + 1, k) = ViewFrom(t, s, n, k)
    <3>1. CASE Of(s, n, k) = {}
      BY <2>1, <3>1 DEF ViewFrom
    <3>2. CASE Of(s, n, k) # {}
      <4>1. PICK m \in Of(s, n, k) : \A j \in Of(s, n, k) : j <= m
        BY <3>2, LastOf
      <4>2. ViewFrom(t, s, n, k) = s[m].ver
        BY <4>1, ViewLast
      <4>3. ViewFrom(t, s, n + 1, k) = s[m].ver
        BY <1>1, <2>1, <4>1, ViewLast
      <4> QED
        BY <4>2, <4>3
    <3> QED
      BY <3>1, <3>2
  <2> QED
    BY <1>3, <2>2
<1> QED
  BY <1>2, <1>3

\* u is s without the first; w is what the handler knew, t, and the first of s.
Follows(u, s, n) == \A i \in 1..n : u[i] = s[i + 1]
Learns(w, t, s, k) == w[k] = IF s[1].key = k THEN s[1].ver ELSE t[k]

\* When the handler has been told of the first one, the others give its views.
LEMMA ViewTail ==
    ASSUME NEW t, NEW s, NEW u, NEW w, NEW n \in Nat, NEW m \in Nat, m = n + 1,
           NEW k, Learns(w, t, s, k), Follows(u, s, n)
    PROVE  ViewFrom(w, u, n, k) = ViewFrom(t, s, m, k)
<1>1. \A i \in 1..n : i \in Of(u, n, k) <=> i + 1 \in Of(s, m, k)
  BY DEF Of, Follows
<1>2. /\ \A j \in Of(s, m, k) : j = 1 \/ (j - 1 \in 1..n /\ (j - 1) + 1 = j)
      /\ Of(u, n, k) \subseteq 1..n /\ m \in Nat /\ 1 \in 1..m
  BY DEF Of
<1>3. CASE Of(u, n, k) # {}
  <2>1. PICK z \in Of(u, n, k) : \A j \in Of(u, n, k) : j <= z
    BY <1>3, LastOf
  <2>2. z \in 1..n /\ z + 1 \in Of(s, m, k)
    BY <1>1, <1>2, <2>1
  <2>3. ASSUME NEW j \in Of(s, m, k)
        PROVE  j <= z + 1
    <3>1. CASE j = 1
      BY <2>2, <3>1
    <3>2. CASE j - 1 \in 1..n /\ (j - 1) + 1 = j
      <4>1. j - 1 \in Of(u, n, k)
        BY <1>1, <2>3, <3>2
      <4>2. j - 1 <= z
        BY <2>1, <4>1
      <4> QED
        BY <2>2, <3>2, <4>2
    <3> QED
      BY <1>2, <2>3, <3>1, <3>2
  <2>4. ViewFrom(w, u, n, k) = u[z].ver
    BY <2>1, ViewLast
  <2>5. ViewFrom(t, s, m, k) = s[z + 1].ver
    BY <1>2, <2>2, <2>3, ViewLast
  <2> QED
    BY <2>2, <2>4, <2>5 DEF Follows
<1>4. CASE Of(u, n, k) = {}
  <2>1. Of(s, m, k) \subseteq {1}
    BY <1>1, <1>2, <1>4
  <2>2. ViewFrom(w, u, n, k) = w[k]
    BY <1>4 DEF ViewFrom
  <2>3. CASE s[1].key = k
    <3>1. 1 \in Of(s, m, k) /\ \A j \in Of(s, m, k) : j <= 1
      BY <1>2, <2>1, <2>3 DEF Of
    <3>2. ViewFrom(t, s, m, k) = s[1].ver
      BY <1>2, <3>1, ViewLast
    <3> QED
      BY <2>2, <2>3, <3>2 DEF Learns
  <2>4. CASE s[1].key # k
    <3>1. Of(s, m, k) = {}
      BY <2>1, <2>4 DEF Of
    <3>2. ViewFrom(t, s, m, k) = t[k]
      BY <3>1 DEF ViewFrom
    <3> QED
      BY <2>2, <2>4, <3>2 DEF Learns
  <2> QED
    BY <2>3, <2>4
<1> QED
  BY <1>3, <1>4

\* What the handler has still to be told.
Untold == notes \o unsent

\* ToldAsStored for the notifications s, what was told, t, and the indexer x.
RightFor(t, s, x) ==
    /\ \A k \in Key : ViewFrom(t, s, Len(s), k) = x[k]
    /\ \A i \in 1..Len(s) :
          LET before == ViewFrom(t, s, i - 1, s[i].key)
          IN  /\ s[i].type = NoteType(before, s[i].ver)
              /\ before # None \/ s[i].ver # None

LEMMA ToldIsRight ==
    ASSUME TypeOK
    PROVE  ToldAsStored <=> RightFor(told, notes \o unsent, indexer)
<1>1. notes \o unsent \in Seq(Note)
  BY ConcatProperties DEF TypeOK
<1>2. DOMAIN (notes \o unsent) = 1..Len(notes \o unsent)
  BY <1>1, SeqFacts
<1> DEFINE s == notes \o unsent
<1>3. /\ \A n, k : View(s, n, k) = ViewFrom(told, s, n, k)
      /\ DOMAIN s = 1..Len(s)
  BY <1>2, ViewIsFrom
<1>4. ToldAsStored <=>
        /\ \A k \in Key : View(s, Len(s), k) = indexer[k]
        /\ \A i \in DOMAIN s :
              LET before == View(s, i - 1, s[i].key)
              IN  /\ s[i].type = NoteType(before, s[i].ver)
                  /\ before # None \/ s[i].ver # None
  BY DEF ToldAsStored
<1> HIDE DEF s
<1> QED
  BY <1>3, <1>4 DEF RightFor, s

\* The same of the next state.
LEMMA ToldIsRightNext ==
    ASSUME TypeOK'
    PROVE  ToldAsStored' <=> RightFor(told', notes' \o unsent', indexer')
<1>1. notes' \o unsent' \in Seq(Note)
  BY ConcatProperties DEF TypeOK
<1> DEFINE s == notes' \o unsent'
<1>2. DOMAIN s = 1..Len(s)
  BY <1>1, SeqFacts
<1> QED
  BY <1>2 DEF ToldAsStored, View, RightFor, ViewFrom, Of

\* One more notification that tells of the indexer's new version.
LEMMA RightAppend ==
    ASSUME NEW t \in State, NEW x \in State, NEW s \in Seq(Note), RightFor(t, s, x),
           NEW k \in Key, NEW v \in Version \cup {None},
           x[k] # None \/ v # None
    PROVE  RightFor(t, Append(s, [key |-> k, type |-> NoteType(x[k], v), ver |-> v]),
                    [x EXCEPT ![k] = v])
<1> DEFINE d == [key |-> k, type |-> NoteType(x[k], v), ver |-> v]
           u == Append(s, d)
           y == [x EXCEPT ![k] = v]
<1>1. d \in Note /\ d.key = k /\ d.ver = v /\ d.type = NoteType(x[k], v)
  BY DEF Note, NoteType
<1>2. y[k] = v /\ \A l \in Key \ {k} : y[l] = x[l]
  BY DEF State
<1> HIDE DEF d, y
<1>3. /\ Len(u) = Len(s) + 1 /\ Len(s) \in Nat /\ u[Len(s) + 1] = d
      /\ \A i \in 1..Len(s) : u[i] = s[i]
  BY <1>1, AppendProperties, SeqFacts
<1> HIDE DEF u
<1>4. ASSUME NEW n \in 0..Len(s), NEW l
      PROVE  ViewFrom(t, u, n, l) = ViewFrom(t, s, n, l)
  <2>1. n \in Nat /\ \A i \in 1..n : u[i] = s[i]
    BY <1>3
  <2> QED
    BY <2>1, ViewPrefix
<1>5. ASSUME NEW l \in Key
      PROVE  ViewFrom(t, u, Len(u), l) = y[l]
  <2>1. ViewFrom(t, s, Len(s), l) = x[l]
    BY DEF RightFor
  <2>2. ViewFrom(t, u, Len(s), l) = x[l]
    BY <1>3, <1>4, <2>1
  <2>3. ViewFrom(t, u, Len(s) + 1, l) =
           IF u[Len(s) + 1].key = l THEN u[Len(s) + 1].ver ELSE ViewFrom(t, u, Len(s), l)
    BY <1>3, ViewNext
  <2> QED
    BY <1>1, <1>2, <1>3, <2>2, <2>3
<1>6. ASSUME NEW i \in 1..Len(u)
      PROVE  LET before == ViewFrom(t, u, i - 1, u[i].key)
             IN  /\ u[i].type = NoteType(before, u[i].ver)
                 /\ before # None \/ u[i].ver # None
  <2>1. CASE i \in 1..Len(s)
    <3>1. i - 1 \in 0..Len(s) /\ u[i] = s[i]
      BY <1>3, <2>1
    <3>2. ViewFrom(t, u, i - 1, u[i].key) = ViewFrom(t, s, i - 1, s[i].key)
      BY <1>4, <3>1
    <3> QED
      BY <2>1, <3>1, <3>2 DEF RightFor
  <2>2. CASE i = Len(s) + 1
    <3>1. i - 1 = Len(s) /\ i - 1 \in 0..Len(s) /\ u[i] = d
      BY <1>3, <2>2
    <3>2. ViewFrom(t, u, i - 1, k) = x[k]
      BY <1>4, <3>1 DEF RightFor
    <3> QED
      BY <1>1, <3>1, <3>2
  <2>3. i \in 1..Len(s) \/ i = Len(s) + 1
    BY <1>3
  <2> QED
    BY <2>1, <2>2, <2>3
<1> QED
  BY <1>5, <1>6 DEF RightFor, u, d, y

\* When the handler takes the first notification, it views next what it
\* would have viewed one notification later.
LEMMA ViewsTail ==
    ASSUME NEW t \in State, NEW s \in Seq(Note), s # <<>>,
           NEW n \in 0..(Len(s) - 1), NEW l \in Key
    PROVE  ViewFrom([t EXCEPT ![s[1].key] = s[1].ver], Tail(s), n, l) =
              ViewFrom(t, s, n + 1, l)
<1> DEFINE w == [t EXCEPT ![s[1].key] = s[1].ver]
           u == Tail(s)
<1>1. /\ Len(s) \in Nat \ {0} /\ u \in Seq(Note) /\ Len(u) = Len(s) - 1
      /\ \A i \in 1..(Len(s) - 1) : u[i] = s[i + 1]
      /\ 1 \in 1..Len(s) /\ s[1] \in Note /\ s[1].key \in Key
  <2>1. Len(s) \in Nat \ {0} /\ 1 \in 1..Len(s)
    BY EmptySeq
  <2>2. s[1] \in Note
    BY <2>1, SeqFacts
  <2> QED
    BY <2>1, <2>2, HeadTailProperties DEF Note
<1>2. Learns(w, t, s, l)
  BY <1>1 DEF State, Learns
<1> HIDE DEF w, u
<1>3. n \in Nat /\ Follows(u, s, n)
  BY <1>1 DEF Follows
<1>4. PICK m \in Nat : m = n + 1
  BY <1>3
<1>5. ViewFrom(w, u, n, l) = ViewFrom(t, s, m, l)
  BY <1>2, <1>3, <1>4, ViewTail
<1> QED
  BY <1>4, <1>5 DEF w, u

LEMMA RightTail ==
    ASSUME NEW t \in State, NEW x \in State, NEW s \in Seq(Note), s # <<>>,
           RightFor(t, s, x)
    PROVE  RightFor([t EXCEPT ![s[1].key] = s[1].ver], Tail(s), x)
<1> DEFINE w == [t EXCEPT ![s[1].key] = s[1].ver]
           u == Tail(s)
<1>1. /\ Len(s) \in Nat \ {0} /\ u \in Seq(Note) /\ Len(u) = Len(s) - 1
      /\ \A i \in 1..(Len(s) - 1) : u[i] = s[i + 1]
      /\ 1 \in 1..Len(s) /\ s[1] \in Note /\ s[1].key \in Key
  <2>1. Len(s) \in Nat \ {0} /\ 1 \in 1..Len(s)
    BY EmptySeq
  <2>2. s[1] \in Note
    BY <2>1, SeqFacts
  <2> QED
    BY <2>1, <2>2, HeadTailProperties DEF Note
<1>2. \A i \in 1..Len(s) : s[i].key \in Key
  <2>1. \A i \in 1..Len(s) : s[i] \in Note
    BY SeqFacts
  <2> QED
    BY <2>1 DEF Note
<1>3. \A n \in 0..(Len(s) - 1), l \in Key :
         ViewFrom(w, u, n, l) = ViewFrom(t, s, n + 1, l)
  BY ViewsTail
<1> HIDE DEF w, u
<1>4. ASSUME NEW l \in Key
      PROVE  ViewFrom(w, u, Len(u), l) = x[l]
  <2>1. Len(u) \in 0..(Len(s) - 1) /\ Len(u) + 1 = Len(s)
    BY <1>1
  <2> QED
    BY <1>3, <2>1 DEF RightFor
<1>5. ASSUME NEW i \in 1..Len(u)
      PROVE  LET before == ViewFrom(w, u, i - 1, u[i].key)
             IN  /\ u[i].type = NoteType(before, u[i].ver)
                 /\ before # None \/ u[i].ver # None
  <2>1. /\ i + 1 \in 1..Len(s) /\ i - 1 \in 0..(Len(s) - 1)
        /\ (i - 1) + 1 = (i + 1) - 1 /\ u[i] = s[i + 1]
    BY <1>1
  <2>2. ViewFrom(w, u, i - 1, u[i].key) = ViewFrom(t, s, (i + 1) - 1, s[i + 1].key)
    BY <1>2, <1>3, <2>1
  <2> QED
    BY <2>1, <2>2 DEF RightFor
<1> QED
  BY <1>4, <1>5 DEF RightFor, w, u

-----------------------------------------------------------------------------
(* The deltas.                                                               *)

\* Queueing a delta makes no two deletions in a row, and none comes first if
\* the object is known or the delta is none.
LEMMA QueueActionKeeps ==
    ASSUME NEW ds \in Seq(Delta), Exact(ds), Inner(ds), NEW known, First(ds, known),
           NEW type \in DeltaType, NEW ver \in Version \cup {None},
           type = "Deleted" <=> ver = None,
           ds = <<>> => known # None \/ ver # None
    PROVE  LET new == QueueAction(ds, type, ver)
           IN  Exact(new) /\ Inner(new) /\ First(new, known)
<1> DEFINE d == [type |-> type, ver |-> ver]
           u == Append(ds, d)
<1>1. d \in Delta /\ d.type = type /\ d.ver = ver
  BY DEF Delta
<1> HIDE DEF d
<1>2. /\ Len(u) = Len(ds) + 1 /\ u[Len(ds) + 1] = d /\ Len(ds) \in Nat
      /\ \A i \in 1..Len(ds) : u[i] = ds[i]
      /\ ds = <<>> <=> Len(ds) = 0
  BY <1>1, AppendProperties, SeqFacts
<1> HIDE DEF u
<1>3. CASE WillObjectBeDeleted(ds) /\ type \in {"Sync", "Deleted"}
  BY <1>3 DEF QueueAction
<1>4. CASE ~(WillObjectBeDeleted(ds) /\ type \in {"Sync", "Deleted"})
  <2>1. QueueAction(ds, type, ver) = u
    BY <1>4 DEF QueueAction, u, d
  <2>2. Exact(u)
    <3>1. \A i \in 1..Len(u) : i \in 1..Len(ds) \/ i = Len(ds) + 1
      BY <1>2
    <3> QED
      BY <1>1, <1>2, <3>1 DEF Exact
  <2>3. Inner(u)
    <3>1. SUFFICES ASSUME NEW i \in 1..(Len(u) - 1)
                   PROVE  u[i].ver # None \/ u[i + 1].ver # None
      BY DEF Inner
    <3>2. CASE i \in 1..(Len(ds) - 1)
      <4>1. i \in 1..Len(ds) /\ i + 1 \in 1..Len(ds)
        BY <1>2, <3>2
      <4> QED
        BY <1>2, <3>2, <4>1 DEF Inner
    <3>3. CASE i = Len(ds)
      <4>1. i \in 1..Len(ds) /\ ds # <<>> /\ u[i] = ds[Len(ds)] /\ u[i + 1] = d
        BY <1>2, <3>1, <3>3
      <4>2. ver = None => ~WillObjectBeDeleted(ds)
        BY <1>4
      <4>3. ~WillObjectBeDeleted(ds) => ds[Len(ds)].ver # None
        BY <3>3, <4>1 DEF WillObjectBeDeleted, Exact
      <4> QED
        BY <1>1, <4>1, <4>2, <4>3
    <3>4. i \in 1..(Len(ds) - 1) \/ i = Len(ds)
      BY <1>2, <3>1
    <3> QED
      BY <3>2, <3>3, <3>4
  <2>4. First(u, known)
    <3>1. CASE ds = <<>>
      BY <1>1, <1>2, <3>1 DEF First
    <3>2. CASE ds # <<>>
      <4>1. 1 \in 1..Len(ds) /\ u[1] = ds[1]
        BY <1>2, <3>2
      <4> QED
        BY <3>2, <4>1 DEF First
    <3> QED
      BY <3>1, <3>2
  <2> QED
    BY <2>1, <2>2, <2>3, <2>4
<1> QED
  BY <1>3, <1>4

\* An Enqueue of deltas that are in order.
LEMMA EnqueueKeeps ==
    ASSUME ToldInv, NEW its \in [Key -> Seq(Delta)], items' = its, Unlocked,
           UNCHANGED <<process, notes, told>>, TypeOK',
           \A k \in Key : Exact(its[k]) /\ Inner(its[k]) /\ First(its[k], indexer[k])
    PROVE  DeltasInv' /\ ToldAsStored'
<1>1. UNCHANGED <<busy, left, unsent, indexer, notes, told>>
  BY DEF process
<1>2. DeltasInv'
  <2>1. \A k \in Key : Exact(items'[k]) /\ Inner(items'[k]) /\ First(items'[k], indexer'[k])
    BY <1>1
  <2> QED
    BY <1>1, <2>1 DEF ToldInv, DeltasInv, Unlocked
<1>3. ToldAsStored'
  BY <1>1, ToldIsRight, ToldIsRightNext DEF ToldInv, InformerInv
<1> QED
  BY <1>2, <1>3

LEMMA ListTold ==
    ASSUME ToldInv, NEW i \in DOMAIN log, List(i)
    PROVE  ToldInv'
<1> DEFINE its == ReplaceDeltas(log[i])
<1>1. InformerInv'
  BY ListStep DEF ToldInv
<1>2. \A k \in Key : its[k] \in Seq(Delta)
  BY ReplaceFacts DEF ToldInv, InformerInv
<1>3. its \in [Key -> Seq(Delta)] /\ items' = its
  <2>1. its = [k \in Key |-> its[k]]
    BY DEF ReplaceDeltas
  <2>2. items' = its
    BY DEF List, Enqueue
  <2> HIDE DEF its
  <2> QED
    BY <1>2, <2>1, <2>2
<1>4. log[i] \in State /\ indexer \in State /\ items \in [Key -> Seq(Delta)]
  BY SeqFacts DEF ToldInv, InformerInv, TypeOK
<1>5. ASSUME NEW k \in Key
      PROVE  Exact(its[k]) /\ Inner(its[k]) /\ First(its[k], indexer[k])
  <2>1. its[k] = IF log[i][k] # None THEN QueueAction(items[k], "Sync", log[i][k])
                 ELSE IF indexer[k] # None THEN QueueAction(items[k], "Deleted", None)
                 ELSE items[k]
    BY DEF ReplaceDeltas
  <2>2. /\ Exact(items[k]) /\ Inner(items[k]) /\ First(items[k], indexer[k])
        /\ items[k] \in Seq(Delta) /\ log[i][k] \in Version \cup {None}
    BY <1>4 DEF ToldInv, DeltasInv, State
  <2> HIDE DEF its
  <2>3. CASE log[i][k] # None
    BY <2>1, <2>2, <2>3, QueueActionKeeps DEF DeltaType
  <2>4. CASE log[i][k] = None /\ indexer[k] # None
    BY <2>1, <2>2, <2>4, QueueActionKeeps DEF DeltaType
  <2>5. CASE log[i][k] = None /\ indexer[k] = None
    BY <2>1, <2>2, <2>5
  <2> QED
    BY <2>3, <2>4, <2>5
<1>6. Unlocked /\ UNCHANGED <<process, notes, told>>
  BY DEF List
<1> HIDE DEF its
<1> QED
  BY <1>1, <1>3, <1>5, <1>6, EnqueueKeeps DEF ToldInv, InformerInv

LEMMA WatchEventTold ==
    ASSUME ToldInv, NEW k \in Key, WatchEvent(k)
    PROVE  ToldInv'
<1> DEFINE now == log[seen + 1][k]
           type == EventType(log[seen][k], now)
           its == IF Ignored(k, type) THEN items
                  ELSE [items EXCEPT ![k] = QueueAction(@, type, now)]
<1>1. InformerInv'
  BY WatchEventStep DEF ToldInv
<1>2. items' = its /\ Unlocked /\ UNCHANGED <<process, notes, told>>
  BY DEF WatchEvent, Enqueue
<1>3. /\ items \in [Key -> Seq(Delta)] /\ items[k] \in Seq(Delta)
      /\ items' \in [Key -> Seq(Delta)]
  BY <1>1 DEF ToldInv, InformerInv, TypeOK
<1>4. now \in Version \cup {None}
  <2>1. seen + 1 \in 1..Len(log)
    BY SeqFacts DEF WatchEvent, ToldInv, InformerInv, TypeOK
  <2> QED
    BY <2>1, SeqFacts DEF ToldInv, InformerInv, TypeOK, State
<1>5. type \in DeltaType /\ type # "Sync" /\ (type = "Deleted" <=> now = None)
  BY DEF EventType, DeltaType
<1> HIDE DEF now, type
<1>6. ASSUME NEW l \in Key
      PROVE  Exact(its[l]) /\ Inner(its[l]) /\ First(its[l], indexer[l])
  <2>1. /\ Exact(items[l]) /\ Inner(items[l]) /\ First(items[l], indexer[l])
        /\ Sound(items[l])
    BY DEF ToldInv, DeltasInv, InformerInv, KeptInv
  <2>2. CASE Ignored(k, type) \/ l # k
    BY <1>3, <2>1, <2>2
  <2>3. CASE ~Ignored(k, type) /\ l = k
    <3>1. its[k] = QueueAction(items[k], type, now)
      BY <1>3, <2>3
    <3>2. items[k] = <<>> => indexer[k] # None \/ now # None
      BY <1>5, <2>3 DEF Ignored
    <3> HIDE DEF its
    <3> QED
      BY <1>3, <1>4, <1>5, <2>1, <2>3, <3>1, <3>2, QueueActionKeeps
  <2> QED
    BY <2>2, <2>3
<1> HIDE DEF its
<1> QED
  BY <1>1, <1>2, <1>3, <1>6, EnqueueKeeps DEF ToldInv, InformerInv

LEMMA ResyncTold ==
    ASSUME ToldInv, Resync
    PROVE  ToldInv'
<1>1. InformerInv'
  BY ResyncStep DEF ToldInv
<1>2. /\ items' = ResyncDeltas /\ Unlocked /\ UNCHANGED <<process, notes, told>>
      /\ items' \in [Key -> Seq(Delta)]
  BY <1>1 DEF Resync, Enqueue, InformerInv, TypeOK
<1>3. ASSUME NEW k \in Key
      PROVE  Exact(items'[k]) /\ Inner(items'[k]) /\ First(items'[k], indexer[k])
  <2>1. items'[k] = IF indexer[k] = None \/ items[k] # <<>> THEN items[k]
                    ELSE QueueAction(items[k], "Sync", indexer[k])
    BY <1>2 DEF ResyncDeltas
  <2>2. /\ Exact(items[k]) /\ Inner(items[k]) /\ First(items[k], indexer[k])
        /\ items[k] \in Seq(Delta) /\ indexer[k] \in Version \cup {None}
    BY DEF ToldInv, DeltasInv, InformerInv, TypeOK, State
  <2>3. CASE indexer[k] = None \/ items[k] # <<>>
    BY <2>1, <2>2, <2>3
  <2>4. CASE ~(indexer[k] = None \/ items[k] # <<>>)
    BY <2>1, <2>2, <2>4, QueueActionKeeps DEF DeltaType
  <2> QED
    BY <2>3, <2>4
<1> QED
  BY <1>1, <1>2, <1>3, EnqueueKeeps DEF ToldInv, InformerInv

\* A step that leaves the deltas, the indexer and the notifications alone.
LEMMA QuietTold ==
    ASSUME ToldInv, InformerInv',
           UNCHANGED <<items, busy, left, unsent, indexer, notes, told>>
    PROVE  ToldInv'
<1>1. DeltasInv'
  BY DEF ToldInv, DeltasInv
<1>2. ToldAsStored'
  BY ToldIsRight, ToldIsRightNext DEF ToldInv, InformerInv
<1> QED
  BY <1>1, <1>2 DEF ToldInv

LEMMA PopTold ==
    ASSUME ToldInv, Pop
    PROVE  ToldInv'
<1>1. InformerInv' /\ InformerInv
  BY PopStep DEF ToldInv
<1> DEFINE k == Head(queue)
<1>2. k \in Key /\ items[k] # <<>>
  <2>1. queue # <<>> /\ queue \in Seq(Key)
    BY <1>1 DEF Pop, InformerInv, TypeOK
  <2>2. k = queue[1] /\ 1 \in DOMAIN queue
    BY <2>1, EmptySeq, SeqFacts
  <2> QED
    BY <1>1, <2>2 DEF InformerInv, QueueIsItems
<1>3. /\ items' = [items EXCEPT ![k] = <<>>] /\ left' = items[k] /\ busy' = k
      /\ unsent = <<>> /\ UNCHANGED <<unsent, indexer, notes, told>>
  BY <1>1, <1>2 DEF Pop, Unlocked, InformerInv, KeptInv, ProcessInv
<1>4. items \in [Key -> Seq(Delta)]
  BY <1>1 DEF InformerInv, TypeOK
<1>5. /\ Exact(<<>>) /\ Inner(<<>>) /\ \A v : First(<<>>, v)
  BY DEF Exact, Inner, First
<1> HIDE DEF k
<1>6. DeltasInv'
  BY <1>2, <1>3, <1>4, <1>5 DEF ToldInv, DeltasInv
<1>7. ToldAsStored'
  BY <1>1, <1>3, ToldIsRight, ToldIsRightNext DEF ToldInv, InformerInv
<1> QED
  BY <1>1, <1>6, <1>7 DEF ToldInv

LEMMA StoreTold ==
    ASSUME ToldInv, Store
    PROVE  ToldInv'
<1>1. InformerInv' /\ InformerInv
  BY StoreStep DEF ToldInv
<1> DEFINE v == left[1].ver
           d == [key |-> busy, type |-> NoteType(indexer[busy], v), ver |-> v]
<1>2. /\ busy \in Key /\ busy # NoKey /\ left # <<>> /\ left \in Seq(Delta)
      /\ Head(left) = left[1]
  BY <1>1 DEF Store, InformerInv, TypeOK, KeptInv, ProcessInv
<1>3. v \in Version \cup {None}
  <2>1. left[1] \in Delta
    BY <1>2, EmptySeq, SeqFacts
  <2> QED
    BY <2>1 DEF Delta
<1>4. /\ indexer' = [indexer EXCEPT ![busy] = v] /\ unsent = <<>> /\ unsent' = <<d>>
      /\ UNCHANGED <<items, busy, left, notes, told>>
  BY <1>2 DEF Store, fifo, NoteOf
<1>5. indexer \in State /\ told \in State /\ notes \in Seq(Note)
  BY <1>1 DEF InformerInv, TypeOK
<1>6. indexer[busy] # None \/ v # None
  BY <1>2, <1>4 DEF ToldInv, DeltasInv, First
<1>7. d \in Note
  BY <1>2, <1>3 DEF Note, NoteType
<1> HIDE DEF v, d
<1>8. DeltasInv'
  <2>1. ASSUME NEW k \in Key
        PROVE  First(items'[k], indexer'[k])
    BY <1>2, <1>4, <1>5, <2>1 DEF ToldInv, DeltasInv, First, State
  <2>2. unsent' # <<>>
    BY <1>4
  <2> QED
    BY <1>4, <2>1, <2>2 DEF ToldInv, DeltasInv
<1>9. ToldAsStored'
  <2>1. notes \o unsent = notes
    BY <1>4, <1>5, ConcatEmptySeq
  <2>2. RightFor(told, notes, indexer)
    BY <1>1, <2>1, ToldIsRight DEF ToldInv, InformerInv
  <2>3. RightFor(told, Append(notes, d), indexer')
    BY <1>2, <1>3, <1>4, <1>5, <1>6, <2>2, RightAppend DEF d
  <2>4. notes' \o unsent' = Append(notes, d)
    BY <1>4, <1>5, <1>7
  <2> QED
    BY <1>1, <1>4, <2>3, <2>4, ToldIsRightNext DEF InformerInv
<1> QED
  BY <1>1, <1>8, <1>9 DEF ToldInv

LEMMA DistributeTold ==
    ASSUME ToldInv, Distribute
    PROVE  ToldInv'
<1>1. InformerInv' /\ InformerInv
  BY DistributeStep DEF ToldInv
<1>2. /\ busy # NoKey /\ left # <<>> /\ left \in Seq(Delta) /\ notes \in Seq(Note)
      /\ unsent \in Seq(Note) /\ indexer[busy] = left[1].ver
  BY <1>1 DEF Distribute, InformerInv, TypeOK, KeptInv, ProcessInv
<1>3. /\ Len(left) \in Nat \ {0} /\ Len(Tail(left)) = Len(left) - 1
      /\ Tail(left) \in Seq(Delta)
      /\ \A i \in 1..(Len(left) - 1) : Tail(left)[i] = left[i + 1]
  BY <1>2, EmptySeq, HeadTailProperties
<1>4. /\ notes' = notes \o unsent /\ unsent' = <<>> /\ left' = Tail(left)
      /\ busy' = IF Len(left) = 1 THEN NoKey ELSE busy
      /\ UNCHANGED <<items, indexer, told>>
  BY DEF Distribute, fifo
<1>5. Inner(left')
  <2>1. SUFFICES ASSUME NEW i \in 1..(Len(left) - 2)
                 PROVE  left'[i].ver # None \/ left'[i + 1].ver # None
    BY <1>3, <1>4 DEF Inner
  <2>2. /\ i \in 1..(Len(left) - 1) /\ i + 1 \in 1..(Len(left) - 1)
    BY <1>3
  <2>3. left[i + 1].ver # None \/ left[i + 1 + 1].ver # None
    BY <2>2 DEF ToldInv, DeltasInv, Inner
  <2> QED
    BY <1>3, <1>4, <2>2, <2>3
<1>6. First(left', indexer[busy])
  <2>1. SUFFICES ASSUME left' # <<>>
                 PROVE  left[1].ver # None \/ left'[1].ver # None
    BY <1>2 DEF First
  <2>2. 1 \in 1..(Len(left) - 1)
    <3>1. Len(Tail(left)) # 0
      BY <1>3, <1>4, <2>1, SeqFacts
    <3> QED
      BY <1>3, <3>1
  <2> QED
    BY <1>3, <1>4, <2>2 DEF ToldInv, DeltasInv, Inner
<1>7. DeltasInv'
  <2>1. busy' # NoKey => busy' = busy
    BY <1>4
  <2> QED
    BY <1>2, <1>4, <1>5, <1>6, <2>1 DEF ToldInv, DeltasInv
<1>8. ToldAsStored'
  <2>1. notes' \o unsent' = notes \o unsent
    <3>1. notes \o unsent \in Seq(Note)
      BY <1>2, ConcatProperties
    <3> QED
      BY <1>4, <3>1, ConcatEmptySeq
  <2> QED
    BY <1>1, <1>4, <2>1, ToldIsRight, ToldIsRightNext DEF ToldInv, InformerInv
<1> QED
  BY <1>1, <1>7, <1>8 DEF ToldInv

\* Deliver takes the first of what is still to be told.
LEMMA UntoldDelivered ==
    ASSUME TypeOK, Deliver
    PROVE  /\ Untold \in Seq(Note) /\ Untold # <<>> /\ Untold' = Tail(Untold)
           /\ told' = [told EXCEPT ![Untold[1].key] = Untold[1].ver]
<1>0. /\ notes \in Seq(Note) /\ notes # <<>> /\ unsent \in Seq(Note)
      /\ told' = [told EXCEPT ![Head(notes).key] = Head(notes).ver]
      /\ notes' = Tail(notes) /\ unsent' = unsent
  BY DEF Deliver, TypeOK, process
<1> DEFINE s == notes \o unsent
<1>1. Len(notes) \in Nat \ {0} /\ Len(unsent) \in Nat
  BY <1>0, EmptySeq, SeqFacts
<1>2. /\ s \in Seq(Note) /\ Len(s) = Len(notes) + Len(unsent)
      /\ \A i \in 1..(Len(notes) + Len(unsent)) :
            s[i] = IF i <= Len(notes) THEN notes[i] ELSE unsent[i - Len(notes)]
  BY <1>0, ConcatProperties
<1>3. /\ Tail(notes) \in Seq(Note) /\ Len(Tail(notes)) = Len(notes) - 1
      /\ \A i \in 1..(Len(notes) - 1) : Tail(notes)[i] = notes[i + 1]
      /\ Head(notes) = notes[1]
  BY <1>0, <1>1, HeadTailProperties
<1> DEFINE u == Tail(notes) \o unsent
<1>4. /\ u \in Seq(Note) /\ Len(u) = Len(notes) - 1 + Len(unsent)
      /\ \A i \in 1..(Len(notes) - 1 + Len(unsent)) :
            u[i] = IF i <= Len(notes) - 1 THEN Tail(notes)[i]
                   ELSE unsent[i - (Len(notes) - 1)]
  <2>1. /\ u \in Seq(Note) /\ Len(u) = Len(Tail(notes)) + Len(unsent)
        /\ \A i \in 1..(Len(Tail(notes)) + Len(unsent)) :
              u[i] = IF i <= Len(Tail(notes)) THEN Tail(notes)[i]
                     ELSE unsent[i - Len(Tail(notes))]
    BY <1>0, <1>3, ConcatProperties
  <2> QED
    BY <1>3, <2>1
<1> HIDE DEF s, u
<1>5. s # <<>> /\ s[1] = notes[1]
  <2>1. Len(s) # 0 /\ 1 \in 1..(Len(notes) + Len(unsent)) /\ 1 <= Len(notes)
    BY <1>1, <1>2
  <2> QED
    BY <1>2, <2>1, SeqFacts
<1>6. /\ Tail(s) \in Seq(Note) /\ Len(Tail(s)) = Len(s) - 1
      /\ \A i \in 1..(Len(s) - 1) : Tail(s)[i] = s[i + 1]
  BY <1>2, <1>5, HeadTailProperties
<1>7. Tail(s) = u
  <2>1. Len(Tail(s)) = Len(u)
    BY <1>1, <1>2, <1>4, <1>6
  <2>2. ASSUME NEW i \in 1..Len(Tail(s))
        PROVE  Tail(s)[i] = u[i]
    <3>1. /\ i \in 1..(Len(s) - 1) /\ i \in 1..(Len(notes) - 1 + Len(unsent))
          /\ i + 1 \in 1..(Len(notes) + Len(unsent))
      BY <1>1, <1>2, <1>4, <1>6, <2>1
    <3>2. Tail(s)[i] = s[i + 1]
      BY <1>6, <3>1
    <3>3. CASE i <= Len(notes) - 1
      <4>1. i \in 1..(Len(notes) - 1) /\ i + 1 <= Len(notes)
        BY <1>1, <3>1, <3>3
      <4>2. s[i + 1] = notes[i + 1] /\ u[i] = Tail(notes)[i]
        BY <1>2, <1>4, <3>1, <3>3, <4>1
      <4> QED
        BY <1>3, <3>2, <4>1, <4>2
    <3>4. CASE ~(i <= Len(notes) - 1)
      <4>1. ~(i + 1 <= Len(notes)) /\ i + 1 - Len(notes) = i - (Len(notes) - 1)
        BY <1>1, <3>1, <3>4
      <4>2. s[i + 1] = unsent[i + 1 - Len(notes)] /\ u[i] = unsent[i - (Len(notes) - 1)]
        BY <1>2, <1>4, <3>1, <3>4, <4>1
      <4> QED
        BY <3>2, <4>1, <4>2
    <3> QED
      BY <3>3, <3>4
  <2> QED
    BY <1>4, <1>6, <2>1, <2>2, SeqEqual
<1> QED
  BY <1>0, <1>2, <1>3, <1>5, <1>7 DEF Untold, s, u

LEMMA DeliverTold ==
    ASSUME ToldInv, Deliver
    PROVE  ToldInv'
<1>1. InformerInv' /\ InformerInv
  BY DeliverStep DEF ToldInv
<1>2. told \in State /\ indexer \in State /\ UNCHANGED <<items, busy, left, unsent, indexer>>
  BY <1>1 DEF Deliver, InformerInv, TypeOK, fifo, process
<1>3. DeltasInv'
  BY <1>2 DEF ToldInv, DeltasInv
<1>4. ToldAsStored'
  <2>1. RightFor(told, Untold, indexer)
    BY <1>1, ToldIsRight DEF ToldInv, InformerInv, Untold
  <2>2. /\ Untold \in Seq(Note) /\ Untold # <<>> /\ Untold' = Tail(Untold)
        /\ told' = [told EXCEPT ![Untold[1].key] = Untold[1].ver]
    BY <1>1, UntoldDelivered DEF InformerInv
  <2>3. RightFor(told', Untold', indexer')
    BY <1>2, <2>1, <2>2, RightTail
  <2> QED
    BY <1>1, <2>3, ToldIsRightNext DEF InformerInv, Untold
<1> QED
  BY <1>1, <1>3, <1>4 DEF ToldInv

-----------------------------------------------------------------------------

LEMMA ToldInit == Init => ToldInv
<1>1. SUFFICES ASSUME Init
               PROVE  ToldInv
  OBVIOUS
<1>2. InformerInv
  BY <1>1, InformerInit
<1>3. /\ items = [k \in Key |-> <<>>] /\ busy = NoKey /\ left = <<>> /\ unsent = <<>>
      /\ indexer = [k \in Key |-> None] /\ notes = <<>> /\ told = [k \in Key |-> None]
  BY <1>1 DEF Init
<1>4. DeltasInv
  BY <1>3 DEF DeltasInv, Exact, Inner, First
<1>5. RightFor(told, <<>>, indexer)
  <2>1. Len(<<>>) = 0 /\ \A k : Of(<<>>, 0, k) = {}
    BY DEF Of
  <2> QED
    BY <1>3, <2>1 DEF RightFor, ViewFrom
<1>6. notes \o unsent = <<>>
  BY <1>3
<1> QED
  BY <1>2, <1>4, <1>5, <1>6, ToldIsRight DEF ToldInv, InformerInv

LEMMA ToldNext == ToldInv /\ [Next]_vars => ToldInv'
<1>1. SUFFICES ASSUME ToldInv, [Next]_vars
               PROVE  ToldInv'
  OBVIOUS
<1>2. InformerInv'
  BY <1>1, InformerNext DEF ToldInv
<1>3. CASE \E k \in Key : Change(k)
  BY <1>1, <1>2, <1>3, QuietTold DEF Change, fifo, process
<1>4. CASE Reflector
  <2>1. CASE WatchBreaks
    BY <1>1, <1>2, <2>1, QuietTold DEF WatchBreaks, fifo, process
  <2> QED
    BY <1>1, <1>4, <2>1, ListTold, WatchEventTold, ResyncTold DEF Reflector
<1>5. CASE Processor
  BY <1>1, <1>5, PopTold, StoreTold, DistributeTold, DeliverTold DEF Processor
<1>6. CASE UNCHANGED vars
  BY <1>1, <1>2, <1>6, QuietTold DEF vars, fifo, process
<1> QED
  BY <1>1, <1>3, <1>4, <1>5, <1>6 DEF Next

\* The handler misses nothing, and adds, updates and deletions come as they
\* fit: what HandleDeltas stores and what it distributes agree, for all
\* interleavings of the reflector, the informer's loop and the listener.
THEOREM HandlerIsToldWhatIsStored == Spec => []ToldAsStored
<1>1. ToldInv => ToldAsStored
  BY DEF ToldInv
<1> QED
  BY <1>1, ToldInit, ToldNext, PTL DEF Spec

-----------------------------------------------------------------------------
(* The copy moves forward.  An object's line is what the listers show of it, *)
(* what is still to be stored and what the reflector saw last.  Along a line *)
(* versions only grow, and once the reflector has seen a version go, it does *)
(* not come again.  Each step cuts a line at its start, writes an element of *)
(* it twice, or ends it with something new.                                  *)

Line(a, l, q, f) ==
    [n \in 0..(Len(l) + Len(q) + 1) |->
        IF n = 0 THEN a
        ELSE IF n <= Len(l) THEN l[n].ver
        ELSE IF n <= Len(l) + Len(q) THEN q[n - Len(l)].ver
        ELSE f]

Under(k) == IF busy = k THEN left ELSE <<>>
LastSeen(k) == IF seen = 0 THEN None ELSE log[seen][k]
LineOf(k) == Line(indexer[k], Under(k), items[k], LastSeen(k))
End(k) == Len(Under(k)) + Len(items[k]) + 1

InOrder(c, N) ==
    \A x, z \in 0..N : x <= z /\ c[z] # None =>
       /\ c[x] <= c[z]
       /\ c[x] = c[z] => \A y \in x..z : c[y] = c[z]

AtMost(c, N, s) == \A x \in 0..N : c[x] \in Nat /\ c[x] <= s

\* Nothing but deletions and newer versions than v is in the line.
Beyond(c, N, v) == \A x \in 0..N : c[x] = None \/ c[x] > v

\* A version is the state at which it was written, and no state has it again
\* after one that has not.
Window ==
    \A k \in Key : \A i \in 1..Len(log) : log[i][k] # None =>
       log[i][k] <= i /\ \A j \in log[i][k]..i : log[j][k] = log[i][k]

ForwardInv ==
    /\ Window
    /\ \A k \in Key : InOrder(LineOf(k), End(k)) /\ AtMost(LineOf(k), End(k), seen)

\* Line d has elements of line c only, in their order.
From(c, N, d, M) ==
    \E h \in [0..M -> 0..N] :
       /\ \A x, y \in 0..M : x <= y => h[x] <= h[y]
       /\ \A x \in 0..M : d[x] = c[h[x]]

\* Line d is line c with another end.
Renewed(c, N, d, M, f) ==
    /\ N <= M
    /\ \A x \in 0..(N - 1) : d[x] = c[x]
    /\ \A x \in N..M : d[x] = f

LEMMA FromKeeps ==
    ASSUME NEW c, NEW d, NEW N \in Nat, NEW M \in Nat, From(c, N, d, M)
    PROVE  /\ InOrder(c, N) => InOrder(d, M)
           /\ \A s \in Nat : AtMost(c, N, s) => AtMost(d, M, s)
           /\ \A v \in Nat : Beyond(c, N, v) => Beyond(d, M, v)
<1>1. PICK h \in [0..M -> 0..N] :
         /\ \A x, y \in 0..M : x <= y => h[x] <= h[y]
         /\ \A x \in 0..M : d[x] = c[h[x]]
  BY DEF From
<1>2. ASSUME InOrder(c, N), NEW x \in 0..M, NEW z \in 0..M, x <= z, d[z] # None
      PROVE  /\ d[x] <= d[z]
             /\ d[x] = d[z] => \A y \in x..z : d[y] = d[z]
  <2>1. /\ h[x] \in 0..N /\ h[z] \in 0..N /\ h[x] <= h[z]
        /\ d[x] = c[h[x]] /\ d[z] = c[h[z]]
    BY <1>1, <1>2
  <2>2. d[x] <= d[z] /\ (d[x] = d[z] => \A y \in h[x]..h[z] : c[y] = d[z])
    BY <1>2, <2>1 DEF InOrder
  <2>3. ASSUME NEW y \in x..z
        PROVE  h[y] \in h[x]..h[z] /\ d[y] = c[h[y]]
    <3>1. y \in 0..M /\ x <= y /\ y <= z
      OBVIOUS
    <3>2. h[y] \in 0..N /\ h[x] <= h[y] /\ h[y] <= h[z] /\ d[y] = c[h[y]]
      BY <1>1, <3>1
    <3> QED
      BY <2>1, <3>2
  <2> QED
    BY <2>2, <2>3
<1>3. \A x \in 0..M : h[x] \in 0..N /\ d[x] = c[h[x]]
  BY <1>1
<1> QED
  BY <1>2, <1>3 DEF InOrder, AtMost, Beyond

LEMMA RenewedKeeps ==
    ASSUME NEW c, NEW d, NEW f \in Nat, NEW N \in Nat, NEW M \in Nat,
           NEW s \in Nat, NEW t \in Nat, Renewed(c, N, d, M, f),
           AtMost(c, N, s), s <= t, f <= t, f = None \/ f > s
    PROVE  /\ InOrder(c, N) => InOrder(d, M)
           /\ AtMost(d, M, t)
           /\ \A v \in Nat : v <= s /\ Beyond(c, N, v) => Beyond(d, M, v)
<1>1. ASSUME NEW x \in 0..M
      PROVE  \/ x < N /\ x \in 0..N /\ x \in 0..(N - 1) /\ d[x] = c[x]
             \/ x >= N /\ d[x] = f
  BY DEF Renewed
<1>2. \A x \in 0..N : c[x] \in Nat /\ c[x] <= s
  BY DEF AtMost
<1>3. AtMost(d, M, t)
  BY <1>1, <1>2 DEF AtMost
<1>4. ASSUME InOrder(c, N), NEW x \in 0..M, NEW z \in 0..M, x <= z, d[z] # None
      PROVE  /\ d[x] <= d[z]
             /\ d[x] = d[z] => \A y \in x..z : d[y] = d[z]
  <2>1. CASE z < N
    <3>1. \A y \in x..z : y \in 0..M /\ y < N
      BY <2>1
    <3>2. \A y \in x..z : d[y] = c[y]
      BY <1>1, <3>1
    <3>3. x \in 0..N /\ z \in 0..N /\ d[x] = c[x] /\ d[z] = c[z]
      BY <1>1, <1>4, <2>1
    <3> QED
      BY <1>4, <3>2, <3>3 DEF InOrder
  <2>2. CASE z >= N /\ x < N
    <3>1. d[z] = f /\ d[x] \in Nat /\ d[x] <= s
      BY <1>1, <1>2, <2>2
    <3> QED
      BY <1>4, <3>1 DEF None
  <2>3. CASE x >= N
    <3>1. \A y \in x..z : y \in 0..M /\ y >= N
      BY <2>3
    <3>2. \A y \in x..z : d[y] = f
      BY <1>1, <3>1
    <3> QED
      BY <1>4, <3>2
  <2> QED
    BY <2>1, <2>2, <2>3
<1>5. ASSUME NEW v \in Nat, v <= s, Beyond(c, N, v), NEW x \in 0..M
      PROVE  d[x] = None \/ d[x] > v
  BY <1>1, <1>5 DEF Beyond
<1> QED
  BY <1>3, <1>4, <1>5 DEF InOrder, Beyond

IsLine(c, a, l, q, f) ==
    /\ c[0] = a
    /\ \A n \in 1..Len(l) : c[n] = l[n].ver
    /\ \A n \in 1..Len(q) : c[Len(l) + n] = q[n].ver
    /\ c[Len(l) + Len(q) + 1] = f

LEMMA LineFacts ==
    ASSUME NEW a, NEW f, NEW l \in Seq(Delta), NEW q \in Seq(Delta)
    PROVE  IsLine(Line(a, l, q, f), a, l, q, f)
<1> DEFINE E == Len(l) + Len(q) + 1
           c == Line(a, l, q, f)
<1>1. Len(l) \in Nat /\ Len(q) \in Nat
  BY SeqFacts
<1>2. \A n \in 0..E : c[n] = IF n = 0 THEN a
                             ELSE IF n <= Len(l) THEN l[n].ver
                             ELSE IF n <= Len(l) + Len(q) THEN q[n - Len(l)].ver
                             ELSE f
  BY DEF Line
<1> HIDE DEF c
<1>3. c[0] = a /\ c[E] = f
  <2>1. 0 \in 0..E /\ E \in 0..E /\ E # 0 /\ ~(E <= Len(l)) /\ ~(E <= Len(l) + Len(q))
    BY <1>1
  <2> HIDE DEF E
  <2>2. c[0] = a
    BY <1>2, <2>1
  <2>3. c[E] = f
    BY <1>2, <2>1
  <2> QED
    BY <2>2, <2>3
<1>4. ASSUME NEW n \in 1..Len(l)
      PROVE  c[n] = l[n].ver
  BY <1>1, <1>2
<1>5. ASSUME NEW n \in 1..Len(q)
      PROVE  c[Len(l) + n] = q[n].ver
  <2>1. /\ Len(l) + n \in 0..E /\ Len(l) + n # 0 /\ ~(Len(l) + n <= Len(l))
        /\ Len(l) + n <= Len(l) + Len(q) /\ (Len(l) + n) - Len(l) = n
    BY <1>1
  <2> QED
    BY <1>2, <2>1
<1> QED
  BY <1>1, <1>3, <1>4, <1>5 DEF IsLine, c

\* A line of nothing but queued deltas is the same when they are popped.
LEMMA LinePopped ==
    ASSUME NEW a, NEW f, NEW q \in Seq(Delta)
    PROVE  /\ From(Line(a, <<>>, q, f), Len(q) + 1, Line(a, q, <<>>, f), Len(q) + 1)
           /\ Len(q) \in Nat
<1> DEFINE c == Line(a, <<>>, q, f)
           d == Line(a, q, <<>>, f)
           E == Len(q) + 1
<1>1. <<>> \in Seq(Delta) /\ Len(<<>>) = 0 /\ Len(q) \in Nat
  BY EmptySeq, SeqFacts
<1>2. /\ c[0] = a /\ d[0] = a /\ c[E] = f /\ d[E] = f
      /\ \A n \in 1..Len(q) : c[n] = q[n].ver /\ d[n] = q[n].ver
  <2>1. IsLine(c, a, <<>>, q, f) /\ IsLine(d, a, q, <<>>, f)
    BY <1>1, LineFacts
  <2> HIDE DEF c, d
  <2>2. c[0] = a /\ c[0 + Len(q) + 1] = f /\ \A n \in 1..Len(q) : c[0 + n] = q[n].ver
    BY <1>1, <2>1 DEF IsLine
  <2>3. d[0] = a /\ d[Len(q) + 0 + 1] = f /\ \A n \in 1..Len(q) : d[n] = q[n].ver
    BY <1>1, <2>1 DEF IsLine
  <2> QED
    BY <1>1, <2>2, <2>3
<1>3. \A x \in 0..E : x = 0 \/ x \in 1..Len(q) \/ x = E
  BY <1>1
<1> HIDE DEF c, d
<1>4. \A x \in 0..E : d[x] = c[x]
  BY <1>2, <1>3
<1> DEFINE h == [x \in 0..E |-> x]
<1>5. From(c, E, d, E)
  <2>1. /\ h \in [0..E -> 0..E] /\ \A x, y \in 0..E : x <= y => h[x] <= h[y]
        /\ \A x \in 0..E : d[x] = c[h[x]]
    BY <1>4
  <2> HIDE DEF h
  <2> QED
    BY <2>1 DEF From
<1> QED
  BY <1>1, <1>5 DEF c, d

\* The first delta under way is stored: the line begins with it.
LEMMA LineStored ==
    ASSUME NEW a, NEW f, NEW l \in Seq(Delta), NEW q \in Seq(Delta), l # <<>>
    PROVE  From(Line(a, l, q, f), Len(l) + Len(q) + 1,
                Line(l[1].ver, l, q, f), Len(l) + Len(q) + 1)
<1> DEFINE c == Line(a, l, q, f)
           d == Line(l[1].ver, l, q, f)
           E == Len(l) + Len(q) + 1
<1>1. Len(l) \in Nat /\ Len(q) \in Nat /\ Len(l) >= 1
  BY SeqFacts
<1>2. /\ d[0] = l[1].ver /\ c[1] = l[1].ver /\ c[E] = f /\ d[E] = f
      /\ \A n \in 1..Len(l) : c[n] = l[n].ver /\ d[n] = l[n].ver
      /\ \A n \in 1..Len(q) : c[Len(l) + n] = q[n].ver /\ d[Len(l) + n] = q[n].ver
  <2>1. IsLine(c, a, l, q, f) /\ IsLine(d, l[1].ver, l, q, f)
    BY LineFacts
  <2> HIDE DEF c, d
  <2> QED
    BY <1>1, <2>1 DEF IsLine
<1> HIDE DEF c, d
<1>3. ASSUME NEW x \in 1..E
      PROVE  d[x] = c[x]
  <2>1. CASE x <= Len(l)
    BY <1>2, <2>1
  <2>2. CASE x > Len(l) /\ x < E
    <3>1. x - Len(l) \in 1..Len(q) /\ Len(l) + (x - Len(l)) = x
      BY <1>1, <2>2
    <3> QED
      BY <1>2, <3>1
  <2>3. CASE x = E
    BY <1>2, <2>3
  <2> QED
    BY <1>1, <2>1, <2>2, <2>3
<1> DEFINE h == [x \in 0..E |-> IF x = 0 THEN 1 ELSE x]
<1>4. h \in [0..E -> 0..E] /\ \A x, y \in 0..E : x <= y => h[x] <= h[y]
  BY <1>1
<1>5. \A x \in 0..E : d[x] = c[h[x]]
  BY <1>1, <1>2, <1>3
<1> HIDE DEF h
<1>6. From(c, E, d, E)
  BY <1>4, <1>5 DEF From
<1> QED
  BY <1>6 DEF c, d

\* The delta that was stored is done: the line has it once less.
LEMMA LineDone ==
    ASSUME NEW f, NEW l \in Seq(Delta), NEW q \in Seq(Delta), l # <<>>
    PROVE  From(Line(l[1].ver, l, q, f), Len(l) + Len(q) + 1,
                Line(l[1].ver, Tail(l), q, f), Len(Tail(l)) + Len(q) + 1)
<1> DEFINE c == Line(l[1].ver, l, q, f)
           d == Line(l[1].ver, Tail(l), q, f)
           N == Len(l) + Len(q)
<1>1. /\ Len(l) \in Nat /\ Len(q) \in Nat /\ Len(l) >= 1
      /\ Tail(l) \in Seq(Delta) /\ Len(Tail(l)) = Len(l) - 1
      /\ \A i \in 1..(Len(l) - 1) : Tail(l)[i] = l[i + 1]
  BY SeqFacts, HeadTailProperties
<1>2. /\ c[0] = l[1].ver /\ c[N + 1] = f
      /\ \A n \in 1..Len(l) : c[n] = l[n].ver
      /\ \A n \in 1..Len(q) : c[Len(l) + n] = q[n].ver
  <2>1. IsLine(c, l[1].ver, l, q, f)
    BY LineFacts
  <2> HIDE DEF c
  <2> QED
    BY <1>1, <2>1 DEF IsLine
<1>3. /\ d[0] = l[1].ver /\ d[N] = f
      /\ \A n \in 1..(Len(l) - 1) : d[n] = l[n + 1].ver
      /\ \A n \in 1..Len(q) : d[(Len(l) - 1) + n] = q[n].ver
  <2>1. /\ d[0] = l[1].ver /\ d[Len(Tail(l)) + Len(q) + 1] = f
        /\ \A n \in 1..Len(Tail(l)) : d[n] = Tail(l)[n].ver
        /\ \A n \in 1..Len(q) : d[Len(Tail(l)) + n] = q[n].ver
    <3>1. IsLine(d, l[1].ver, Tail(l), q, f)
      BY <1>1, LineFacts
    <3> HIDE DEF d
    <3> QED
      BY <3>1 DEF IsLine
  <2>2. Len(Tail(l)) + Len(q) + 1 = N
    BY <1>1
  <2> QED
    BY <1>1, <2>1, <2>2
<1> HIDE DEF c, d
<1>4. ASSUME NEW x \in 1..N
      PROVE  d[x] = c[x + 1]
  <2>1. CASE x <= Len(l) - 1
    <3>1. x \in 1..(Len(l) - 1) /\ x + 1 \in 1..Len(l)
      BY <1>1, <2>1
    <3> QED
      BY <1>2, <1>3, <3>1
  <2>2. CASE x > Len(l) - 1 /\ x < N
    <3> DEFINE n == x - (Len(l) - 1)
    <3>1. n \in 1..Len(q) /\ (Len(l) - 1) + n = x /\ Len(l) + n = x + 1
      BY <1>1, <2>2
    <3> QED
      BY <1>2, <1>3, <3>1
  <2>3. CASE x = N
    BY <1>2, <1>3, <2>3
  <2> QED
    BY <1>1, <2>1, <2>2, <2>3
<1> DEFINE h == [x \in 0..N |-> IF x = 0 THEN 0 ELSE x + 1]
<1>5. h \in [0..N -> 0..(N + 1)] /\ \A x, y \in 0..N : x <= y => h[x] <= h[y]
  BY <1>1
<1>6. \A x \in 0..N : d[x] = c[h[x]]
  BY <1>1, <1>2, <1>3, <1>4
<1> HIDE DEF h
<1>7. From(c, N + 1, d, N)
  BY <1>5, <1>6 DEF From
<1>8. Len(l) + Len(q) + 1 = N + 1 /\ Len(Tail(l)) + Len(q) + 1 = N
  BY <1>1
<1> QED
  BY <1>7, <1>8 DEF c, d

\* With nothing under way, a delta of version ver is queued, or none, and the
\* line ends with g.
LEMMA LineNoted ==
    ASSUME NEW a, NEW f, NEW g, NEW q \in Seq(Delta), NEW r \in Seq(Delta), NEW e \in Delta,
           e.ver = g, r = q \/ r = Append(q, e)
    PROVE  Renewed(Line(a, <<>>, q, f), Len(q) + 1, Line(a, <<>>, r, g), Len(r) + 1, g)
<1> DEFINE c == Line(a, <<>>, q, f)
           d == Line(a, <<>>, r, g)
<1>1. /\ <<>> \in Seq(Delta) /\ Len(<<>>) = 0 /\ Len(q) \in Nat
      /\ Len(r) \in {Len(q), Len(q) + 1}
      /\ \A i \in 1..Len(q) : r[i] = q[i]
      /\ Len(r) = Len(q) + 1 => r[Len(q) + 1] = e
      /\ Len(r) \in Nat
  BY EmptySeq, SeqFacts, AppendProperties
<1>2. c[0] = a /\ \A n \in 1..Len(q) : c[n] = q[n].ver
  <2>1. IsLine(c, a, <<>>, q, f)
    BY <1>1, LineFacts
  <2> HIDE DEF c
  <2>2. c[0] = a /\ \A n \in 1..Len(q) : c[0 + n] = q[n].ver
    BY <1>1, <2>1 DEF IsLine
  <2> QED
    BY <1>1, <2>2
<1>3. d[0] = a /\ d[Len(r) + 1] = g /\ \A n \in 1..Len(r) : d[n] = r[n].ver
  <2>1. IsLine(d, a, <<>>, r, g)
    BY <1>1, LineFacts
  <2> HIDE DEF d
  <2>2. d[0] = a /\ d[0 + Len(r) + 1] = g /\ \A n \in 1..Len(r) : d[0 + n] = r[n].ver
    BY <1>1, <2>1 DEF IsLine
  <2> QED
    BY <1>1, <2>1, <2>2
<1> HIDE DEF c, d
<1>4. \A x \in 0..((Len(q) + 1) - 1) : d[x] = c[x]
  <2>1. Len(q) \in Nat /\ (Len(r) = Len(q) \/ Len(r) = Len(q) + 1)
    BY <1>1
  <2>2. \A x \in 0..((Len(q) + 1) - 1) : x = 0 \/ (x \in 1..Len(q) /\ x \in 1..Len(r))
    BY <2>1
  <2> QED
    BY <1>1, <1>2, <1>3, <2>2
<1>5. ASSUME NEW x \in (Len(q) + 1)..(Len(r) + 1)
      PROVE  d[x] = g
  <2>1. CASE x = Len(r) + 1
    BY <1>3, <2>1
  <2>2. CASE x # Len(r) + 1
    <3>1. Len(r) = Len(q) + 1 /\ x = Len(q) + 1 /\ x \in 1..Len(r)
      BY <1>1, <2>2
    <3> QED
      BY <1>1, <1>3, <3>1
  <2> QED
    BY <2>1, <2>2
<1>6. Len(q) + 1 <= Len(r) + 1
  BY <1>1
<1> QED
  BY <1>4, <1>5, <1>6 DEF Renewed, c, d

\* What only repeats its end is a line of the old elements.
LEMMA RenewedSame ==
    ASSUME NEW c, NEW d, NEW N \in Nat, NEW M \in Nat, NEW f,
           Renewed(c, N, d, M, f), c[N] = f
    PROVE  From(c, N, d, M)
<1> DEFINE h == [x \in 0..M |-> IF x < N THEN x ELSE N]
<1>1. h \in [0..M -> 0..N] /\ \A x, y \in 0..M : x <= y => h[x] <= h[y]
  OBVIOUS
<1>2. ASSUME NEW x \in 0..M
      PROVE  d[x] = c[h[x]]
  BY DEF Renewed
<1> HIDE DEF h
<1> QED
  BY <1>1, <1>2 DEF From

\* A resync queues what the listers show.
LEMMA LineResynced ==
    ASSUME NEW a, NEW f, NEW e \in Delta, e.ver = a
    PROVE  From(Line(a, <<>>, <<>>, f), Len(<<>>) + 1,
                Line(a, <<>>, Append(<<>>, e), f), Len(Append(<<>>, e)) + 1)
<1> DEFINE c == Line(a, <<>>, <<>>, f)
           r == Append(<<>>, e)
           d == Line(a, <<>>, r, f)
<1>1. /\ <<>> \in Seq(Delta) /\ Len(<<>>) = 0 /\ r \in Seq(Delta) /\ Len(r) = 1
      /\ r[1] = e
  BY EmptySeq, AppendProperties
<1> HIDE DEF r
<1>2. c[0] = a /\ c[1] = f
  <2>1. IsLine(c, a, <<>>, <<>>, f)
    BY <1>1, LineFacts
  <2> HIDE DEF c
  <2>2. c[0] = a /\ c[0 + 0 + 1] = f
    BY <1>1, <2>1 DEF IsLine
  <2> QED
    BY <2>2
<1>3. d[0] = a /\ d[1] = a /\ d[2] = f
  <2>1. IsLine(d, a, <<>>, r, f)
    BY <1>1, LineFacts
  <2> HIDE DEF d
  <2>2. d[0] = a /\ d[0 + 1] = r[1].ver /\ d[0 + 1 + 1] = f
    BY <1>1, <2>1 DEF IsLine
  <2> QED
    BY <1>1, <2>2
<1> HIDE DEF c, d
<1> DEFINE h == [x \in 0..2 |-> IF x = 2 THEN 1 ELSE 0]
<1>4. h \in [0..2 -> 0..1] /\ \A x, y \in 0..2 : x <= y => h[x] <= h[y]
  OBVIOUS
<1>5. \A x \in 0..2 : d[x] = c[h[x]]
  BY <1>2, <1>3
<1> HIDE DEF h
<1>6. From(c, 1, d, 2)
  BY <1>4, <1>5 DEF From
<1> QED
  BY <1>1, <1>6 DEF c, d, r

-----------------------------------------------------------------------------
(* What each action does to an object's line.                                *)

Moves(k) ==
    \/ From(LineOf(k), End(k), LineOf(k)', End(k)')
    \/ /\ Renewed(LineOf(k), End(k), LineOf(k)', End(k)', LastSeen(k)')
       /\ LastSeen(k)' = None \/ LastSeen(k)' > seen

LEMMA LineTypes ==
    ASSUME InformerInv, NEW k \in Key
    PROVE  /\ Under(k) \in Seq(Delta) /\ items[k] \in Seq(Delta)
           /\ Len(Under(k)) \in Nat /\ Len(items[k]) \in Nat /\ End(k) \in Nat \ {0}
           /\ LineOf(k)[0] = indexer[k] /\ LineOf(k)[End(k)] = LastSeen(k)
           /\ Len(log) \in Nat /\ seen \in 0..Len(log) /\ seen \in Nat
           /\ LastSeen(k) \in Nat /\ indexer[k] \in Nat
           /\ \A i \in 1..Len(log) : log[i][k] \in Version \cup {None}
<1>1. Under(k) \in Seq(Delta) /\ items[k] \in Seq(Delta)
  BY EmptySeq DEF InformerInv, TypeOK, Under
<1>2. Len(Under(k)) \in Nat /\ Len(items[k]) \in Nat
  BY <1>1, SeqFacts
<1>3. IsLine(LineOf(k), indexer[k], Under(k), items[k], LastSeen(k))
  BY <1>1, LineFacts DEF LineOf
<1>4. /\ Len(log) \in Nat /\ seen \in 0..Len(log) /\ seen \in Nat
      /\ \A i \in 1..Len(log) : log[i][k] \in Version \cup {None}
  <2>1. log \in Seq(State) /\ seen \in 0..Len(log)
    BY DEF InformerInv, TypeOK
  <2>2. Len(log) \in Nat /\ \A i \in 1..Len(log) : log[i] \in State
    BY <2>1, SeqFacts
  <2> QED
    BY <2>1, <2>2 DEF State
<1>5. \A w \in Version \cup {None} : w \in Nat
  BY InformerAssumption DEF Version, None
<1>6. LastSeen(k) \in Nat /\ indexer[k] \in Nat
  <2>1. indexer[k] \in Version \cup {None}
    BY DEF InformerInv, TypeOK, State
  <2>2. LastSeen(k) \in Version \cup {None}
    BY <1>4 DEF LastSeen
  <2> QED
    BY <1>5, <2>1, <2>2
<1>7. LineOf(k)[0] = indexer[k] /\ LineOf(k)[End(k)] = LastSeen(k)
  BY <1>3 DEF IsLine, End
<1> QED
  BY <1>1, <1>2, <1>4, <1>6, <1>7 DEF End

\* The same line, whatever else happens.
LEMMA LineStays ==
    ASSUME InformerInv, NEW k \in Key, Under(k)' = Under(k), items'[k] = items[k],
           indexer'[k] = indexer[k], LastSeen(k)' = LastSeen(k)
    PROVE  Moves(k)
<1> DEFINE c == LineOf(k)
           N == End(k)
           h == [x \in 0..N |-> x]
<1>1. LineOf(k)' = c /\ End(k)' = N
  BY DEF LineOf, End
<1>2. /\ h \in [0..N -> 0..N] /\ \A x, y \in 0..N : x <= y => h[x] <= h[y]
      /\ \A x \in 0..N : c[x] = c[h[x]]
  OBVIOUS
<1> HIDE DEF c, N, h
<1>3. From(c, N, c, N)
  BY <1>2 DEF From
<1> QED
  BY <1>1, <1>3 DEF Moves, c, N

\* No state after the one seen last has a version that was there before it.
LEMMA NewerSeen ==
    ASSUME InformerInv, Window, NEW k \in Key, NEW i \in 1..Len(log), seen <= i
    PROVE  \/ log[i][k] = LastSeen(k)
           \/ log[i][k] = None \/ log[i][k] > seen
<1>1. SUFFICES ASSUME log[i][k] # None, ~(log[i][k] > seen)
               PROVE  log[i][k] = LastSeen(k)
  OBVIOUS
<1>2. /\ log[i][k] \in Version \cup {None} /\ seen \in Nat /\ Len(log) \in Nat
  BY LineTypes
<1>3. log[i][k] \in 1..MaxVersion /\ log[i][k] <= seen /\ seen > 0 /\ MaxVersion \in Nat
  BY <1>1, <1>2, InformerAssumption DEF Version
<1>4. seen \in log[i][k]..i
  BY <1>2, <1>3
<1> QED
  BY <1>1, <1>3, <1>4 DEF Window, LastSeen

\* With nothing under way the object's state seen last becomes ver, and it is
\* queued, or not.
LEMMA LineGrows ==
    ASSUME InformerInv, NEW k \in Key, Under(k) = <<>>, Under(k)' = <<>>,
           indexer'[k] = indexer[k], NEW ver \in Version \cup {None},
           LastSeen(k)' = ver, ver = LastSeen(k) \/ ver = None \/ ver > seen,
           NEW type \in DeltaType,
           \/ items'[k] = items[k]
           \/ items'[k] = Append(items[k], [type |-> type, ver |-> ver])
    PROVE  Moves(k)
<1> DEFINE e == [type |-> type, ver |-> ver]
           a == indexer[k]
           q == items[k]
<1>1. e \in Delta /\ e.ver = ver /\ q \in Seq(Delta) /\ Len(q) \in Nat
  BY LineTypes DEF Delta
<1>2. PICK r : r = items'[k]
  OBVIOUS
<1>3. r \in Seq(Delta) /\ (r = q \/ r = Append(q, e))
  <2>1. r = q \/ r = Append(q, e)
    BY <1>2
  <2> HIDE DEF e, q
  <2>2. Append(q, e) \in Seq(Delta)
    BY <1>1, AppendProperties
  <2> QED
    BY <1>1, <2>1, <2>2
<1>4. Len(<<>>) = 0 /\ Len(r) \in Nat
  BY <1>3, SeqFacts
<1>5. /\ LineOf(k) = Line(a, <<>>, q, LastSeen(k)) /\ End(k) = Len(q) + 1
      /\ LineOf(k)' = Line(a, <<>>, r, ver) /\ End(k)' = Len(r) + 1
  BY <1>1, <1>2, <1>4 DEF LineOf, End
<1> HIDE DEF e
<1>6. Renewed(LineOf(k), End(k), LineOf(k)', End(k)', ver)
  <2>1. Renewed(Line(a, <<>>, q, LastSeen(k)), Len(q) + 1,
                Line(a, <<>>, r, ver), Len(r) + 1, ver)
    BY <1>1, <1>3, LineNoted
  <2> QED
    BY <1>5, <2>1
<1>7. CASE ver = LastSeen(k)
  <2>1. LineOf(k)[End(k)] = ver /\ End(k) \in Nat
    BY <1>7, LineTypes
  <2>2. End(k)' \in Nat
    BY <1>4, <1>5
  <2>3. From(LineOf(k), End(k), LineOf(k)', End(k)')
    BY <1>6, <2>1, <2>2, RenewedSame
  <2> QED
    BY <2>3 DEF Moves
<1>8. CASE ver = None \/ ver > seen
  BY <1>6, <1>8 DEF Moves
<1> QED
  BY <1>7, <1>8

LEMMA ListMoves ==
    ASSUME InformerInv, Window, NEW i \in DOMAIN log, List(i), seen' >= seen, NEW k \in Key
    PROVE  Moves(k)
<1>1. /\ items' = ReplaceDeltas(log[i]) /\ busy = NoKey /\ phase' = "watch" /\ seen' = i
      /\ UNCHANGED <<log, busy, left, unsent, indexer>>
  BY DEF List, Enqueue, Unlocked, process
<1>2. i \in 1..Len(log) /\ seen <= i /\ Len(log) \in Nat
  <2>1. i \in 1..Len(log) /\ Len(log) \in Nat
    BY SeqFacts DEF InformerInv, TypeOK
  <2> QED
    BY <1>1, <2>1, LineTypes
<1>3. Under(k) = <<>> /\ Under(k)' = <<>>
  BY <1>1, InformerAssumption DEF Under
<1> DEFINE ver == log[i][k]
<1>4. ver \in Version \cup {None} /\ LastSeen(k)' = ver
  BY <1>1, <1>2, LineTypes DEF LastSeen
<1>5. ver = LastSeen(k) \/ ver = None \/ ver > seen
  BY <1>2, NewerSeen
<1>6. items'[k] = IF ver # None THEN QueueAction(items[k], "Sync", ver)
                  ELSE IF indexer[k] # None THEN QueueAction(items[k], "Deleted", ver)
                  ELSE items[k]
  BY <1>1 DEF ReplaceDeltas
<1>7. indexer'[k] = indexer[k]
  BY <1>1
<1> HIDE DEF ver
<1>8. \E type \in DeltaType :
         \/ items'[k] = items[k]
         \/ items'[k] = Append(items[k], [type |-> type, ver |-> ver])
  <2>1. CASE ver # None
    BY <1>6, <2>1 DEF QueueAction, DeltaType
  <2>2. CASE ver = None
    BY <1>6, <2>2 DEF QueueAction, DeltaType
  <2> QED
    BY <2>1, <2>2
<1> QED
  BY <1>3, <1>4, <1>5, <1>7, <1>8, LineGrows

LEMMA WatchEventMoves ==
    ASSUME InformerInv, Window, NEW j \in Key, WatchEvent(j), NEW k \in Key
    PROVE  Moves(k)
<1> DEFINE ver == log[seen + 1][k]
           type == EventType(log[seen][j], log[seen + 1][j])
<1>1. /\ items' = IF Ignored(j, type) THEN items
                  ELSE [items EXCEPT ![j] = QueueAction(@, type, log[seen + 1][j])]
      /\ busy = NoKey /\ seen' = seen + 1 /\ phase = "watch" /\ seen < Len(log)
      /\ log[seen + 1][j] # log[seen][j]
      /\ UNCHANGED <<log, busy, left, unsent, indexer>>
  BY DEF WatchEvent, Enqueue, Unlocked, process
<1>2. seen \in 1..(Len(log) - 1) /\ seen + 1 \in 1..Len(log) /\ seen <= seen + 1
      /\ seen \in Nat /\ seen # 0
  <2>1. seen \in 0..Len(log) /\ Len(log) \in Nat /\ seen > 0
    BY <1>1, LineTypes DEF InformerInv, KeptInv, NothingBefore
  <2> QED
    BY <1>1, <2>1
<1>3. Under(k) = <<>> /\ Under(k)' = <<>> /\ indexer'[k] = indexer[k]
  BY <1>1, InformerAssumption DEF Under
<1>4. ver \in Version \cup {None} /\ LastSeen(k)' = ver /\ LastSeen(k) = log[seen][k]
  BY <1>1, <1>2, LineTypes DEF LastSeen
<1>5. ver = LastSeen(k) \/ ver = None \/ ver > seen
  BY <1>2, NewerSeen
<1>6. items \in [Key -> Seq(Delta)]
  BY DEF InformerInv, TypeOK
<1>7. CASE k = j
  <2>1. type \in DeltaType
    BY DEF EventType, DeltaType
  <2> HIDE DEF type
  <2>2. \/ items'[k] = items[k]
        \/ items'[k] = Append(items[k], [type |-> type, ver |-> ver])
    BY <1>1, <1>6, <1>7 DEF QueueAction
  <2> HIDE DEF ver
  <2> QED
    BY <1>3, <1>4, <1>5, <2>1, <2>2, LineGrows
<1>8. CASE k # j
  <2>1. log[seen + 1][k] = log[seen][k]
    BY <1>1, <1>2, <1>8 DEF InformerInv, KeptInv, OneChange
  <2>2. items'[k] = items[k]
    BY <1>1, <1>6, <1>8
  <2> QED
    BY <1>3, <1>4, <2>1, <2>2, LineStays
<1> QED
  BY <1>7, <1>8

LEMMA ResyncMoves ==
    ASSUME InformerInv, Resync, NEW k \in Key
    PROVE  Moves(k)
<1>1. /\ items' = ResyncDeltas /\ busy = NoKey
      /\ UNCHANGED <<log, seen, busy, left, unsent, indexer>>
  BY DEF Resync, Enqueue, Unlocked, process
<1>2. /\ Under(k) = <<>> /\ Under(k)' = <<>> /\ indexer'[k] = indexer[k]
      /\ LastSeen(k)' = LastSeen(k)
  BY <1>1, InformerAssumption DEF Under, LastSeen
<1> DEFINE a == indexer[k]
           f == LastSeen(k)
           e == [type |-> "Sync", ver |-> a]
<1>3. items'[k] = IF a = None \/ items[k] # <<>> THEN items[k]
                  ELSE QueueAction(items[k], "Sync", a)
  BY <1>1 DEF ResyncDeltas
<1>4. CASE items'[k] = items[k]
  BY <1>2, <1>4, LineStays
<1>5. CASE items'[k] # items[k]
  <2>1. items[k] = <<>> /\ items'[k] = Append(<<>>, e)
    BY <1>3, <1>5 DEF QueueAction, WillObjectBeDeleted
  <2>2. e \in Delta /\ e.ver = a
    BY DEF InformerInv, TypeOK, State, Delta, DeltaType
  <2> HIDE DEF e
  <2>3. From(Line(a, <<>>, <<>>, f), Len(<<>>) + 1,
             Line(a, <<>>, Append(<<>>, e), f), Len(Append(<<>>, e)) + 1)
    BY <2>2, LineResynced
  <2>4. Len(<<>>) = 0 /\ Len(Append(<<>>, e)) = 1
    BY <2>2, EmptySeq, AppendProperties
  <2>5. LineOf(k) = Line(a, <<>>, <<>>, f) /\ End(k) = Len(<<>>) + 1
    BY <1>2, <2>1, <2>4 DEF LineOf, End
  <2>6. LineOf(k)' = Line(a, <<>>, Append(<<>>, e), f) /\ End(k)' = Len(Append(<<>>, e)) + 1
    BY <1>2, <2>1, <2>4 DEF LineOf, End
  <2> QED
    BY <2>3, <2>5, <2>6 DEF Moves
<1> QED
  BY <1>4, <1>5

LEMMA PopMoves ==
    ASSUME InformerInv, Pop, NEW k \in Key
    PROVE  Moves(k)
<1> DEFINE j == Head(queue)
<1>1. queue \in Seq(Key) /\ queue # <<>> /\ j = queue[1] /\ j \in Key /\ items[j] # <<>>
  <2>1. /\ queue \in Seq(Key) /\ queue # <<>> /\ Len(queue) \in Nat \ {0}
        /\ DOMAIN queue = 1..Len(queue) /\ j = queue[1] /\ j \in Key
    BY SeqFacts, HeadTailProperties, EmptySeq DEF InformerInv, TypeOK, Pop
  <2> QED
    BY <2>1 DEF InformerInv, QueueIsItems
<1>2. /\ items' = [items EXCEPT ![j] = <<>>] /\ left' = items[j] /\ busy' = j
      /\ busy = NoKey /\ UNCHANGED <<log, seen, indexer>>
  BY <1>1 DEF Pop, Unlocked
<1>3. items \in [Key -> Seq(Delta)] /\ k # NoKey
  BY InformerAssumption DEF InformerInv, TypeOK
<1> HIDE DEF j
<1>4. indexer'[k] = indexer[k] /\ LastSeen(k)' = LastSeen(k) /\ Under(k) = <<>>
  BY <1>2, <1>3 DEF LastSeen, Under
<1>5. CASE k = j
  <2> DEFINE q == items[k]
             a == indexer[k]
             f == LastSeen(k)
  <2>1. Under(k)' = q /\ items'[k] = <<>>
    BY <1>2, <1>3, <1>5 DEF Under
  <2>2. /\ From(Line(a, <<>>, q, f), Len(q) + 1, Line(a, q, <<>>, f), Len(q) + 1)
        /\ Len(q) \in Nat
    BY <1>3, LinePopped
  <2>3. Len(<<>>) = 0
    BY EmptySeq
  <2>4. LineOf(k) = Line(a, <<>>, q, f) /\ End(k) = Len(q) + 1
    BY <1>4, <2>2, <2>3 DEF LineOf, End
  <2>5. LineOf(k)' = Line(a, q, <<>>, f) /\ End(k)' = Len(q) + 1
    BY <1>4, <2>1, <2>2, <2>3 DEF LineOf, End
  <2> QED
    BY <2>2, <2>4, <2>5 DEF Moves
<1>6. CASE k # j
  <2>1. Under(k)' = Under(k) /\ items'[k] = items[k]
    BY <1>2, <1>3, <1>4, <1>6 DEF Under
  <2> QED
    BY <1>4, <2>1, LineStays
<1> QED
  BY <1>5, <1>6

LEMMA StoreMoves ==
    ASSUME InformerInv, Store, NEW k \in Key
    PROVE  Moves(k)
<1>1. /\ busy \in Key /\ busy # NoKey /\ left \in Seq(Delta) /\ left # <<>>
      /\ Head(left) = left[1]
  BY HeadTailProperties DEF InformerInv, TypeOK, KeptInv, ProcessInv, Store
<1>2. /\ indexer' = [indexer EXCEPT ![busy] = left[1].ver]
      /\ UNCHANGED <<log, seen, items, busy, left>>
  BY <1>1 DEF Store, fifo
<1>3. /\ LastSeen(k)' = LastSeen(k) /\ Under(k)' = Under(k) /\ items'[k] = items[k]
      /\ indexer \in [Key -> Version \cup {None}]
  BY <1>2 DEF LastSeen, Under, InformerInv, TypeOK, State
<1>4. CASE k = busy
  <2> DEFINE q == items[k]
             a == indexer[k]
             f == LastSeen(k)
             E == Len(left) + Len(q) + 1
  <2>1. Under(k) = left /\ indexer'[k] = left[1].ver /\ q \in Seq(Delta)
    BY <1>2, <1>3, <1>4, LineTypes DEF Under
  <2>2. From(Line(a, left, q, f), E, Line(left[1].ver, left, q, f), E)
    BY <1>1, <2>1, LineStored
  <2>3. LineOf(k) = Line(a, left, q, f) /\ End(k) = E
    BY <2>1 DEF LineOf, End
  <2>4. LineOf(k)' = Line(left[1].ver, left, q, f) /\ End(k)' = E
    BY <1>3, <2>1 DEF LineOf, End
  <2> QED
    BY <2>2, <2>3, <2>4 DEF Moves
<1>5. CASE k # busy
  <2>1. indexer'[k] = indexer[k]
    BY <1>2, <1>3, <1>5
  <2> QED
    BY <1>3, <2>1, LineStays
<1> QED
  BY <1>4, <1>5

LEMMA DistributeMoves ==
    ASSUME InformerInv, Distribute, NEW k \in Key
    PROVE  Moves(k)
<1>1. /\ busy \in Key /\ busy # NoKey /\ left \in Seq(Delta) /\ left # <<>>
      /\ indexer[busy] = left[1].ver /\ Len(left) \in Nat \ {0} /\ k # NoKey
  BY EmptySeq, InformerAssumption
     DEF InformerInv, Distribute, TypeOK, KeptInv, ProcessInv
<1>2. /\ left' = Tail(left) /\ busy' = IF Len(left) = 1 THEN NoKey ELSE busy
      /\ UNCHANGED <<log, seen, items, indexer>>
  BY DEF Distribute, fifo
<1>3. /\ LastSeen(k)' = LastSeen(k) /\ items'[k] = items[k] /\ indexer'[k] = indexer[k]
  BY <1>2 DEF LastSeen
<1>4. CASE k = busy
  <2> DEFINE q == items[k]
             a == left[1].ver
             f == LastSeen(k)
  <2>1. Under(k) = left /\ indexer[k] = a /\ q \in Seq(Delta)
    BY <1>1, <1>4, LineTypes DEF Under
  <2>2. Under(k)' = Tail(left)
    <3>1. Tail(left) \in Seq(Delta) /\ Len(Tail(left)) = Len(left) - 1
      BY <1>1, HeadTailProperties
    <3>2. Len(left) = 1 => Tail(left) = <<>>
      BY <3>1, SeqFacts
    <3> QED
      BY <1>1, <1>2, <1>4, <3>2 DEF Under
  <2>3. From(Line(a, left, q, f), Len(left) + Len(q) + 1,
             Line(a, Tail(left), q, f), Len(Tail(left)) + Len(q) + 1)
    BY <1>1, <2>1, LineDone
  <2>4. LineOf(k) = Line(a, left, q, f) /\ End(k) = Len(left) + Len(q) + 1
    BY <2>1 DEF LineOf, End
  <2>5. /\ LineOf(k)' = Line(a, Tail(left), q, f)
        /\ End(k)' = Len(Tail(left)) + Len(q) + 1
    BY <1>3, <2>1, <2>2 DEF LineOf, End
  <2> QED
    BY <2>3, <2>4, <2>5 DEF Moves
<1>5. CASE k # busy
  <2>1. Under(k) = <<>> /\ Under(k)' = <<>>
    BY <1>1, <1>2, <1>5 DEF Under
  <2> QED
    BY <1>3, <2>1, LineStays
<1> QED
  BY <1>4, <1>5

LEMMA StepMoves ==
    ASSUME InformerInv, Window, [Next]_vars, seen' >= seen, NEW k \in Key
    PROVE  Moves(k)
<1>1. ASSUME NEW j \in Key, Change(j)
      PROVE  Moves(k)
  <2>1. log' = Append(log, [Api EXCEPT ![j] = Len(log) + 1])
        \/ log' = Append(log, [Api EXCEPT ![j] = None])
    BY <1>1 DEF Change
  <2>2. UNCHANGED <<seen, items, busy, left, indexer>>
    BY <1>1 DEF Change, fifo, process
  <2>3. \A e : seen # 0 => Append(log, e)[seen] = log[seen]
    BY LineTypes DEF InformerInv, TypeOK
  <2>4. LastSeen(k)' = LastSeen(k)
    BY <2>1, <2>2, <2>3 DEF LastSeen
  <2> QED
    BY <2>2, <2>4, LineStays DEF Under
<1>2. CASE UNCHANGED <<log, seen, items, busy, left, indexer>>
  BY <1>2, LineStays DEF Under, LastSeen
<1>3. CASE WatchBreaks \/ Deliver \/ UNCHANGED vars
  BY <1>2, <1>3 DEF WatchBreaks, Deliver, vars, fifo, process
<1>4. CASE \E i \in DOMAIN log : List(i)
  BY <1>4, ListMoves
<1>5. CASE \E j \in Key : WatchEvent(j)
  BY <1>5, WatchEventMoves
<1>6. CASE Resync
  BY <1>6, ResyncMoves
<1>7. CASE Pop \/ Store \/ Distribute
  BY <1>7, PopMoves, StoreMoves, DistributeMoves
<1> QED
  BY <1>1, <1>3, <1>4, <1>5, <1>6, <1>7 DEF Next, Reflector, Processor

LEMMA WindowNext ==
    ASSUME InformerInv, Window, [Next]_vars
    PROVE  Window'
<1> DEFINE n == Len(log)
<1>1. /\ log \in Seq(State) /\ n \in Nat \ {0} /\ n \in 1..n /\ Api \in State
      /\ MaxVersion \in Nat
  BY SeqFacts, InformerAssumption DEF InformerInv, TypeOK, Api
<1>2. ASSUME NEW j \in Key, Change(j), NEW k \in Key
      PROVE  /\ Len(log') = n + 1
             /\ \A i \in 1..n : log'[i] = log[i]
             /\ log'[n + 1][k] = log[n][k] \/ log'[n + 1][k] \in {None, n + 1}
  <2>1. n + 1 \in Version
    BY <1>1, <1>2 DEF Change, Version
  <2>2. PICK ver \in {None, n + 1} : log' = Append(log, [Api EXCEPT ![j] = ver])
    BY <1>2 DEF Change
  <2> DEFINE e == [Api EXCEPT ![j] = ver]
  <2>3. e \in State /\ (e[k] = log[n][k] \/ e[k] = ver)
    BY <1>1, <1>2, <2>1, <2>2 DEF State, Api
  <2> HIDE DEF e
  <2>4. /\ Len(Append(log, e)) = n + 1 /\ Append(log, e)[n + 1] = e
        /\ \A i \in 1..n : Append(log, e)[i] = log[i]
    BY <1>1, <2>3, AppendProperties
  <2>5. log' = Append(log, e)
    BY <2>2 DEF e
  <2> QED
    BY <2>2, <2>3, <2>4, <2>5
<1>3. ASSUME NEW j \in Key, Change(j), NEW k \in Key, NEW i \in 1..Len(log'),
             log'[i][k] # None
      PROVE  log'[i][k] <= i /\ \A m \in log'[i][k]..i : log'[m][k] = log'[i][k]
  <2> DEFINE v == log'[i][k]
  <2>1. ASSUME NEW h \in 1..n, log[h][k] # None
        PROVE  /\ log[h][k] \in 1..MaxVersion /\ log[h][k] <= h
               /\ \A m \in log[h][k]..h : m \in 1..n /\ log[m][k] = log[h][k]
    <3>1. log[h][k] <= h /\ \A m \in log[h][k]..h : log[m][k] = log[h][k]
      BY <2>1 DEF Window
    <3>2. log[h][k] \in 1..MaxVersion
      BY <2>1, LineTypes DEF Version
    <3>3. \A w \in 1..MaxVersion : \A m \in w..h : m \in 1..n
      BY <1>1
    <3> QED
      BY <3>1, <3>2, <3>3
  <2>2. CASE i \in 1..n
    BY <1>2, <1>3, <2>1, <2>2
  <2>3. CASE i = n + 1 /\ v = log[n][k]
    <3>1. /\ v \in 1..MaxVersion /\ v <= n
          /\ \A m \in v..n : m \in 1..n /\ log[m][k] = v
      BY <1>1, <1>3, <2>1, <2>3
    <3>2. \A m \in v..(n + 1) : m \in v..n \/ m = n + 1
      BY <1>1, <3>1
    <3>3. \A m \in v..(n + 1) : log'[m][k] = v
      BY <1>2, <1>3, <2>3, <3>1, <3>2
    <3>4. v <= n + 1
      BY <1>1, <3>1
    <3> QED
      BY <2>3, <3>3, <3>4
  <2>4. CASE i = n + 1 /\ v = n + 1
    <3>1. \A m \in v..i : m = i
      BY <1>1, <2>4
    <3>2. v <= i
      BY <1>1, <2>4
    <3> QED
      BY <3>1, <3>2
  <2>5. i \in 1..n \/ i = n + 1
    BY <1>1, <1>2, <1>3
  <2> QED
    BY <1>2, <1>3, <2>2, <2>3, <2>4, <2>5
<1>4. CASE \E j \in Key : Change(j)
  BY <1>3, <1>4 DEF Window
<1>5. CASE UNCHANGED log
  BY <1>5 DEF Window
<1>6. CASE Reflector \/ Processor \/ UNCHANGED vars
  BY <1>5, <1>6 DEF Reflector, Processor, List, WatchEvent, WatchBreaks, Resync, Pop,
     Store, Distribute, Deliver, vars
<1> QED
  BY <1>4, <1>6 DEF Next

LEMMA ForwardInit == Init => ForwardInv
<1>1. SUFFICES ASSUME Init
               PROVE  ForwardInv
  OBVIOUS
<1>2. InformerInv /\ seen = 0 /\ busy = NoKey
  BY <1>1, InformerInit DEF Init
<1>3. Len(log) = 1 /\ \A k \in Key : log[1][k] \in {None, 1}
  BY <1>1 DEF Init
<1>4. Window
  BY <1>3 DEF Window
<1>5. ASSUME NEW k \in Key
      PROVE  InOrder(LineOf(k), End(k)) /\ AtMost(LineOf(k), End(k), seen)
  <2>1. items[k] = <<>> /\ Under(k) = <<>> /\ indexer[k] = None /\ LastSeen(k) = None
    BY <1>1, <1>2, InformerAssumption DEF Init, Under, LastSeen
  <2>2. Len(<<>>) = 0
    BY EmptySeq
  <2>3. End(k) = 1
    BY <2>1, <2>2 DEF End
  <2>4. LineOf(k)[0] = None /\ LineOf(k)[1] = None
    BY <1>2, <2>1, <2>3, LineTypes
  <2>5. \A x \in 0..1 : LineOf(k)[x] = 0
    BY <2>4 DEF None
  <2> QED
    BY <1>2, <2>3, <2>5 DEF InOrder, AtMost, None
<1> QED
  BY <1>4, <1>5 DEF ForwardInv

LEMMA LastSeenNext ==
    ASSUME InformerInv', Window', NEW k \in Key
    PROVE  /\ End(k)' \in Nat /\ LastSeen(k)' \in Nat /\ seen' \in Nat
           /\ LastSeen(k)' <= seen'
<1>1. /\ log' \in Seq(State) /\ seen' \in 0..Len(log') /\ left' \in Seq(Delta)
      /\ items'[k] \in Seq(Delta)
  BY DEF InformerInv, TypeOK
<1>2. Len(log') \in Nat /\ \A i \in 1..Len(log') : log'[i] \in State
  BY <1>1, SeqFacts
<1>3. Len(items'[k]) \in Nat /\ Len(left') \in Nat /\ Len(<<>>) = 0
  BY <1>1, SeqFacts, EmptySeq
<1>4. End(k)' \in Nat
  <2>1. CASE busy' = k
    BY <1>3, <2>1 DEF End, Under
  <2>2. CASE busy' # k
    BY <1>3, <2>2 DEF End, Under
  <2> QED
    BY <2>1, <2>2
<1>5. \A w \in Version \cup {None} : w \in Nat
  BY InformerAssumption DEF Version, None
<1>6. CASE seen' = 0
  BY <1>4, <1>6 DEF LastSeen, None
<1>7. CASE seen' # 0
  <2>1. seen' \in 1..Len(log') /\ seen' \in Nat
    BY <1>1, <1>2, <1>7
  <2>2. LastSeen(k)' = log'[seen'][k] /\ log'[seen'][k] \in Version \cup {None}
    BY <1>2, <1>7, <2>1 DEF LastSeen, State
  <2>3. log'[seen'][k] # None => log'[seen'][k] <= seen'
    BY <2>1 DEF Window
  <2> QED
    BY <1>4, <1>5, <2>1, <2>2, <2>3 DEF None
<1> QED
  BY <1>6, <1>7

\* What a step makes of a line, and what it keeps.
Advances(c, N, d, M, f, s) ==
    \/ From(c, N, d, M)
    \/ Renewed(c, N, d, M, f) /\ (f = None \/ f > s)

StaysBeyond(c, N, s, d, M, t) ==
    \A v \in Nat : v <= s /\ Beyond(c, N, v) => v <= t /\ Beyond(d, M, v)

LEMMA AdvanceKeeps ==
    ASSUME NEW c, NEW d, NEW f \in Nat, NEW N \in Nat, NEW M \in Nat,
           NEW s \in Nat, NEW t \in Nat, Advances(c, N, d, M, f, s),
           InOrder(c, N), AtMost(c, N, s), s <= t, f <= t
    PROVE  InOrder(d, M) /\ AtMost(d, M, t) /\ StaysBeyond(c, N, s, d, M, t)
<1>1. CASE From(c, N, d, M)
  <2>1. /\ InOrder(d, M) /\ AtMost(d, M, s)
        /\ \A v \in Nat : Beyond(c, N, v) => Beyond(d, M, v)
    BY <1>1, FromKeeps
  <2>2. AtMost(d, M, t)
    BY <2>1 DEF AtMost
  <2> QED
    BY <2>1, <2>2 DEF StaysBeyond
<1>2. CASE Renewed(c, N, d, M, f) /\ (f = None \/ f > s)
  <2>1. /\ InOrder(d, M) /\ AtMost(d, M, t)
        /\ \A v \in Nat : v <= s /\ Beyond(c, N, v) => Beyond(d, M, v)
    BY <1>2, RenewedKeeps
  <2> QED
    BY <2>1 DEF StaysBeyond
<1> QED
  BY <1>1, <1>2 DEF Advances

\* When version v leaves the start of a line, it has left the line.
LEMMA LeavesLine ==
    ASSUME NEW c, NEW d, NEW f, NEW N \in Nat \ {0}, NEW M \in Nat, NEW s \in Nat,
           NEW v \in Nat, v # None, Advances(c, N, d, M, f, s),
           InOrder(c, N), AtMost(c, N, s), c[0] = v, d[0] # v
    PROVE  v <= s /\ Beyond(d, M, v)
<1>1. v <= s
  BY DEF AtMost
<1>2. PICK h \in [0..M -> 0..N] :
         /\ \A x, y \in 0..M : x <= y => h[x] <= h[y]
         /\ \A x \in 0..M : d[x] = c[h[x]]
  <2>1. Renewed(c, N, d, M, f) => d[0] = c[0]
    BY DEF Renewed
  <2> QED
    BY <2>1 DEF Advances, From
<1>3. h[0] \in 0..N /\ c[h[0]] # v
  BY <1>2
<1>4. ASSUME NEW x \in 0..M, d[x] # None
      PROVE  d[x] > v
  <2>1. h[x] \in 0..N /\ h[0] <= h[x] /\ d[x] = c[h[x]]
    BY <1>2
  <2>2. 0 \in 0..N /\ 0 <= h[x] /\ h[0] \in 0..h[x]
    BY <1>3, <2>1
  <2>3. v <= d[x] /\ (v = d[x] => c[h[0]] = d[x])
    BY <1>4, <2>1, <2>2 DEF InOrder
  <2>4. d[x] \in Nat
    BY <2>1 DEF AtMost
  <2> QED
    BY <1>3, <2>3, <2>4
<1> QED
  BY <1>1, <1>4 DEF Beyond

LEMMA ForwardNext ==
    ASSUME InformerInv, InformerInv', ForwardInv, [Next]_vars, seen' >= seen
    PROVE  /\ ForwardInv'
           /\ \A k \in Key, v \in Nat :
                 v <= seen /\ Beyond(LineOf(k), End(k), v) =>
                    v <= seen' /\ Beyond(LineOf(k)', End(k)', v)
<1>1. Window'
  BY WindowNext DEF ForwardInv
<1>2. ASSUME NEW k \in Key
      PROVE  /\ InOrder(LineOf(k)', End(k)') /\ AtMost(LineOf(k)', End(k)', seen')
             /\ \A v \in Nat : v <= seen /\ Beyond(LineOf(k), End(k), v) =>
                    v <= seen' /\ Beyond(LineOf(k)', End(k)', v)
  <2>1. PICK c, d, N, M, f, t : /\ c = LineOf(k) /\ d = LineOf(k)' /\ N = End(k)
                                /\ M = End(k)' /\ f = LastSeen(k)' /\ t = seen'
    OBVIOUS
  <2>2. N \in Nat /\ seen \in Nat
    BY <2>1, LineTypes
  <2>3. M \in Nat /\ f \in Nat /\ t \in Nat /\ f <= t
    BY <1>1, <2>1, LastSeenNext
  <2>4. InOrder(c, N) /\ AtMost(c, N, seen)
    BY <2>1 DEF ForwardInv
  <2>5. Advances(c, N, d, M, f, seen)
    BY <2>1, StepMoves DEF Moves, Advances, ForwardInv
  <2>6. seen <= t
    BY <2>1, <2>2, <2>3
  <2>7. InOrder(d, M) /\ AtMost(d, M, t) /\ StaysBeyond(c, N, seen, d, M, t)
    BY <2>2, <2>3, <2>4, <2>5, <2>6, AdvanceKeeps
  <2> QED
    BY <2>1, <2>7 DEF StaysBeyond
<1> QED
  BY <1>1, <1>2 DEF ForwardInv

\* A version leaves the listers' copy only for a line without it.
LEMMA LeavesForGood ==
    ASSUME InformerInv, InformerInv', ForwardInv, [Next]_vars, seen' >= seen,
           NEW k \in Key, NEW v \in Version, indexer[k] = v, indexer'[k] # v
    PROVE  v <= seen' /\ Beyond(LineOf(k)', End(k)', v)
<1>1. PICK c, d, N, M, f, t : /\ c = LineOf(k) /\ d = LineOf(k)' /\ N = End(k)
                              /\ M = End(k)' /\ f = LastSeen(k)' /\ t = seen'
  OBVIOUS
<1>2. N \in Nat \ {0} /\ seen \in Nat /\ c[0] = v
  BY <1>1, LineTypes
<1>3. M \in Nat /\ t \in Nat /\ seen <= t
  <2>1. ForwardInv'
    BY ForwardNext
  <2> QED
    BY <1>1, <1>2, <2>1, LastSeenNext DEF ForwardInv
<1>4. InOrder(c, N) /\ AtMost(c, N, seen) /\ v \in Nat /\ v # None
  BY <1>1 DEF ForwardInv, Version, None
<1>5. d[0] # v
  <2>1. items'[k] \in Seq(Delta) /\ Under(k)' \in Seq(Delta)
    BY EmptySeq DEF InformerInv, TypeOK, Under
  <2>2. IsLine(LineOf(k)', indexer'[k], Under(k)', items'[k], LastSeen(k)')
    BY <2>1, LineFacts DEF LineOf
  <2> QED
    BY <1>1, <2>2 DEF IsLine
<1>6. Advances(c, N, d, M, f, seen)
  BY <1>1, StepMoves DEF Moves, Advances, ForwardInv
<1>7. v <= seen /\ Beyond(d, M, v)
  BY <1>2, <1>3, <1>4, <1>5, <1>6, LeavesLine
<1> QED
  BY <1>1, <1>2, <1>3, <1>4, <1>7

\* As long as no list is older than what the reflector has seen already, the
\* listers' copy of each object moves forward: a version that it has shown and
\* shows no longer is followed by newer ones and deletions only, through merged
\* deltas, resyncs, broken watches and relists that overlook an object.
THEOREM CopyMovesForward ==
    ASSUME NEW k \in Key, NEW v \in Version
    PROVE  Spec /\ [][seen' >= seen]_vars =>
              [](indexer[k] = v =>
                    [](indexer[k] # v => [](indexer[k] = None \/ indexer[k] > v)))
<1> DEFINE Gone == v <= seen /\ Beyond(LineOf(k), End(k), v)
           Inv == InformerInv /\ ForwardInv
           Shown == indexer[k] = v
           Left == indexer[k] # v
           Newer == indexer[k] = None \/ indexer[k] > v
<1>1. Init => Inv
  BY InformerInit, ForwardInit
<1>2. Inv /\ [Next]_vars /\ [seen' >= seen]_vars =>
         Inv' /\ (Gone => Gone') /\ (Shown => Shown' \/ Gone')
  <2>1. SUFFICES ASSUME Inv, [Next]_vars, [seen' >= seen]_vars
                 PROVE  Inv' /\ (Gone => Gone') /\ (Shown => Shown' \/ Gone')
    OBVIOUS
  <2>2. InformerInv'
    BY <2>1, InformerNext
  <2>3. seen' >= seen
    BY <2>1, LineTypes DEF vars
  <2>4. v \in Nat
    BY DEF Version
  <2> QED
    BY <2>1, <2>2, <2>3, <2>4, ForwardNext, LeavesForGood
<1>3. Inv /\ Gone => ~Shown /\ Newer
  <2>1. SUFFICES ASSUME Inv, Gone
                 PROVE  ~Shown /\ Newer
    OBVIOUS
  <2>2. End(k) \in Nat \ {0} /\ LineOf(k)[0] = indexer[k] /\ indexer[k] \in Nat
    BY <2>1, LineTypes
  <2>3. v \in Nat /\ v # None
    BY DEF Version, None
  <2> QED
    BY <2>1, <2>2, <2>3 DEF Beyond
<1>4. Left => ~Shown
  OBVIOUS
<1>5. Spec /\ [][seen' >= seen]_vars => [](Shown => [](Left => []Newer))
  <2> HIDE DEF Gone, Inv, Shown, Left, Newer
  <2> QED
    BY <1>1, <1>2, <1>3, <1>4, PTL DEF Spec
<1> QED
  BY <1>5

-----------------------------------------------------------------------------
(* So does the handler's view.  An object's story is what the handler was    *)
(* told, what its notifications will tell it one by one, and then the line   *)
(* that the last of them has led to.                                         *)

Views(t, s, k) == [n \in 0..Len(s) |-> ViewFrom(t, s, n, k)]

\* Line c up to N, after the first L elements of p.
Joined(p, L, c, N) == [n \in 0..(L + N) |-> IF n < L THEN p[n] ELSE c[n - L]]

Story(k) == Joined(Views(told, Untold, k), Len(Untold), LineOf(k), End(k))
StoryEnd(k) == Len(Untold) + End(k)

StoryInv ==
    \A k \in Key : InOrder(Story(k), StoryEnd(k)) /\ AtMost(Story(k), StoryEnd(k), seen)

HandlerInv == ToldInv /\ ForwardInv /\ StoryInv

\* What comes of the line comes of the story, with or without one more thing
\* to tell.
LEMMA JoinedFrom ==
    ASSUME NEW p, NEW q, NEW L \in Nat, NEW K \in Nat, NEW c, NEW d,
           NEW N \in Nat, NEW M \in Nat, From(c, N, d, M),
           \A n \in 0..(L - 1) : q[n] = p[n],
           K = L \/ (K = L + 1 /\ q[L] = c[0])
    PROVE  From(Joined(p, L, c, N), L + N, Joined(q, K, d, M), K + M)
<1>1. PICK h \in [0..M -> 0..N] :
         /\ \A x, y \in 0..M : x <= y => h[x] <= h[y]
         /\ \A x \in 0..M : d[x] = c[h[x]]
  BY DEF From
<1> DEFINE g == [x \in 0..(K + M) |-> IF x < K THEN x ELSE L + h[x - K]]
           a == Joined(p, L, c, N)
           b == Joined(q, K, d, M)
<1>2. ASSUME NEW x \in 0..(K + M)
      PROVE  \/ /\ x < K /\ x <= L /\ g[x] = x
             \/ /\ x >= K /\ x - K \in 0..M /\ g[x] = L + h[x - K] /\ h[x - K] \in 0..N
  OBVIOUS
<1>3. /\ \A x \in 0..(L + N) : a[x] = IF x < L THEN p[x] ELSE c[x - L]
      /\ \A x \in 0..(K + M) : b[x] = IF x < K THEN q[x] ELSE d[x - K]
  BY DEF Joined
<1>4. g = [x \in 0..(K + M) |-> g[x]]
  OBVIOUS
<1> HIDE DEF g, a, b
<1>5. g \in [0..(K + M) -> 0..(L + N)]
  <2>1. ASSUME NEW x \in 0..(K + M)
        PROVE  g[x] \in 0..(L + N)
    <3>1. CASE x <= L /\ g[x] = x
      BY <3>1
    <3>2. CASE g[x] = L + h[x - K] /\ h[x - K] \in 0..N
      BY <3>2
    <3> QED
      BY <1>2, <3>1, <3>2
  <2> QED
    BY <1>4, <2>1
<1>6. ASSUME NEW x \in 0..(K + M), NEW y \in 0..(K + M), x <= y
      PROVE  g[x] <= g[y]
  <2>1. CASE y < K
    BY <1>2, <1>6, <2>1
  <2>2. CASE x < K /\ y >= K
    BY <1>2, <2>2
  <2>3. CASE x >= K
    <3>1. x - K \in 0..M /\ y - K \in 0..M /\ x - K <= y - K
      BY <1>6, <2>3
    <3>2. h[x - K] <= h[y - K] /\ h[x - K] \in 0..N /\ h[y - K] \in 0..N
      BY <1>1, <3>1
    <3>3. g[x] = L + h[x - K] /\ g[y] = L + h[y - K]
      BY <1>2, <1>6, <2>3
    <3> QED
      BY <3>2, <3>3
  <2> QED
    BY <2>1, <2>2, <2>3
<1>7. ASSUME NEW x \in 0..(K + M)
      PROVE  b[x] = a[g[x]]
  <2>1. CASE x < L
    <3>1. x < K /\ x \in 0..(L - 1) /\ x \in 0..(L + N) /\ g[x] = x
      BY <1>2, <2>1
    <3> QED
      BY <1>3, <2>1, <3>1
  <2>2. CASE x >= L /\ x < K
    <3>1. x = L /\ K = L + 1 /\ g[x] = L /\ L \in 0..(L + N) /\ L - L = 0 /\ ~(L < L)
      BY <1>2, <2>2
    <3>2. b[x] = q[L] /\ a[L] = c[0]
      BY <1>3, <2>2, <3>1
    <3> QED
      BY <3>1, <3>2
  <2>3. CASE x >= K
    <3>1. /\ ~(x < K) /\ x - K \in 0..M /\ g[x] = L + h[x - K] /\ h[x - K] \in 0..N
      BY <1>2, <2>3
    <3>2. /\ L + h[x - K] \in 0..(L + N) /\ ~(L + h[x - K] < L)
          /\ (L + h[x - K]) - L = h[x - K]
      BY <3>1
    <3>3. a[g[x]] = c[h[x - K]] /\ b[x] = d[x - K]
      BY <1>3, <3>1, <3>2
    <3> QED
      BY <1>1, <3>1, <3>3
  <2> QED
    BY <2>1, <2>2, <2>3
<1> QED
  BY <1>5, <1>6, <1>7 DEF From, a, b

LEMMA JoinedRenewed ==
    ASSUME NEW p, NEW q, NEW L \in Nat, NEW c, NEW d, NEW f,
           NEW N \in Nat, NEW M \in Nat, Renewed(c, N, d, M, f),
           \A n \in 0..(L - 1) : q[n] = p[n]
    PROVE  Renewed(Joined(p, L, c, N), L + N, Joined(q, L, d, M), L + M, f)
<1> DEFINE a == Joined(p, L, c, N)
           b == Joined(q, L, d, M)
<1>1. /\ \A x \in 0..(L + N) : a[x] = IF x < L THEN p[x] ELSE c[x - L]
      /\ \A x \in 0..(L + M) : b[x] = IF x < L THEN q[x] ELSE d[x - L]
  BY DEF Joined
<1> HIDE DEF a, b
<1>2. N <= M /\ L + N <= L + M
  BY DEF Renewed
<1>3. ASSUME NEW x \in 0..(L + N - 1)
      PROVE  b[x] = a[x]
  <2>1. x \in 0..(L + N) /\ x \in 0..(L + M)
    BY <1>2
  <2>2. CASE x < L
    BY <1>1, <2>1, <2>2
  <2>3. CASE x >= L
    <3>1. x - L \in 0..(N - 1) /\ ~(x < L)
      BY <2>3
    <3>2. d[x - L] = c[x - L]
      BY <3>1 DEF Renewed
    <3> QED
      BY <1>1, <2>1, <3>1, <3>2
  <2> QED
    BY <2>2, <2>3
<1>4. ASSUME NEW x \in (L + N)..(L + M)
      PROVE  b[x] = f
  <2>1. x \in 0..(L + M) /\ x - L \in N..M /\ ~(x < L)
    OBVIOUS
  <2>2. d[x - L] = f
    BY <2>1 DEF Renewed
  <2> QED
    BY <1>1, <2>1, <2>2
<1> QED
  BY <1>2, <1>3, <1>4 DEF Renewed, a, b

\* What the handler is told next comes out of the story.
LEMMA StoryTold ==
    ASSUME NEW t \in State, NEW s \in Seq(Note), s # <<>>, NEW k \in Key,
           NEW w, w = [t EXCEPT ![s[1].key] = s[1].ver],
           NEW c, NEW N \in Nat, ViewFrom(t, s, Len(s), k) = c[0]
    PROVE  From(Joined(Views(t, s, k), Len(s), c, N), Len(s) + N,
                Joined(Views(w, Tail(s), k), Len(Tail(s)), c, N), Len(Tail(s)) + N)
<1> DEFINE L == Len(s)
           u == Tail(s)
           p == Views(t, s, k)
           q == Views(w, u, k)
           a == Joined(p, L, c, N)
           b == Joined(q, L - 1, c, N)
           h == [x \in 0..(L - 1 + N) |-> x + 1]
<1>1. /\ L \in Nat \ {0} /\ Len(u) = L - 1 /\ L - 1 \in Nat
      /\ \A i \in 1..(L - 1) : u[i] = s[i + 1]
  BY EmptySeq, SeqFacts, HeadTailProperties
<1>2. /\ \A x \in 0..(L + N) : a[x] = IF x < L THEN p[x] ELSE c[x - L]
      /\ \A x \in 0..(L - 1 + N) : b[x] = IF x < L - 1 THEN q[x] ELSE c[x - (L - 1)]
  BY DEF Joined
<1>3. /\ \A x \in 0..L : p[x] = ViewFrom(t, s, x, k)
      /\ \A x \in 0..(L - 1) : q[x] = ViewFrom(w, u, x, k)
  BY <1>1 DEF Views
<1>4. h \in [0..(L - 1 + N) -> 0..(L + N)]
      /\ \A x, y \in 0..(L - 1 + N) : x <= y => h[x] <= h[y]
  BY <1>1
<1>5. \A x \in 0..(L - 1 + N) : h[x] = x + 1
  OBVIOUS
<1> HIDE DEF L, u, p, q, a, b, h
<1>6. \A x \in 0..(L - 1) : q[x] = ViewFrom(t, s, x + 1, k)
  BY <1>3, ViewsTail DEF L, u
<1>7. ASSUME NEW x \in 0..(L - 1 + N)
      PROVE  b[x] = a[h[x]]
  <2>1. x + 1 \in 0..(L + N) /\ h[x] = x + 1
    BY <1>1, <1>5
  <2>2. CASE x < L - 1
    <3>1. x \in 0..(L - 1) /\ x + 1 \in 0..L /\ x + 1 < L
      BY <1>1, <2>2
    <3>2. b[x] = q[x] /\ a[x + 1] = p[x + 1]
      BY <1>2, <2>1, <2>2, <3>1
    <3> QED
      BY <1>3, <1>6, <2>1, <3>1, <3>2
  <2>3. CASE ~(x < L - 1)
    <3>1. PICK y, z : y = x + 1 /\ z = x - (L - 1)
      OBVIOUS
    <3>2. y \in 0..(L + N) /\ ~(y < L) /\ y - L = z
      BY <1>1, <2>1, <2>3, <3>1
    <3>3. a[y] = c[z] /\ b[x] = c[z]
      BY <1>2, <2>3, <3>1, <3>2
    <3> QED
      BY <2>1, <3>1, <3>3
  <2> QED
    BY <2>2, <2>3
<1>8. From(a, L + N, b, L - 1 + N)
  BY <1>4, <1>7 DEF From
<1> QED
  BY <1>1, <1>8 DEF L, u, p, q, a, b

\* A story starts with what was told.
LEMMA StoryStarts ==
    ASSUME NEW t, NEW s \in Seq(Note), NEW k, NEW c, NEW N \in Nat,
           ViewFrom(t, s, Len(s), k) = c[0]
    PROVE  Joined(Views(t, s, k), Len(s), c, N)[0] = t[k]
<1>1. PICK L, p : L = Len(s) /\ L \in Nat /\ p = Views(t, s, k)
  BY SeqFacts
<1>2. p[0] = ViewFrom(t, s, 0, k) /\ ViewFrom(t, s, 0, k) = t[k]
  <2>1. 0 \in 0..L
    BY <1>1
  <2> QED
    BY <1>1, <2>1 DEF Views, ViewFrom, Of
<1>3. Joined(p, L, c, N)[0] = IF 0 < L THEN p[0] ELSE c[0 - L]
  <2>1. 0 \in 0..(L + N)
    BY <1>1
  <2> QED
    BY <2>1 DEF Joined
<1>4. ~(0 < L) => L = 0 /\ 0 - L = 0
  BY <1>1
<1> QED
  BY <1>1, <1>2, <1>3, <1>4

LEMMA StoryTypes ==
    ASSUME ToldInv, NEW k \in Key
    PROVE  /\ Untold \in Seq(Note) /\ Len(Untold) \in Nat
           /\ StoryEnd(k) \in Nat \ {0} /\ Story(k)[0] = told[k]
           /\ ViewFrom(told, Untold, Len(Untold), k) = LineOf(k)[0]
<1>1. Untold \in Seq(Note) /\ Len(Untold) \in Nat
  <2>1. Untold \in Seq(Note)
    BY ConcatProperties DEF ToldInv, InformerInv, TypeOK, Untold
  <2> QED
    BY <2>1, SeqFacts
<1>2. End(k) \in Nat \ {0} /\ LineOf(k)[0] = indexer[k]
  BY LineTypes DEF ToldInv
<1>3. ViewFrom(told, Untold, Len(Untold), k) = indexer[k]
  BY ToldIsRight DEF ToldInv, InformerInv, RightFor, Untold
<1>4. Story(k)[0] = told[k]
  BY <1>1, <1>2, <1>3, StoryStarts DEF Story
<1> QED
  BY <1>1, <1>2, <1>3, <1>4 DEF StoryEnd

LEMMA StoryTypesNext ==
    ASSUME ToldInv', Window', NEW k \in Key
    PROVE  StoryEnd(k)' \in Nat /\ Story(k)'[0] = told'[k]
<1>1. Untold' \in Seq(Note) /\ Len(Untold') \in Nat
  <2>1. Untold' \in Seq(Note)
    BY ConcatProperties DEF ToldInv, InformerInv, TypeOK, Untold
  <2> QED
    BY <2>1, SeqFacts
<1>2. End(k)' \in Nat
  BY LastSeenNext DEF ToldInv
<1>3. LineOf(k)'[0] = indexer'[k]
  <2>1. items'[k] \in Seq(Delta) /\ Under(k)' \in Seq(Delta)
    BY EmptySeq DEF ToldInv, InformerInv, TypeOK, Under
  <2>2. IsLine(LineOf(k)', indexer'[k], Under(k)', items'[k], LastSeen(k)')
    BY <2>1, LineFacts DEF LineOf
  <2> QED
    BY <2>2 DEF IsLine
<1>4. ViewFrom(told', Untold', Len(Untold'), k) = indexer'[k]
  BY ToldIsRightNext DEF ToldInv, InformerInv, RightFor, Untold
<1>5. Story(k)'[0] = told'[k]
  BY <1>1, <1>2, <1>3, <1>4, StoryStarts DEF Story
<1> QED
  BY <1>1, <1>2, <1>5 DEF StoryEnd

LEMMA UntoldStored ==
    ASSUME ToldInv, Store
    PROVE  told' = told /\ \E d \in Note : Untold' = Append(Untold, d)
<1>1. /\ busy \in Key /\ left # <<>> /\ left \in Seq(Delta) /\ Head(left) = left[1]
      /\ notes \in Seq(Note)
  BY DEF Store, ToldInv, InformerInv, TypeOK, KeptInv, ProcessInv
<1>2. left[1] \in Delta
  BY <1>1, EmptySeq, SeqFacts
<1>3. NoteOf(Head(left)) \in Note
  BY <1>1, <1>2 DEF NoteOf, NoteType, Note, Delta
<1>4. /\ unsent = <<>> /\ unsent' = <<NoteOf(Head(left))>> /\ notes' = notes
      /\ told' = told
  BY DEF Store
<1>5. Untold = notes /\ Untold' = Append(notes, NoteOf(Head(left)))
  BY <1>1, <1>3, <1>4, ConcatEmptySeq DEF Untold
<1> QED
  BY <1>3, <1>4, <1>5

LEMMA UntoldStays ==
    ASSUME ToldInv, [Next]_vars, ~Store, ~Deliver
    PROVE  Untold' = Untold /\ told' = told
<1>1. CASE UNCHANGED <<notes, unsent, told>>
  BY <1>1 DEF Untold
<1>2. CASE Distribute
  <2>1. /\ Untold \in Seq(Note) /\ notes' = Untold /\ unsent' = <<>> /\ told' = told
    BY <1>2, ConcatProperties
    DEF Distribute, ToldInv, InformerInv, TypeOK, Untold
  <2>2. Untold' = Untold
    BY <2>1, ConcatEmptySeq DEF Untold
  <2> QED
    BY <2>1, <2>2
<1>3. CASE (\E k \in Key : Change(k)) \/ Pop \/ UNCHANGED vars
  BY <1>1, <1>3 DEF Change, Pop, process, vars
<1>4. CASE Reflector
  BY <1>1, <1>4 DEF Reflector, List, WatchEvent, WatchBreaks, Resync, process
<1> QED
  BY <1>2, <1>3, <1>4 DEF Next, Processor

StoryMoves(k) ==
    Advances(Story(k), StoryEnd(k), Story(k)', StoryEnd(k)', LastSeen(k)', seen)

\* A step that has nothing more to tell.
LEMMA QuietStory ==
    ASSUME ToldInv, NEW k \in Key, Moves(k), Untold' = Untold, told' = told,
           End(k)' \in Nat
    PROVE  StoryMoves(k)
<1>1. PICK c, d, N, M, f, L, p :
         /\ c = LineOf(k) /\ d = LineOf(k)' /\ N = End(k) /\ M = End(k)'
         /\ f = LastSeen(k)' /\ L = Len(Untold) /\ p = Views(told, Untold, k)
  OBVIOUS
<1>2. N \in Nat /\ M \in Nat /\ L \in Nat
  BY <1>1, LineTypes, StoryTypes DEF ToldInv
<1>3. /\ Story(k) = Joined(p, L, c, N) /\ StoryEnd(k) = L + N
      /\ Story(k)' = Joined(p, L, d, M) /\ StoryEnd(k)' = L + M
  BY <1>1 DEF Story, StoryEnd
<1>4. From(c, N, d, M) \/ (Renewed(c, N, d, M, f) /\ (f = None \/ f > seen))
  BY <1>1 DEF Moves
<1>5. From(c, N, d, M) => From(Joined(p, L, c, N), L + N, Joined(p, L, d, M), L + M)
  BY <1>2, JoinedFrom
<1>6. Renewed(c, N, d, M, f) =>
         Renewed(Joined(p, L, c, N), L + N, Joined(p, L, d, M), L + M, f)
  BY <1>2, JoinedRenewed
<1> QED
  BY <1>1, <1>3, <1>4, <1>5, <1>6 DEF StoryMoves, Advances

LEMMA StoreStory ==
    ASSUME ToldInv, Store, NEW k \in Key, End(k)' \in Nat
    PROVE  StoryMoves(k)
<1>1. PICK c, d, N, M, L, K, p, q :
         /\ c = LineOf(k) /\ d = LineOf(k)' /\ N = End(k) /\ M = End(k)'
         /\ L = Len(Untold) /\ p = Views(told, Untold, k)
         /\ K = Len(Untold') /\ q = Views(told', Untold', k)
  OBVIOUS
<1>2. PICK e \in Note : told' = told /\ Untold' = Append(Untold, e)
  BY UntoldStored
<1>3. N \in Nat /\ M \in Nat /\ L \in Nat /\ Untold \in Seq(Note)
  BY <1>1, LineTypes, StoryTypes DEF ToldInv
<1>4. K = L + 1 /\ \A i \in 1..L : Untold'[i] = Untold[i]
  BY <1>1, <1>2, <1>3, AppendProperties
<1>5. ASSUME NEW n \in 0..L
      PROVE  q[n] = p[n]
  <2>1. n \in Nat /\ \A i \in 1..n : Untold'[i] = Untold[i]
    BY <1>3, <1>4
  <2>2. ViewFrom(told, Untold', n, k) = ViewFrom(told, Untold, n, k)
    BY <2>1, ViewPrefix
  <2>3. n \in 0..K
    BY <1>3, <1>4
  <2> QED
    BY <1>1, <1>2, <2>2, <2>3 DEF Views
<1>6. q[L] = c[0]
  <2>1. L \in 0..L /\ p[L] = ViewFrom(told, Untold, L, k)
    BY <1>1, <1>3 DEF Views
  <2> QED
    BY <1>1, <1>5, <2>1, StoryTypes
<1>7. From(c, N, d, M)
  <2>1. LastSeen(k)' = LastSeen(k) /\ c[N] = LastSeen(k)
    BY <1>1, LineTypes DEF Store, LastSeen, ToldInv
  <2> QED
    BY <1>1, <1>3, <2>1, StoreMoves, RenewedSame DEF Moves, ToldInv
<1>8. \A n \in 0..(L - 1) : q[n] = p[n]
  BY <1>3, <1>5
<1>9. K \in Nat /\ From(Joined(p, L, c, N), L + N, Joined(q, K, d, M), K + M)
  <2>1. K \in Nat
    BY <1>3, <1>4
  <2> QED
    BY <1>3, <1>4, <1>6, <1>7, <1>8, <2>1, JoinedFrom
<1> QED
  BY <1>1, <1>9 DEF StoryMoves, Advances, Story, StoryEnd

LEMMA DeliverStory ==
    ASSUME ToldInv, Deliver, NEW k \in Key
    PROVE  StoryMoves(k)
<1>1. /\ Untold \in Seq(Note) /\ Untold # <<>> /\ Untold' = Tail(Untold)
      /\ told' = [told EXCEPT ![Untold[1].key] = Untold[1].ver] /\ told \in State
  BY UntoldDelivered DEF ToldInv, InformerInv, TypeOK
<1>2. LineOf(k)' = LineOf(k) /\ End(k)' = End(k)
  BY DEF Deliver, fifo, process, LineOf, Line, End, Under, LastSeen
<1>3. PICK c, N : c = LineOf(k) /\ N = End(k) /\ N \in Nat
  BY LineTypes DEF ToldInv
<1>4. ViewFrom(told, Untold, Len(Untold), k) = c[0]
  BY <1>3, StoryTypes
<1>5. From(Joined(Views(told, Untold, k), Len(Untold), c, N), Len(Untold) + N,
           Joined(Views(told', Tail(Untold), k), Len(Tail(Untold)), c, N),
           Len(Tail(Untold)) + N)
  BY <1>1, <1>3, <1>4, StoryTold
<1> QED
  BY <1>1, <1>2, <1>3, <1>5 DEF StoryMoves, Advances, Story, StoryEnd

LEMMA EachStoryMoves ==
    ASSUME ToldInv, Window, [Next]_vars, seen' >= seen, NEW k \in Key, End(k)' \in Nat
    PROVE  StoryMoves(k)
<1>1. CASE Store
  BY <1>1, StoreStory
<1>2. CASE Deliver
  BY <1>2, DeliverStory
<1>3. CASE ~Store /\ ~Deliver
  <2>1. Untold' = Untold /\ told' = told
    BY <1>3, UntoldStays
  <2>2. Moves(k)
    BY StepMoves DEF ToldInv
  <2> QED
    BY <2>1, <2>2, QuietStory
<1> QED
  BY <1>1, <1>2, <1>3

LEMMA StoryInit == Init => HandlerInv
<1>1. SUFFICES ASSUME Init
               PROVE  HandlerInv
  OBVIOUS
<1>2. ToldInv /\ ForwardInv
  BY <1>1, ToldInit, ForwardInit
<1>3. ASSUME NEW k \in Key
      PROVE  InOrder(Story(k), StoryEnd(k)) /\ AtMost(Story(k), StoryEnd(k), seen)
  <2>1. PICK c, N : c = LineOf(k) /\ N = End(k) /\ N \in Nat /\ seen \in Nat
    BY <1>2, LineTypes DEF ToldInv
  <2>2. Len(Untold) = 0
    BY <1>1 DEF Init, Untold
  <2>3. PICK p, d : /\ d = Joined(p, 0, c, N) /\ 0 + N = N
                    /\ Story(k) = d /\ StoryEnd(k) = N
    BY <2>1, <2>2 DEF Story, StoryEnd
  <2>4. From(c, N, d, N)
    <3> DEFINE h == [x \in 0..N |-> x]
    <3>1. h \in [0..N -> 0..N] /\ \A x, y \in 0..N : x <= y => h[x] <= h[y]
      BY <2>1
    <3>2. \A x \in 0..N : x - 0 = x /\ ~(x < 0)
      BY <2>1
    <3>3. \A x \in 0..N : d[x] = c[h[x]]
      BY <2>1, <2>3, <3>2 DEF Joined
    <3> QED
      BY <3>1, <3>3 DEF From
  <2>5. InOrder(c, N) /\ AtMost(c, N, seen)
    BY <1>2, <2>1 DEF ForwardInv
  <2>6. InOrder(d, N) /\ AtMost(d, N, seen)
    BY <2>1, <2>4, <2>5, FromKeeps
  <2> QED
    BY <2>3, <2>6
<1> QED
  BY <1>2, <1>3 DEF HandlerInv, StoryInv

LEMMA StoryNext ==
    ASSUME HandlerInv, [Next]_vars, seen' >= seen
    PROVE  /\ HandlerInv'
           /\ \A k \in Key, v \in Nat :
                 v <= seen /\ Beyond(Story(k), StoryEnd(k), v) =>
                    v <= seen' /\ Beyond(Story(k)', StoryEnd(k)', v)
<1>1. ToldInv' /\ ForwardInv' /\ Window'
  BY ToldNext, ForwardNext DEF HandlerInv, ToldInv, ForwardInv
<1>2. ASSUME NEW k \in Key
      PROVE  /\ InOrder(Story(k)', StoryEnd(k)') /\ AtMost(Story(k)', StoryEnd(k)', seen')
             /\ \A v \in Nat : v <= seen /\ Beyond(Story(k), StoryEnd(k), v) =>
                    v <= seen' /\ Beyond(Story(k)', StoryEnd(k)', v)
  <2>1. PICK c, d, N, M, f, t :
           /\ c = Story(k) /\ d = Story(k)' /\ N = StoryEnd(k)
           /\ M = StoryEnd(k)' /\ f = LastSeen(k)' /\ t = seen'
    OBVIOUS
  <2>2. N \in Nat /\ seen \in Nat
    BY <2>1, LineTypes, StoryTypes DEF HandlerInv, ToldInv
  <2>3. /\ M \in Nat /\ f \in Nat /\ t \in Nat /\ f <= t
        /\ End(k)' \in Nat
    BY <1>1, <2>1, LastSeenNext, StoryTypesNext DEF ToldInv
  <2>4. InOrder(c, N) /\ AtMost(c, N, seen)
    BY <2>1 DEF HandlerInv, StoryInv
  <2>5. Advances(c, N, d, M, f, seen)
    BY <2>1, <2>3, EachStoryMoves DEF StoryMoves, HandlerInv, ForwardInv
  <2>6. seen <= t
    BY <2>1, <2>2, <2>3
  <2>7. InOrder(d, M) /\ AtMost(d, M, t) /\ StaysBeyond(c, N, seen, d, M, t)
    BY <2>2, <2>3, <2>4, <2>5, <2>6, AdvanceKeeps
  <2> QED
    BY <2>1, <2>7 DEF StaysBeyond
<1> QED
  BY <1>1, <1>2 DEF HandlerInv, StoryInv

\* The handler is told something else only by a story without the version.
LEMMA ToldForGood ==
    ASSUME HandlerInv, [Next]_vars, seen' >= seen,
           NEW k \in Key, NEW v \in Version, told[k] = v, told'[k] # v
    PROVE  v <= seen' /\ Beyond(Story(k)', StoryEnd(k)', v)
<1>1. PICK c, d, N, M, f, t :
         /\ c = Story(k) /\ d = Story(k)' /\ N = StoryEnd(k)
         /\ M = StoryEnd(k)' /\ f = LastSeen(k)' /\ t = seen'
  OBVIOUS
<1>2. N \in Nat \ {0} /\ seen \in Nat /\ c[0] = v
  BY <1>1, LineTypes, StoryTypes DEF HandlerInv, ToldInv
<1>3. M \in Nat /\ t \in Nat /\ seen <= t /\ d[0] # v /\ End(k)' \in Nat
  <2>1. ToldInv' /\ Window'
    BY StoryNext DEF HandlerInv, ForwardInv
  <2> QED
    BY <1>1, <1>2, <2>1, LastSeenNext, StoryTypesNext DEF ToldInv
<1>4. InOrder(c, N) /\ AtMost(c, N, seen) /\ v \in Nat /\ v # None
  BY <1>1 DEF HandlerInv, StoryInv, Version, None
<1>5. Advances(c, N, d, M, f, seen)
  BY <1>1, <1>3, EachStoryMoves DEF StoryMoves, HandlerInv, ForwardInv
<1>6. v <= seen /\ Beyond(d, M, v)
  BY <1>2, <1>3, <1>4, <1>5, LeavesLine
<1> QED
  BY <1>1, <1>2, <1>3, <1>4, <1>6

\* Under the same condition nor is the handler ever called with a version of an
\* object that it was told of before something newer, although notifications
\* wait in a buffer and listers may be far ahead of it: a handler need not
\* compare versions.
THEOREM HandlerMovesForward ==
    ASSUME NEW k \in Key, NEW v \in Version
    PROVE  Spec /\ [][seen' >= seen]_vars =>
              [](told[k] = v => [](told[k] # v => [](told[k] = None \/ told[k] > v)))
<1> DEFINE Past == v <= seen /\ Beyond(Story(k), StoryEnd(k), v)
           Told == told[k] = v
           Other == told[k] # v
           Newer == told[k] = None \/ told[k] > v
<1>1. HandlerInv /\ [Next]_vars /\ [seen' >= seen]_vars =>
         HandlerInv' /\ (Past => Past') /\ (Told => Told' \/ Past')
  <2>1. SUFFICES ASSUME HandlerInv, [Next]_vars, [seen' >= seen]_vars
                 PROVE  HandlerInv' /\ (Past => Past') /\ (Told => Told' \/ Past')
    OBVIOUS
  <2>2. seen' >= seen
    BY <2>1, LineTypes DEF vars, HandlerInv, ToldInv
  <2>3. v \in Nat
    BY DEF Version
  <2> QED
    BY <2>1, <2>2, <2>3, StoryNext, ToldForGood
<1>2. HandlerInv /\ Past => ~Told /\ Newer
  <2>1. SUFFICES ASSUME HandlerInv, Past
                 PROVE  ~Told /\ Newer
    OBVIOUS
  <2>2. StoryEnd(k) \in Nat \ {0} /\ Story(k)[0] = told[k] /\ told[k] \in Nat
    <3>1. told[k] \in Version \cup {None}
      BY <2>1 DEF HandlerInv, ToldInv, InformerInv, TypeOK, State
    <3>2. told[k] \in Nat
      BY <3>1, InformerAssumption DEF Version, None
    <3> QED
      BY <2>1, <3>2, StoryTypes DEF HandlerInv
  <2>3. v \in Nat /\ v # None
    BY DEF Version, None
  <2> QED
    BY <2>1, <2>2, <2>3 DEF Beyond
<1>3. Other => ~Told
  OBVIOUS
<1>4. Spec /\ [][seen' >= seen]_vars => [](Told => [](Other => []Newer))
  <2> HIDE DEF Past, Told, Other, Newer
  <2> QED
    BY <1>1, <1>2, <1>3, StoryInit, PTL DEF Spec
<1> QED
  BY <1>4
=============================================================================
