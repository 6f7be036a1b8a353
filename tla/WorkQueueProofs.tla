--------------------------- MODULE WorkQueueProofs ---------------------------
(***************************************************************************)
(* Proofs, for every set of keys and every finite set of workers, that the *)
(* work queue keeps its invariants and implements the dispatcher of module *)
(* KeyedWork.  The invariant proved by induction is QIInv: what an Add     *)
(* does depends on the processing set, and that this set agrees with what  *)
(* the workers hold needs Stingy, which in turn needs QueueDiscipline.     *)
(***************************************************************************)
EXTENDS WorkQueue, FiniteSetTheorems, SequenceTheorems, TLAPS

Items(s) == {s[i] : i \in DOMAIN s}
NoRepeat(s) == \A i, j \in DOMAIN s : s[i] = s[j] => i = j

-----------------------------------------------------------------------------
(* Facts on the two sequence operations of the queue.                        *)

\* Appending an item adds it to the items, and repeats none if it is new.
LEMMA AppendItems ==
    ASSUME NEW S, NEW s \in Seq(S), NEW x \in S
    PROVE  /\ Append(s, x) \in Seq(S)
           /\ Append(s, x) # <<>>
           /\ Len(Append(s, x)) = Len(s) + 1
           /\ Items(Append(s, x)) = Items(s) \cup {x}
           /\ NoRepeat(s) /\ x \notin Items(s) => NoRepeat(Append(s, x))
<1>1. /\ Append(s, x) \in Seq(S)
      /\ Len(Append(s, x)) = Len(s) + 1
      /\ DOMAIN s = 1..Len(s)
      /\ DOMAIN Append(s, x) = 1..(Len(s) + 1)
      /\ Append(s, x)[Len(s) + 1] = x
      /\ \A i \in 1..Len(s) : Append(s, x)[i] = s[i]
      /\ Len(s) \in Nat
  BY AppendProperties, LenProperties
<1>2. Items(Append(s, x)) = Items(s) \cup {x}
  <2>1. \A i \in 1..(Len(s) + 1) : i = Len(s) + 1 \/ i \in 1..Len(s)
    BY <1>1
  <2>2. \A i \in 1..Len(s) : i \in 1..(Len(s) + 1)
    BY <1>1
  <2>3. Len(s) + 1 \in 1..(Len(s) + 1)
    BY <1>1
  <2> QED
    BY <1>1, <2>1, <2>2, <2>3, Zenon DEF Items
<1>3. ASSUME NoRepeat(s), x \notin Items(s)
      PROVE  NoRepeat(Append(s, x))
  BY <1>1, <1>3 DEF NoRepeat, Items
<1>4. Append(s, x) # <<>>
  BY <1>1
<1> QED
  BY <1>1, <1>2, <1>3, <1>4

\* In a sequence without repetition the head is not an item of the tail.
LEMMA TailItems ==
    ASSUME NEW S, NEW s \in Seq(S), s # <<>>
    PROVE  /\ Head(s) \in S
           /\ Tail(s) \in Seq(S)
           /\ Len(Tail(s)) = Len(s) - 1
           /\ Head(s) \in Items(s)
           /\ NoRepeat(s) => /\ Items(Tail(s)) = Items(s) \ {Head(s)}
                             /\ NoRepeat(Tail(s))
<1>1. /\ Head(s) \in S
      /\ Tail(s) \in Seq(S)
      /\ Len(Tail(s)) = Len(s) - 1
      /\ \A i \in 1..Len(Tail(s)) : Tail(s)[i] = s[i + 1]
      /\ Len(s) \in Nat \ {0}
      /\ DOMAIN s = 1..Len(s)
      /\ DOMAIN Tail(s) = 1..(Len(s) - 1)
      /\ Head(s) = s[1]
  BY HeadTailProperties, LenProperties, EmptySeq
<1>2. Head(s) \in Items(s)
  BY <1>1 DEF Items
<1>3. ASSUME NoRepeat(s)
      PROVE  Items(Tail(s)) = Items(s) \ {Head(s)} /\ NoRepeat(Tail(s))
  <2>1. Items(Tail(s)) \subseteq Items(s) \ {Head(s)}
    BY <1>1, <1>3 DEF Items, NoRepeat
  <2>2. ASSUME NEW i \in 1..Len(s), s[i] # Head(s)
        PROVE  s[i] \in Items(Tail(s))
    <3>1. i - 1 \in 1..(Len(s) - 1) /\ Tail(s)[i - 1] = s[i]
      BY <1>1, <2>2
    <3> QED
      BY <1>1, <3>1 DEF Items
  <2>3. NoRepeat(Tail(s))
    BY <1>1, <1>3 DEF NoRepeat
  <2> QED
    BY <1>1, <2>1, <2>2, <2>3 DEF Items
<1> QED
  BY <1>1, <1>2, <1>3

-----------------------------------------------------------------------------
(* The conjuncts of QIInv that do not count workers, action by action.       *)

QCore ==
    /\ QTypeOK
    /\ QueueDiscipline
    /\ Stingy
    /\ ProcessingIsHeld
    /\ IdleHoldsNothing
    /\ ExitOnlyDrained

\* An item nobody processes and that is not dirty, or that leaves the
\* processing set dirty, is appended without breaking the discipline.
LEMMA AppendKeepsDiscipline ==
    ASSUME QTypeOK, QueueDiscipline, NEW k \in Key, k \notin Queued,
           queue' = Append(queue, k), dirty' \ processing' = Queued \cup {k}
    PROVE  queue' \in Seq(Key) /\ QueueDiscipline'
<1>1. queue' \in Seq(Key) /\ Items(queue') = Items(queue) \cup {k}
  BY AppendItems DEF QTypeOK
<1>2. NoRepeat(queue')
  BY AppendItems DEF QTypeOK, QueueDiscipline, NoRepeat, Items, Queued
<1> QED
  BY <1>1, <1>2 DEF QueueDiscipline, Queued, Items, NoRepeat

LEMMA AddKeepsCore ==
    ASSUME QCore, NEW k \in Key, Add(k)
    PROVE  QCore'
<1> USE DEF QCore
<1>1. CASE UNCHANGED <<queue, dirty, waiting>>
  BY <1>1, QueueAssumption DEF Add, QTypeOK, QueueDiscipline, Queued, Stingy,
     ProcessingIsHeld, IdleHoldsNothing, ExitOnlyDrained
<1>2. CASE ~shuttingDown /\ k \notin dirty /\ dirty' = dirty \cup {k}
  <2>1. /\ UNCHANGED <<processing, shuttingDown, held, exited>>
        /\ \/ k \in processing /\ UNCHANGED <<queue, waiting>>
           \/ k \notin processing /\ queue' = Append(queue, k)
        /\ waiting' \subseteq waiting
    BY <1>2 DEF Add, Append1, Signal
  <2>2. queue' \in Seq(Key) /\ QueueDiscipline'
    <3>1. CASE k \in processing /\ UNCHANGED <<queue, waiting>>
      BY <1>2, <2>1, <3>1 DEF QTypeOK, QueueDiscipline, Queued
    <3>2. CASE k \notin processing /\ queue' = Append(queue, k)
      BY <1>2, <2>1, <3>2, AppendKeepsDiscipline DEF QueueDiscipline
    <3> QED
      BY <2>1, <3>1, <3>2
  <2>3. QTypeOK'
    BY <1>2, <2>1, <2>2 DEF QTypeOK
  <2>4. Stingy' /\ ProcessingIsHeld' /\ IdleHoldsNothing'
    BY <2>1 DEF Stingy, ProcessingIsHeld, IdleHoldsNothing
  <2>5. ExitOnlyDrained'
    BY <1>2, <2>1, QueueAssumption DEF ExitOnlyDrained
  <2> QED
    BY <2>2, <2>3, <2>4, <2>5
<1> QED
  BY <1>1, <1>2 DEF Add

LEMMA GetItemKeepsCore ==
    ASSUME QCore, NEW w \in Worker, GetItem(w)
    PROVE  QCore'
<1> USE DEF QCore
<1> DEFINE k == Head(queue)
<1>1. /\ k \in Key
      /\ k \in Queued
      /\ queue' \in Seq(Key)
      /\ Items(queue') = Items(queue) \ {k}
      /\ NoRepeat(queue')
  <2>1. queue \in Seq(Key) /\ queue # <<>> /\ queue' = Tail(queue)
    BY DEF QTypeOK, GetItem
  <2>2. NoRepeat(queue) /\ Queued = Items(queue)
    BY DEF QueueDiscipline, Queued, Items, NoRepeat
  <2> QED
    BY <2>1, <2>2, TailItems
<1>2. k \in dirty /\ k \notin processing
  BY <1>1 DEF QueueDiscipline
<1>3. QTypeOK'
  BY <1>1, QueueAssumption DEF QTypeOK, GetItem
<1>4. QueueDiscipline'
  BY <1>1, <1>2 DEF QueueDiscipline, Queued, Items, NoRepeat, GetItem
<1>5. \A v \in Worker : held[v] # k
  BY <1>1, <1>2, QueueAssumption DEF ProcessingIsHeld
<1>6. Stingy'
  BY <1>3, <1>5 DEF Stingy, QTypeOK, GetItem
<1>7. ProcessingIsHeld'
  BY <1>1, QueueAssumption DEF ProcessingIsHeld, QTypeOK, GetItem, AtGet
<1>8. IdleHoldsNothing' /\ ExitOnlyDrained'
  BY DEF IdleHoldsNothing, ExitOnlyDrained, GetItem, AtGet, QTypeOK
<1> QED
  BY <1>3, <1>4, <1>6, <1>7, <1>8

LEMMA DoneKeepsCore ==
    ASSUME QCore, NEW w \in Worker, Done(w)
    PROVE  QCore'
<1> USE DEF QCore
<1> DEFINE k == held[w]
<1>1. k \in Key /\ k \in processing /\ k \notin Queued
  BY DEF Done, QTypeOK, ProcessingIsHeld, QueueDiscipline
<1>2. /\ UNCHANGED <<dirty, shuttingDown, exited>>
      /\ waiting' \subseteq waiting
      /\ processing' = processing \ {k}
      /\ held' = [held EXCEPT ![w] = NoKey]
      /\ \/ k \in dirty /\ queue' = Append(queue, k)
         \/ k \notin dirty /\ queue' = queue
  BY DEF Done, Append1, Signal
<1>3. queue' \in Seq(Key) /\ QueueDiscipline'
  <2>1. CASE k \in dirty /\ queue' = Append(queue, k)
    BY <1>1, <1>2, <2>1, AppendKeepsDiscipline DEF QueueDiscipline
  <2>2. CASE k \notin dirty /\ queue' = queue
    BY <1>1, <1>2, <2>2 DEF QTypeOK, QueueDiscipline, Queued
  <2> QED
    BY <1>2, <2>1, <2>2
<1>4. QTypeOK'
  BY <1>2, <1>3 DEF QTypeOK
<1>5. \A v \in Worker : held'[v] = IF v = w THEN NoKey ELSE held[v]
  BY <1>2 DEF QTypeOK
<1>6. Stingy' /\ IdleHoldsNothing'
  BY <1>2, <1>5 DEF Stingy, IdleHoldsNothing, QTypeOK
<1>7. ProcessingIsHeld'
  BY <1>1, <1>2, <1>5 DEF ProcessingIsHeld, Stingy
<1>8. ExitOnlyDrained'
  <2>1. w \notin exited
    BY <1>1, QueueAssumption DEF IdleHoldsNothing
  <2> QED
    BY <1>2, <2>1 DEF ExitOnlyDrained
<1> QED
  BY <1>3, <1>4, <1>6, <1>7, <1>8

\* An empty queue whose workers hold nothing satisfies everything.
LEMMA InitCore == QInit => QCore
<1> SUFFICES ASSUME QInit
             PROVE  QCore
  OBVIOUS
<1>1. /\ queue = <<>> /\ queue \in Seq(Key) /\ DOMAIN queue = {}
      /\ \A w \in Worker : held[w] = NoKey
  BY EmptySeq DEF QInit
<1>2. QTypeOK
  BY <1>1 DEF QInit, QTypeOK
<1>3. QueueDiscipline
  BY <1>1 DEF QInit, QueueDiscipline, Queued
<1>4. Stingy /\ ProcessingIsHeld
  BY <1>1 DEF QInit, Stingy, ProcessingIsHeld
<1>5. IdleHoldsNothing /\ ExitOnlyDrained
  BY <1>1 DEF QInit, IdleHoldsNothing, ExitOnlyDrained
<1> QED
  BY <1>2, <1>3, <1>4, <1>5 DEF QCore

LEMMA NewQueueCore == NewQueue => QCore'
<1>1. NewQueue => QInit'
  BY DEF NewQueue, QInit
<1> QED
  BY <1>1, InitCore, PTL

\* The remaining actions neither hand out nor return an item.
LEMMA OthersKeepCore ==
    ASSUME QCore,
           \/ \E w \in Worker : GetWait(w) \/ GetShutdown(w)
           \/ ShutDown
           \/ NewQueue
           \/ UNCHANGED qvars
    PROVE  QCore'
<1> USE DEF QCore
<1>1. ASSUME NEW w \in Worker, GetWait(w)
      PROVE  QCore'
  BY <1>1 DEF GetWait, AtGet, QTypeOK, QueueDiscipline, Queued, Stingy,
     ProcessingIsHeld, IdleHoldsNothing, ExitOnlyDrained
<1>2. ASSUME NEW w \in Worker, GetShutdown(w)
      PROVE  QCore'
  BY <1>2 DEF GetShutdown, AtGet, QTypeOK, QueueDiscipline, Queued, Stingy,
     ProcessingIsHeld, IdleHoldsNothing, ExitOnlyDrained
<1>3. CASE ShutDown
  BY <1>3 DEF ShutDown, QTypeOK, QueueDiscipline, Queued, Stingy,
     ProcessingIsHeld, IdleHoldsNothing, ExitOnlyDrained
<1>4. CASE NewQueue
  BY <1>4, NewQueueCore
<1>5. CASE UNCHANGED qvars
  BY <1>5 DEF qvars, QTypeOK, QueueDiscipline, Queued, Stingy,
     ProcessingIsHeld, IdleHoldsNothing, ExitOnlyDrained
<1> QED
  BY <1>1, <1>2, <1>3, <1>4, <1>5

LEMMA NextKeepsCore == QCore /\ [QNext]_qvars => QCore'
  BY AddKeepsCore, GetItemKeepsCore, DoneKeepsCore, OthersKeepCore DEF QNext

-----------------------------------------------------------------------------
(* The wake-ups.  Awake is what WakeupsCoverQueue counts.                    *)

Awake == {w \in Worker : AtGet(w)}

\* Sets of workers are finite, so that they can be counted.
LEMMA WorkersFinite ==
    ASSUME NEW W \in SUBSET Worker
    PROVE  IsFiniteSet(W) /\ Cardinality(W) \in Nat
  BY QueueAssumption, FS_Subset, FS_CardinalityType

\* What a signal does to the awake workers, when nobody else moves.
LEMMA SignalWakes ==
    ASSUME QCore, waiting # {}, Signal, UNCHANGED exited,
           NEW W \in SUBSET Worker, W \cap waiting = {}, W \cap exited = {},
           \A v \in Worker \ W : held'[v] = held[v],
           \A v \in W : held[v] # NoKey /\ held'[v] = NoKey
    PROVE  Cardinality(Awake') >= Cardinality(Awake) + 1
<1>1. PICK w \in waiting : waiting' = waiting \ {w}
  BY DEF Signal
<1>2. w \in Worker /\ held[w] = NoKey /\ w \notin exited /\ w \notin W
  BY <1>1 DEF QCore, QTypeOK, IdleHoldsNothing
<1>3. w \notin Awake /\ Awake' = (Awake \cup {w}) \cup W
  BY <1>1, <1>2 DEF Awake, AtGet
<1>4. /\ IsFiniteSet(Awake \cup {w})
      /\ Cardinality(Awake \cup {w}) = Cardinality(Awake) + 1
  <2>1. IsFiniteSet(Awake)
    BY WorkersFinite DEF Awake
  <2> QED
    BY <1>3, <2>1, FS_AddElement
<1>5. /\ IsFiniteSet(Awake') /\ Awake \cup {w} \in SUBSET Awake'
      /\ Cardinality(Awake) \in Nat /\ Cardinality(Awake') \in Nat
  <2>1. Awake \in SUBSET Worker /\ Awake' \in SUBSET Worker
    BY DEF Awake
  <2> QED
    BY <1>3, <2>1, WorkersFinite
<1> QED
  BY <1>4, <1>5, FS_Subset

LEMMA AddKeepsWakeups ==
    ASSUME QCore, WakeupsCoverQueue, NEW k \in Key, Add(k)
    PROVE  WakeupsCoverQueue'
<1> SUFFICES ASSUME waiting' # {}
             PROVE  Len(queue') <= Cardinality(Awake')
  BY DEF WakeupsCoverQueue, Awake
<1>1. CASE UNCHANGED <<queue, waiting>>
  <2>1. Awake' = Awake /\ waiting # {}
    BY <1>1 DEF Add, Awake, AtGet
  <2> QED
    BY <1>1, <2>1 DEF WakeupsCoverQueue, Awake
<1>2. CASE Append1(k) /\ UNCHANGED <<held, exited>>
  <2>1. Signal /\ queue' = Append(queue, k) /\ waiting # {}
    BY <1>2 DEF Append1, Signal
  <2>2. Cardinality(Awake') >= Cardinality(Awake) + 1
    <3> DEFINE W == {}
    <3>1. W \in SUBSET Worker /\ W \cap waiting = {} /\ W \cap exited = {}
      OBVIOUS
    <3> QED
      BY <1>2, <2>1, <3>1, SignalWakes
  <2>3. Len(queue') = Len(queue) + 1 /\ Len(queue) \in Nat
    BY <2>1, AppendItems, LenProperties DEF QCore, QTypeOK
  <2>4. Cardinality(Awake) \in Nat /\ Cardinality(Awake') \in Nat
    BY WorkersFinite DEF Awake
  <2> QED
    BY <2>1, <2>2, <2>3, <2>4 DEF WakeupsCoverQueue, Awake
<1> QED
  BY <1>1, <1>2 DEF Add

LEMMA GetItemKeepsWakeups ==
    ASSUME QCore, WakeupsCoverQueue, NEW w \in Worker, GetItem(w)
    PROVE  WakeupsCoverQueue'
<1> SUFFICES ASSUME waiting' # {}
             PROVE  Len(queue') <= Cardinality(Awake')
  BY DEF WakeupsCoverQueue, Awake
<1>1. /\ queue \in Seq(Key) /\ queue # <<>> /\ Head(queue) \in Key
      /\ Len(queue') = Len(queue) - 1 /\ Len(queue) \in Nat
  BY TailItems, LenProperties DEF GetItem, QCore, QTypeOK
<1>2. w \in Awake /\ Awake' = Awake \ {w}
  BY <1>1, QueueAssumption DEF GetItem, Awake, AtGet, QCore, QTypeOK
<1>3. IsFiniteSet(Awake) /\ Cardinality(Awake) \in Nat
  BY WorkersFinite DEF Awake
<1>4. Cardinality(Awake') = Cardinality(Awake) - 1
  BY <1>2, <1>3, FS_RemoveElement
<1>5. waiting # {}
  BY DEF GetItem
<1> QED
  BY <1>1, <1>3, <1>4, <1>5 DEF WakeupsCoverQueue, Awake

LEMMA DoneKeepsWakeups ==
    ASSUME QCore, WakeupsCoverQueue, NEW w \in Worker, Done(w)
    PROVE  WakeupsCoverQueue'
<1> SUFFICES ASSUME waiting' # {}
             PROVE  Len(queue') <= Cardinality(Awake')
  BY DEF WakeupsCoverQueue, Awake
<1>1. /\ w \notin waiting /\ w \notin exited /\ held[w] # NoKey
      /\ held[w] \in Key
      /\ UNCHANGED exited
      /\ \A v \in Worker : held'[v] = IF v = w THEN NoKey ELSE held[v]
  BY DEF Done, QCore, QTypeOK, IdleHoldsNothing
<1>2. /\ Awake \in SUBSET Worker /\ Awake' \in SUBSET Worker
      /\ IsFiniteSet(Awake) /\ Cardinality(Awake) \in Nat
      /\ IsFiniteSet(Awake') /\ Cardinality(Awake') \in Nat
  BY WorkersFinite DEF Awake
<1>3. CASE UNCHANGED <<queue, waiting>>
  <2>1. Awake \in SUBSET Awake'
    BY <1>1, <1>3 DEF Awake, AtGet
  <2>2. Cardinality(Awake) <= Cardinality(Awake')
    BY <1>2, <2>1, FS_Subset
  <2>3. Len(queue) \in Nat
    BY LenProperties DEF QCore, QTypeOK
  <2> QED
    BY <1>2, <1>3, <2>2, <2>3 DEF WakeupsCoverQueue, Awake
<1>4. CASE Append1(held[w])
  <2>1. Signal /\ queue' = Append(queue, held[w]) /\ waiting # {}
    BY <1>4 DEF Append1, Signal
  <2>2. Cardinality(Awake') >= Cardinality(Awake) + 1
    <3> DEFINE W == {w}
    <3>1. /\ W \in SUBSET Worker /\ W \cap waiting = {} /\ W \cap exited = {}
          /\ \A v \in Worker \ W : held'[v] = held[v]
          /\ \A v \in W : held[v] # NoKey /\ held'[v] = NoKey
      BY <1>1
    <3> HIDE DEF W
    <3> QED
      BY <1>1, <2>1, <3>1, SignalWakes
  <2>3. Len(queue') = Len(queue) + 1 /\ Len(queue) \in Nat
    BY <1>1, <2>1, AppendItems, LenProperties DEF QCore, QTypeOK
  <2> QED
    BY <1>2, <2>1, <2>2, <2>3 DEF WakeupsCoverQueue, Awake
<1> QED
  BY <1>3, <1>4 DEF Done

LEMMA OthersKeepWakeups ==
    ASSUME QCore, WakeupsCoverQueue,
           \/ \E w \in Worker : GetWait(w) \/ GetShutdown(w)
           \/ ShutDown
           \/ NewQueue
           \/ UNCHANGED qvars
    PROVE  WakeupsCoverQueue'
<1>1. ASSUME NEW w \in Worker, GetWait(w)
      PROVE  WakeupsCoverQueue'
  <2>1. Len(queue') = 0
    BY <1>1, EmptySeq DEF GetWait
  <2>2. Cardinality(Awake') \in Nat
    BY WorkersFinite DEF Awake
  <2> QED
    BY <2>1, <2>2 DEF WakeupsCoverQueue, Awake
<1>2. ASSUME NEW w \in Worker, GetShutdown(w)
      PROVE  waiting' = {}
  BY <1>2 DEF GetShutdown, QCore, ExitOnlyDrained
<1>3. CASE ShutDown \/ NewQueue
  BY <1>3 DEF ShutDown, NewQueue, WakeupsCoverQueue
<1>4. CASE UNCHANGED qvars
  BY <1>4 DEF qvars, WakeupsCoverQueue, AtGet
<1> QED
  BY <1>1, <1>2, <1>3, <1>4 DEF WakeupsCoverQueue

-----------------------------------------------------------------------------
(* The theorems about the specification.                                     *)

LEMMA QIInvInit == QInit => QIInv
  BY InitCore DEF QIInv, QCore, WakeupsCoverQueue, QInit

LEMMA QIInvNext == QIInv /\ [QNext]_qvars => QIInv'
<1> SUFFICES ASSUME QCore, WakeupsCoverQueue, [QNext]_qvars
             PROVE  QCore' /\ WakeupsCoverQueue'
  BY DEF QIInv, QCore
<1>1. QCore'
  BY NextKeepsCore
<1>2. WakeupsCoverQueue'
  BY AddKeepsWakeups, GetItemKeepsWakeups, DoneKeepsWakeups,
     OthersKeepWakeups DEF QNext
<1> QED
  BY <1>1, <1>2

\* The inductive invariant holds of every behaviour of the queue.
THEOREM QueueInvariant == QSpec => []QIInv
  BY QIInvInit, QIInvNext, PTL DEF QSpec

\* The types of the queue's state.
THEOREM QueueTypeCorrect == QSpec => []QTypeOK
<1>1. QIInv => QTypeOK
  BY DEF QIInv
<1> QED
  BY <1>1, QueueInvariant, PTL

\* What queue.go:48-50 says of the queue, the dirty and the processing sets.
THEOREM QueueKeepsDiscipline == QSpec => []QueueDiscipline
<1>1. QIInv => QueueDiscipline
  BY DEF QIInv
<1> QED
  BY <1>1, QueueInvariant, PTL

\* No item is ever processed by two workers at once.
THEOREM QueueIsStingy == QSpec => []Stingy
<1>1. QIInv => Stingy
  BY DEF QIInv
<1> QED
  BY <1>1, QueueInvariant, PTL

\* While workers sleep, enough of them are awake to take what is queued.
THEOREM NoLostWakeup == QSpec => []WakeupsCoverQueue
<1>1. QIInv => WakeupsCoverQueue
  BY DEF QIInv
<1> QED
  BY <1>1, QueueInvariant, PTL

\* Workers end only once everything that was added has been processed, and none
\* sleeps through a shutdown.
THEOREM ShutDownDrains == QSpec => []DrainedBeforeExit
<1>1. QIInv => DrainedBeforeExit
  <2> SUFFICES ASSUME QIInv, exited = Worker
               PROVE  dirty = {} /\ processing = {}
    BY DEF DrainedBeforeExit, QIInv, ExitOnlyDrained
  <2>1. \A w \in Worker : held[w] = NoKey
    BY DEF QIInv, IdleHoldsNothing
  <2>2. processing = {}
    BY <2>1 DEF QIInv, ProcessingIsHeld
  <2>3. Queued = {}
    BY EmptySeq DEF QIInv, ExitOnlyDrained, Queued
  <2> QED
    BY <2>2, <2>3 DEF QIInv, QueueDiscipline
<1> QED
  BY <1>1, QueueInvariant, PTL

\* Every step of the queue is a step of the dispatcher, or changes nothing
\* the dispatcher knows: an item is handed out only if nobody else has it.
LEMMA StepRefines == QIInv /\ [QNext]_qvars => [KW!Next]_(KW!vars)
<1> SUFFICES ASSUME QIInv, [QNext]_qvars
             PROVE  [KW!Next]_(KW!vars)
  OBVIOUS
<1> USE DEF KW!Next, KW!vars
<1>1. ASSUME NEW k \in Key, Add(k)
      PROVE  [KW!Next]_(KW!vars)
  BY <1>1 DEF Add, KW!Mark
<1>2. ASSUME NEW w \in Worker, GetItem(w)
      PROVE  [KW!Next]_(KW!vars)
  <2>1. Head(queue) \in Key /\ Head(queue) \in Queued
    BY <1>2, TailItems DEF GetItem, QIInv, QTypeOK, Queued, Items
  <2>2. /\ Head(queue) \in dirty
        /\ \A v \in Worker : held[v] # Head(queue)
    BY <2>1, QueueAssumption DEF QIInv, QueueDiscipline, ProcessingIsHeld
  <2> QED
    BY <1>2, <2>1, <2>2 DEF GetItem, AtGet, KW!Take
<1>3. ASSUME NEW w \in Worker, Done(w)
      PROVE  [KW!Next]_(KW!vars)
  BY <1>3 DEF Done, KW!Finish
<1>4. ASSUME NEW w \in Worker, GetWait(w) \/ GetShutdown(w)
      PROVE  UNCHANGED KW!vars
  BY <1>4 DEF GetWait, GetShutdown
<1>5. CASE ShutDown \/ UNCHANGED qvars
  BY <1>5 DEF ShutDown, qvars
<1>6. CASE NewQueue
  BY <1>6 DEF NewQueue, KW!Reset
<1> QED
  BY <1>1, <1>2, <1>3, <1>4, <1>5, <1>6 DEF QNext

\* The queue implements the abstract dispatcher of module KeyedWork.
THEOREM QueueImplementsKeyedWork == QSpec => RefinesKeyedWork
<1>1. QInit => KW!Init
  BY DEF QInit, KW!Init
<1> QED
  BY <1>1, StepRefines, QueueInvariant, PTL
  DEF QSpec, RefinesKeyedWork, KW!Spec
=============================================================================
