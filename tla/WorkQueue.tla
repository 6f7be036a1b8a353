------------------------------ MODULE WorkQueue ------------------------------
(***************************************************************************)
(* The de-duplicating work queue of client-go (util/workqueue/queue.go)    *)
(* that lite-mesh's controller puts between its informer handlers and its  *)
(* worker goroutines, together with the goroutines that block in Get.      *)
(*                                                                         *)
(* Every method runs under the mutex cond.L, so every method is one        *)
(* action.  The exception is Get: it releases the mutex inside cond.Wait,  *)
(* so falling asleep (GetWait) and taking an item (GetItem) are separate.  *)
(* The rate limiter and the delaying queue around this queue are not here: *)
(* the controller never calls AddAfter or AddRateLimited, so they stay     *)
(* empty (see README).                                                     *)
(***************************************************************************)
EXTENDS Naturals, Sequences, FiniteSets

CONSTANTS
    Key,      \* the items of the queue: namespace/name keys
    Worker,   \* the goroutines that call Get and Done
    NoKey     \* what a worker holds when it holds no item

ASSUME QueueAssumption ==
    /\ NoKey \notin Key
    /\ Worker # {}
    /\ IsFiniteSet(Worker)

VARIABLES
    queue,         \* q.queue: the order in which items are handed out
    dirty,         \* q.dirty: the items that need to be processed
    processing,    \* q.processing: the items handed out and not yet Done
    shuttingDown,  \* q.shuttingDown
    waiting,       \* the workers asleep in cond.Wait inside Get
    held,          \* held[w]: the item worker w got and is not Done with
    exited         \* the workers Get told to end

qvars == <<queue, dirty, processing, shuttingDown, waiting, held, exited>>

-----------------------------------------------------------------------------

QInit ==
    /\ queue = <<>>
    /\ dirty = {}
    /\ processing = {}
    /\ shuttingDown = FALSE
    /\ waiting = {}
    /\ held = [w \in Worker |-> NoKey]
    /\ exited = {}

\* cond.Signal: one of the goroutines asleep in Wait, if any, wakes up.
Signal ==
    \/ waiting = {} /\ UNCHANGED waiting
    \/ \E w \in waiting : waiting' = waiting \ {w}

\* Mutant: the item is appended and nobody is told.
AppendNoSignal(k) == queue' = Append(queue, k) /\ UNCHANGED waiting

\* The tail of Add and of Done: make item k available to the workers.
Append1(k) ==
    /\ queue' = Append(queue, k)
    /\ Signal

\* Mutant: Add does not look at the processing set.
AddIgnoresProcessing(k) ==
    /\ \/ /\ shuttingDown \/ k \in dirty
          /\ UNCHANGED <<queue, dirty, waiting>>
       \/ /\ ~shuttingDown /\ k \notin dirty
          /\ dirty' = dirty \cup {k} /\ Append1(k)
    /\ UNCHANGED <<processing, shuttingDown, held, exited>>

\* Mutant: an item that is being processed counts as already added.
AddDropsProcessing(k) ==
    /\ \/ /\ shuttingDown \/ k \in dirty \cup processing
          /\ UNCHANGED <<queue, dirty, waiting>>
       \/ /\ ~shuttingDown /\ k \notin dirty \cup processing
          /\ dirty' = dirty \cup {k} /\ Append1(k)
    /\ UNCHANGED <<processing, shuttingDown, held, exited>>

Add(k) ==
    /\ \/ /\ shuttingDown \/ k \in dirty
          /\ UNCHANGED <<queue, dirty, waiting>>
       \/ /\ ~shuttingDown
          /\ k \notin dirty
          /\ dirty' = dirty \cup {k}
          /\ \/ k \in processing /\ UNCHANGED <<queue, waiting>>
             \/ k \notin processing /\ Append1(k)
    /\ UNCHANGED <<processing, shuttingDown, held, exited>>

\* A worker that runs and is at the head of the loop in Get.
AtGet(w) == held[w] = NoKey /\ w \notin waiting \cup exited

GetWait(w) ==
    /\ AtGet(w)
    /\ queue = <<>> /\ ~shuttingDown
    /\ waiting' = waiting \cup {w}
    /\ UNCHANGED <<queue, dirty, processing, shuttingDown, held, exited>>

\* Mutant: Get leaves the item it hands out dirty.
GetItemKeepsDirty(w) ==
    /\ AtGet(w) /\ queue # <<>>
    /\ queue' = Tail(queue)
    /\ processing' = processing \cup {Head(queue)}
    /\ held' = [held EXCEPT ![w] = Head(queue)]
    /\ UNCHANGED <<dirty, shuttingDown, waiting, exited>>

GetItem(w) ==
    /\ AtGet(w)
    /\ queue # <<>>
    /\ queue' = Tail(queue)
    /\ processing' = processing \cup {Head(queue)}
    /\ dirty' = dirty \ {Head(queue)}
    /\ held' = [held EXCEPT ![w] = Head(queue)]
    /\ UNCHANGED <<shuttingDown, waiting, exited>>

\* Mutant: Get lacks the early return and inserts the nil item.
GetShutdownInsertsNil(w) ==
    /\ AtGet(w)
    /\ queue = <<>> /\ shuttingDown
    /\ processing' = processing \cup {held[w]}
    /\ exited' = exited \cup {w}
    /\ UNCHANGED <<queue, dirty, shuttingDown, waiting, held>>

\* Mutant: Get asks for shuttingDown before it looks for items.
GetShutdownEarly(w) ==
    /\ AtGet(w) /\ shuttingDown
    /\ exited' = exited \cup {w}
    /\ UNCHANGED <<queue, dirty, processing, shuttingDown, waiting, held>>

GetShutdown(w) ==
    /\ AtGet(w)
    /\ queue = <<>> /\ shuttingDown
    /\ exited' = exited \cup {w}
    /\ UNCHANGED <<queue, dirty, processing, shuttingDown, waiting, held>>

\* Mutant: Done queues the item again whether it is dirty or not.
DoneAlwaysAppends(w) ==
    /\ held[w] # NoKey
    /\ processing' = processing \ {held[w]}
    /\ Append1(held[w])
    /\ held' = [held EXCEPT ![w] = NoKey]
    /\ UNCHANGED <<dirty, shuttingDown, exited>>

\* Mutant: Done never queues the item again.
DoneNeverAppends(w) ==
    /\ held[w] # NoKey
    /\ processing' = processing \ {held[w]}
    /\ held' = [held EXCEPT ![w] = NoKey]
    /\ UNCHANGED <<queue, dirty, shuttingDown, waiting, exited>>

Done(w) ==
    /\ held[w] # NoKey
    /\ processing' = processing \ {held[w]}
    /\ \/ held[w] \in dirty /\ Append1(held[w])
       \/ held[w] \notin dirty /\ UNCHANGED <<queue, waiting>>
    /\ held' = [held EXCEPT ![w] = NoKey]
    /\ UNCHANGED <<dirty, shuttingDown, exited>>

ShutDown ==
    /\ shuttingDown' = TRUE
    /\ waiting' = {}
    /\ UNCHANGED <<queue, dirty, processing, held, exited>>

\* The process ends and a new one builds a new queue and new workers.
NewQueue ==
    /\ queue' = <<>>
    /\ dirty' = {}
    /\ processing' = {}
    /\ shuttingDown' = FALSE
    /\ waiting' = {}
    /\ held' = [w \in Worker |-> NoKey]
    /\ exited' = {}

QNext ==
    \/ \E k \in Key : Add(k)
    \/ \E w \in Worker : GetWait(w) \/ GetItem(w) \/ GetShutdown(w) \/ Done(w)
    \/ ShutDown
    \/ NewQueue

QSpec == QInit /\ [][QNext]_qvars

\* Goroutines that can run do run: a worker that can take an item takes it,
\* and reconcile returns, so that Done is called.
QFairSpec ==
    /\ QSpec
    /\ \A w \in Worker : WF_qvars(GetItem(w)) /\ WF_qvars(Done(w))

-----------------------------------------------------------------------------

QTypeOK ==
    /\ queue \in Seq(Key)
    /\ dirty \in SUBSET Key
    /\ processing \in SUBSET Key
    /\ shuttingDown \in BOOLEAN
    /\ waiting \in SUBSET Worker
    /\ held \in [Worker -> Key \cup {NoKey}]
    /\ exited \in SUBSET Worker

Queued == {queue[i] : i \in DOMAIN queue}

\* The comment on Type.queue (queue.go:48-50): every element of queue is in
\* the dirty set and not in the processing set.  Add and Done also keep the
\* converse, which is what makes an Add effective: a dirty item that nobody
\* processes is in the queue, exactly once.
QueueDiscipline ==
    /\ Queued = dirty \ processing
    /\ \A i, j \in DOMAIN queue : queue[i] = queue[j] => i = j

\* "Stingy" in the package documentation (doc.go): one item is never
\* processed by two workers at once, whatever Adds arrive meanwhile.  The
\* controller relies on it: reconcile takes no lock per Service.
Stingy ==
    \A v, w \in Worker : held[v] # NoKey /\ held[v] = held[w] => v = w

\* No lost wake-up: Add and Done signal one sleeper per item, and a worker
\* that is awake may take the item the signal was for.  While workers sleep,
\* there are at least as many workers awake in Get as items in the queue.
WakeupsCoverQueue ==
    waiting # {} => Len(queue) <= Cardinality({w \in Worker : AtGet(w)})

\* ShutDown promises (queue.go:157-159) that workers end only once the queue
\* is drained, and that all of them do: when every worker has ended nothing is
\* left to process, even an item that was added again while it was being
\* processed, and no worker sleeps through a shutdown, where no Add will ever
\* signal it.
DrainedBeforeExit ==
    /\ exited = Worker => dirty = {} /\ processing = {}
    /\ shuttingDown => waiting = {}

\* An added item does not stay dirty for ever: some worker takes it.
EveryItemIsTaken ==
    \A k \in Key : k \in dirty ~> k \notin dirty

\* The inductive strengthening of the invariants above: the processing set is
\* exactly what the workers hold, a worker that sleeps or ended holds nothing,
\* and workers end only under shutdown, the last one with an empty queue.
ProcessingIsHeld == processing = {held[w] : w \in Worker} \ {NoKey}

IdleHoldsNothing ==
    /\ \A w \in waiting \cup exited : held[w] = NoKey
    /\ waiting \cap exited = {}

ExitOnlyDrained ==
    /\ exited # {} => shuttingDown
    /\ shuttingDown => waiting = {}
    /\ exited = Worker => queue = <<>>

QIInv ==
    /\ QTypeOK
    /\ QueueDiscipline
    /\ Stingy
    /\ ProcessingIsHeld
    /\ IdleHoldsNothing
    /\ ExitOnlyDrained
    /\ WakeupsCoverQueue

-----------------------------------------------------------------------------

\* The abstract promise: a set of pending items and, per worker, the item it
\* is active on (module KeyedWork).
KW == INSTANCE KeyedWork WITH pending <- dirty, active <- held

\* The queue, the processing set, the sleeping and the shutdown implement
\* that abstract dispatcher.
RefinesKeyedWork == KW!Spec
=============================================================================
