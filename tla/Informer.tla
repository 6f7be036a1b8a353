------------------------------- MODULE Informer -------------------------------
(***************************************************************************)
(* A shared informer of client-go as both processes use it: the reflector  *)
(* lists and watches one kind of object and writes what it sees into a     *)
(* DeltaFIFO; the informer's loop pops an object's deltas, stores each in  *)
(* the indexer that the listers read, and notifies the one handler, which  *)
(* takes its notifications from an unbounded buffer in a goroutine of its  *)
(* own.  Every method of the DeltaFIFO holds its lock, and Pop keeps it    *)
(* while the deltas are processed.                                         *)
(*                                                                         *)
(* An object is the resource version at which it was last written.  The    *)
(* API server is a log of its states, one change after the other.          *)
(***************************************************************************)
EXTENDS Integers, Sequences, FiniteSets

CONSTANTS
    Key,         \* namespace/name of the objects of the kind
    NoKey,       \* no object
    MaxVersion,  \* bound: states of the API server
    MaxBreaks,   \* bound: watches that end in an error
    MaxNotes     \* bound: the notifications that wait when a resync comes

ASSUME InformerAssumption ==
    /\ IsFiniteSet(Key) /\ NoKey \notin Key
    /\ MaxVersion \in Nat \ {0} /\ {MaxBreaks, MaxNotes} \subseteq Nat

VARIABLES
    log,         \* the states of the API server, the last one is now
    seen,        \* the reflector's resource version: the state it has reached
    phase,       \* whether ListAndWatch is about to list or is watching
    items,       \* items[k]: the deltas of k that are queued
    queue,       \* the keys in the order in which Pop takes them
    populated, initialPopulationCount,
    busy,        \* the key whose deltas are processed, or NoKey
    left,        \* its deltas still to process, the current one first
    unsent,      \* the notification of a delta stored and not yet distributed
    indexer,     \* indexer[k]: the version the listers see
    notes,       \* the listener's pendingNotifications
    breaks,
    told,        \* history: the last version the handler was called with
    unlisted,    \* history: objects of the first list not yet processed
    overlooked   \* history: the objects the last Replace got wrong

fifo == <<items, queue, populated, initialPopulationCount>>
process == <<busy, left, unsent, indexer>>
vars == <<log, seen, phase, fifo, process, notes, breaks, told, unlisted,
          overlooked>>

None == 0   \* there is no such object
Version == 1..MaxVersion
State == [Key -> Version \cup {None}]
DeltaType == {"Added", "Updated", "Deleted", "Sync"}
Delta == [type : DeltaType, ver : Version \cup {None}]
Note == [key : Key, type : {"add", "update", "delete"},
         ver : Version \cup {None}]

Api == log[Len(log)]
NewestVersion(ds) == ds[Len(ds)].ver

-----------------------------------------------------------------------------
(* DeltaFIFO: what its methods do to one object's deltas.                    *)

\* The last delta queued is a deletion.
WillObjectBeDeleted(ds) == ds # <<>> /\ ds[Len(ds)].type = "Deleted"

\* queueActionLocked with dedupDeltas: after a deletion, a Sync is ignored and
\* another deletion is merged with it.
QueueAction(ds, type, ver) ==
    IF WillObjectBeDeleted(ds) /\ type \in {"Sync", "Deleted"} THEN ds
    ELSE Append(ds, [type |-> type, ver |-> ver])

\* The keys with deltas in its, but none in items, in the order it finds them.
Orderings(S) ==
    {q \in [1..Cardinality(S) -> S] : \A i, j \in DOMAIN q : i # j => q[i] # q[j]}
Fresh(its, S) == {k \in S : items[k] = <<>> /\ its[k] # <<>>}

\* Mutant: a key is queued again although it is in the queue.
EnqueueAlways(its, S) ==
    /\ items' = its
    /\ \E q \in Orderings({k \in S : its[k] # items[k]}) : queue' = queue \o q

\* The deltas become its; keys of S that had none go to the end of the queue.
Enqueue(its, S) ==
    /\ items' = its
    /\ \E q \in Orderings(Fresh(its, S)) : queue' = queue \o q

Unlocked == busy = NoKey

-----------------------------------------------------------------------------
(* The API server: some object is written or deleted.                        *)

Change(k) ==
    /\ Len(log) < MaxVersion
    /\ \/ log' = Append(log, [Api EXCEPT ![k] = Len(log) + 1])
       \/ Api[k] # None /\ log' = Append(log, [Api EXCEPT ![k] = None])
    /\ UNCHANGED <<seen, phase, fifo, process, notes, breaks, told, unlisted,
                   overlooked>>

-----------------------------------------------------------------------------
(* The reflector: list, then watch from the version listed.                  *)

\* Replace: a Sync for what is listed, a deletion for what is known to the
\* indexer and is not listed.
ReplaceDeltas(state) ==
    [k \in Key |->
        IF state[k] # None THEN QueueAction(items[k], "Sync", state[k])
        ELSE IF indexer[k] # None THEN QueueAction(items[k], "Deleted", None)
        ELSE items[k]]

\* Where that is not enough.  Only the indexer is asked for what is gone, so
\* an object whose first delta is still queued is overlooked; and the Sync of
\* one that is there again is ignored if its deletion is still queued.
Overlooked(state) ==
    {k \in Key :
        IF state[k] # None THEN WillObjectBeDeleted(items[k])
        ELSE /\ indexer[k] = None /\ items[k] # <<>>
             /\ ~WillObjectBeDeleted(items[k])}

Listed(state) == {k \in Key : state[k] # None}

\* Mutant: the size of the first list is not remembered.
PopulateNothing(state) ==
    /\ populated' = TRUE
    /\ UNCHANGED initialPopulationCount
    /\ unlisted' = IF populated THEN unlisted ELSE Listed(state)

\* The first Replace remembers how many Pops it takes to have synced.
Populate(state) ==
    /\ populated' = TRUE
    /\ initialPopulationCount' =
          IF populated THEN initialPopulationCount
          ELSE Cardinality(Listed(state))
               + Cardinality({k \in Key : state[k] = None /\ indexer[k] # None})
    /\ unlisted' = IF populated THEN unlisted ELSE Listed(state)

\* Mutant: the reflector lists once and never again.
ListOnce(i) ==
    /\ phase = "list" /\ Unlocked /\ seen = 0
    /\ Enqueue(ReplaceDeltas(log[i]), Key)
    /\ Populate(log[i])
    /\ overlooked' = Overlooked(log[i])
    /\ seen' = i /\ phase' = "watch"
    /\ UNCHANGED <<log, process, notes, breaks, told>>

\* A list at version "0" may be served from a cache and show any state, even
\* one older than what the reflector has seen.
List(i) ==
    /\ phase = "list" /\ Unlocked
    /\ Enqueue(ReplaceDeltas(log[i]), Key)
    /\ Populate(log[i])
    /\ overlooked' = Overlooked(log[i])
    /\ seen' = i /\ phase' = "watch"
    /\ UNCHANGED <<log, process, notes, breaks, told>>

EventType(before, now) ==
    IF now = None THEN "Deleted" ELSE IF before = None THEN "Added" ELSE "Updated"

\* Delete ignores an object that is neither known nor queued.
Ignored(k, type) == type = "Deleted" /\ indexer[k] = None /\ items[k] = <<>>

\* The next change after the version seen arrives: Add, Update or Delete.
WatchEvent(k) ==
    /\ phase = "watch" /\ Unlocked
    /\ seen < Len(log) /\ log[seen + 1][k] # log[seen][k]
    /\ LET now == log[seen + 1][k]
           type == EventType(log[seen][k], now)
       IN  Enqueue(IF Ignored(k, type) THEN items
                   ELSE [items EXCEPT ![k] = QueueAction(@, type, now)], {k})
    /\ populated' = TRUE
    /\ overlooked' = overlooked \ {k}
    /\ seen' = seen + 1
    /\ UNCHANGED <<log, phase, initialPopulationCount, process, notes, breaks,
                   told, unlisted>>

\* The watch ends in an error and ListAndWatch returns, to be called again.  A
\* watch that is closed in good order goes on from the version seen.
WatchBreaks ==
    /\ phase = "watch"
    /\ breaks < MaxBreaks
    /\ breaks' = breaks + 1
    /\ phase' = "list"
    /\ UNCHANGED <<log, seen, fifo, process, notes, told, unlisted, overlooked>>

\* Mutant: syncKeyLocked does not look for deltas that are queued.
ResyncDeltasOverQueued ==
    [k \in Key |-> IF indexer[k] = None THEN items[k]
                   ELSE QueueAction(items[k], "Sync", indexer[k])]

\* Resync: a Sync for every known object that has nothing queued.
ResyncDeltas ==
    [k \in Key |-> IF indexer[k] = None \/ items[k] # <<>> THEN items[k]
                   ELSE QueueAction(items[k], "Sync", indexer[k])]

\* The goroutine with the timer starts once ListAndWatch has listed.  It may
\* fire once more after ListAndWatch has returned, before the next list.
Resync ==
    /\ seen > 0 /\ Unlocked
    /\ Len(notes) < MaxNotes
    /\ Enqueue(ResyncDeltas, Key)
    /\ UNCHANGED <<log, seen, phase, populated, initialPopulationCount, process,
                   notes, breaks, told, unlisted, overlooked>>

Reflector ==
    \/ \E i \in DOMAIN log : List(i)
    \/ \E k \in Key : WatchEvent(k)
    \/ WatchBreaks \/ Resync

-----------------------------------------------------------------------------
(* processLoop: Pop with HandleDeltas, under the lock of the DeltaFIFO.      *)

\* Mutant: every Pop counts, those after the first list as well.
PopCountsDown ==
    /\ Unlocked /\ queue # <<>>
    /\ LET k == Head(queue)
       IN  /\ items' = [items EXCEPT ![k] = <<>>]
           /\ left' = items[k]
           /\ busy' = IF items[k] = <<>> THEN NoKey ELSE k
    /\ queue' = Tail(queue)
    /\ initialPopulationCount' = initialPopulationCount - 1
    /\ UNCHANGED <<log, seen, phase, populated, unsent, indexer, notes, breaks,
                   told, unlisted, overlooked>>

\* Pop takes the first key and all its deltas, and counts down to HasSynced.
Pop ==
    /\ Unlocked /\ queue # <<>>
    /\ LET k == Head(queue)
       IN  /\ items' = [items EXCEPT ![k] = <<>>]
           /\ left' = items[k]
           /\ busy' = IF items[k] = <<>> THEN NoKey ELSE k
    /\ queue' = Tail(queue)
    /\ initialPopulationCount' = IF initialPopulationCount > 0
                                 THEN initialPopulationCount - 1 ELSE 0
    /\ UNCHANGED <<log, seen, phase, populated, unsent, indexer, notes, breaks,
                   told, unlisted, overlooked>>

NoteType(before, ver) ==
    IF ver = None THEN "delete" ELSE IF before # None THEN "update" ELSE "add"

NoteOf(d) == [key |-> busy, type |-> NoteType(indexer[busy], d.ver), ver |-> d.ver]

\* One delta is stored in the indexer ...
Store ==
    /\ busy # NoKey /\ unsent = <<>>
    /\ indexer' = [indexer EXCEPT ![busy] = Head(left).ver]
    /\ unsent' = <<NoteOf(Head(left))>>
    /\ UNCHANGED <<log, seen, phase, fifo, busy, left, notes, breaks, told,
                   unlisted, overlooked>>

\* Mutant: a listener that is not about to resync gets nothing from a Sync.
DistributeChanges ==
    /\ unsent # <<>>
    /\ notes' = IF Head(left).type = "Sync" THEN notes ELSE notes \o unsent
    /\ unsent' = <<>>
    /\ left' = Tail(left)
    /\ busy' = IF Len(left) = 1 THEN NoKey ELSE busy
    /\ unlisted' = IF Len(left) = 1 THEN unlisted \ {busy} ELSE unlisted
    /\ UNCHANGED <<log, seen, phase, fifo, indexer, breaks, told, overlooked>>

\* ... and the listener gets its notification.  After the last delta Pop
\* returns and releases the lock.
Distribute ==
    /\ unsent # <<>>
    /\ notes' = notes \o unsent
    /\ unsent' = <<>>
    /\ left' = Tail(left)
    /\ busy' = IF Len(left) = 1 THEN NoKey ELSE busy
    /\ unlisted' = IF Len(left) = 1 THEN unlisted \ {busy} ELSE unlisted
    /\ UNCHANGED <<log, seen, phase, fifo, indexer, breaks, told, overlooked>>

\* The listener's goroutine calls the handler.
Deliver ==
    /\ notes # <<>>
    /\ told' = [told EXCEPT ![Head(notes).key] = Head(notes).ver]
    /\ notes' = Tail(notes)
    /\ UNCHANGED <<log, seen, phase, fifo, process, breaks, unlisted, overlooked>>

Processor == Pop \/ Store \/ Distribute \/ Deliver

\* What WaitForCacheSync waits for; it takes the lock.
HasSynced == Unlocked /\ populated /\ initialPopulationCount = 0

Init ==
    /\ \E S \in SUBSET Key : log = <<[k \in Key |-> IF k \in S THEN 1 ELSE None]>>
    /\ seen = 0 /\ phase = "list"
    /\ items = [k \in Key |-> <<>>] /\ queue = <<>>
    /\ populated = FALSE /\ initialPopulationCount = 0
    /\ busy = NoKey /\ left = <<>> /\ unsent = <<>>
    /\ indexer = [k \in Key |-> None]
    /\ notes = <<>> /\ breaks = 0
    /\ told = [k \in Key |-> None]
    /\ unlisted = {} /\ overlooked = {}

Next == (\E k \in Key : Change(k)) \/ Reflector \/ Processor

Spec == Init /\ [][Next]_vars

\* The reflector lists again until it succeeds and reads its watch, and the
\* goroutines of the informer and of its listener run.  Whoever waits for the
\* lock of the DeltaFIFO gets it in the end, although resyncs take it again and
\* again: Go's mutexes hand over to a goroutine that has waited long.
FairSpec ==
    /\ Spec
    /\ SF_vars(\E i \in DOMAIN log : List(i))
    /\ SF_vars(\E k \in Key : WatchEvent(k))
    /\ SF_vars(Pop) /\ WF_vars(Store) /\ WF_vars(Distribute) /\ WF_vars(Deliver)

-----------------------------------------------------------------------------
(* Properties.                                                               *)

TypeOK ==
    /\ log \in Seq(State) /\ Len(log) \in 1..MaxVersion
    /\ seen \in 0..Len(log) /\ phase \in {"list", "watch"}
    /\ items \in [Key -> Seq(Delta)] /\ queue \in Seq(Key)
    /\ populated \in BOOLEAN /\ initialPopulationCount \in Nat
    /\ busy \in Key \cup {NoKey}
    /\ left \in Seq(Delta) /\ unsent \in Seq(Note)
    /\ indexer \in State /\ told \in State
    /\ notes \in Seq(Note) /\ breaks \in 0..MaxBreaks
    /\ unlisted \in SUBSET Key /\ overlooked \in SUBSET Key

\* The version the indexer will have of k once what is queued is processed.
Final(k) ==
    IF items[k] # <<>> THEN NewestVersion(items[k])
    ELSE IF busy = k THEN NewestVersion(left)
    ELSE indexer[k]

\* Nothing that the reflector saw is lost on its way to the listers, be it
\* listed, watched, found gone by a relist or overtaken by a resync: apart
\* from the two cases of Overlooked, each object ends as it was last seen.
SeenIsKept ==
    seen > 0 => \A k \in Key \ overlooked : Final(k) = log[seen][k]

\* "Items in the set are in the queue and vice versa" (delta_fifo.go:130), and
\* none twice: no object waits for ever, and no Pop finds nothing.
QueueIsItems ==
    /\ {queue[i] : i \in DOMAIN queue} = {k \in Key : items[k] # <<>>}
    /\ \A i, j \in DOMAIN queue : queue[i] = queue[j] => i = j

\* The handler's view of k when it has taken the first n notifications of s.
View(s, n, k) ==
    LET of == {i \in 1..n : s[i].key = k}
    IN  IF of = {} THEN told[k]
        ELSE s[CHOOSE i \in of : \A j \in of : j <= i].ver

\* "The cache will be at least as fresh as the notification" (shared_informer.go:36),
\* and the handler misses nothing: what it was told and will be told ends at
\* what the listers show.  An object is added when it was not there, updated
\* or deleted only when it was.
ToldAsStored ==
    LET s == notes \o unsent
    IN  /\ \A k \in Key : View(s, Len(s), k) = indexer[k]
        /\ \A i \in DOMAIN s :
              LET before == View(s, i - 1, s[i].key)
              IN  /\ s[i].type = NoteType(before, s[i].ver)
                  /\ before # None \/ s[i].ver # None

\* Once HasSynced, every object of the first list has been through the indexer
\* and its notification is on the way: workers that wait for it start on a
\* copy that is complete.  And never are more Pops counted than there are keys
\* to pop, so that it comes even if nothing changes any more.
SyncedWithFirstList ==
    /\ HasSynced => unlisted = {}
    /\ initialPopulationCount <= Len(queue)

\* The copy and the handler's view become right and stay so once the API server
\* is left alone, through broken watches and stale lists, but for objects that
\* the last relist overlooked.
CatchesUp ==
    <>[](\A k \in Key \ overlooked : indexer[k] = Api[k] /\ told[k] = Api[k])
=============================================================================
