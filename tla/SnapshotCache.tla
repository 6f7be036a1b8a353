---------------------------- MODULE SnapshotCache ----------------------------
(***************************************************************************)
(* go-control-plane's snapshot cache (pkg/cache/simple.go) as the          *)
(* discovery server uses it: one snapshot per node, and the open watches   *)
(* of the streams that wait for a newer one.  Every operation runs under   *)
(* the cache's mutex, so each is one step.                                 *)
(*                                                                         *)
(* A snapshot is its version and its content; a response is the snapshot   *)
(* it was cut from.  Envoy asks for all clusters and all listeners, never  *)
(* by name, so the name filter of respond and createResponse lets          *)
(* everything through.                                                     *)
(***************************************************************************)
EXTENDS Naturals

CONSTANTS
    Node,      \* node ids, as server.ID extracts them
    Type,      \* resource types that Envoys subscribe to
    WatchId,   \* bound: channels alive at once
    Version,   \* versions of snapshots
    Content,   \* what a snapshot says
    Nil        \* no snapshot, no channel, an empty channel, no stream

Snapshot == [ver : Version, content : Content]

\* The version of a request that has none.
NoVersion == 0

ASSUME CacheAssumption ==
    /\ Version \subseteq Nat \ {NoVersion}
    /\ Nil \notin WatchId \cup Node \cup Content
    /\ Nil \notin Snapshot

VARIABLES
    snapshots,   \* snapshots[n]: the snapshot of node n, or Nil
    watches,     \* the open watches of all nodes
    chan         \* chan[id]: the response in the channel of capacity one

cvars == <<snapshots, watches, chan>>

Watch == [id : WatchId, node : Node, type : Type, ver : Version \cup {NoVersion}]

\* Nothing to tell a request for node n that has version v.
UpToDate(n, v) == snapshots[n] # Nil => snapshots[n].ver = v

-----------------------------------------------------------------------------

CInit ==
    /\ snapshots = [n \in Node |-> Nil]
    /\ watches = {}
    /\ chan = [id \in WatchId |-> Nil]

\* Mutant: a snapshot answers every watch of its node.
TriggeredAll(n, v) == {w \in watches : w.node = n}

\* The open watches that a snapshot of version v for node n answers.
Triggered(n, v) == {w \in watches : w.node = n /\ w.ver # v}

\* Mutant: an answered watch is not discarded.
SetSnapshotKeepsWatch(n, snap) ==
    /\ snapshots' = [snapshots EXCEPT ![n] = snap]
    /\ \A w \in Triggered(n, snap.ver) : chan[w.id] = Nil
    /\ chan' = [id \in WatchId |->
          IF \E w \in Triggered(n, snap.ver) : w.id = id THEN snap ELSE chan[id]]
    /\ UNCHANGED watches

\* Mutant: the watches are left for the next request.
SetSnapshotSilently(n, snap) ==
    /\ snapshots' = [snapshots EXCEPT ![n] = snap]
    /\ UNCHANGED <<watches, chan>>

\* The send into a channel that is not empty would block with the mutex held.
SetSnapshot(n, snap) ==
    /\ snapshots' = [snapshots EXCEPT ![n] = snap]
    /\ \A w \in Triggered(n, snap.ver) : chan[w.id] = Nil
    /\ chan' = [id \in WatchId |->
          IF \E w \in Triggered(n, snap.ver) : w.id = id THEN snap ELSE chan[id]]
    /\ watches' = watches \ Triggered(n, snap.ver)

\* Mutant: only a request without a version is answered at once.
CreateWatchKeepsOpen(left, id, n, t, v) ==
    \/ /\ snapshots[n] = Nil \/ v # NoVersion
       /\ watches' = left \cup {[id |-> id, node |-> n, type |-> t, ver |-> v]}
       /\ chan' = [chan EXCEPT ![id] = Nil]
    \/ /\ snapshots[n] # Nil /\ v = NoVersion
       /\ watches' = left
       /\ chan' = [chan EXCEPT ![id] = snapshots[n]]

\* A watch with a new, empty channel, among those left by the cancel before
\* it: kept open, or answered at once.
CreateWatch(left, id, n, t, v) ==
    \/ /\ UpToDate(n, v)
       /\ watches' = left \cup {[id |-> id, node |-> n, type |-> t, ver |-> v]}
       /\ chan' = [chan EXCEPT ![id] = Nil]
    \/ /\ ~UpToDate(n, v)
       /\ watches' = left
       /\ chan' = [chan EXCEPT ![id] = snapshots[n]]

\* What the cancel functions of these channels leave.
Cancel(ids) == {w \in watches : w.id \notin ids}

-----------------------------------------------------------------------------

CTypeOK ==
    /\ snapshots \in [Node -> Snapshot \cup {Nil}]
    /\ watches \in SUBSET Watch
    /\ chan \in [WatchId -> Snapshot \cup {Nil}]

\* "The value channel should have capacity not to block" (simple.go:229): the
\* channel of an open watch is empty, so that SetSnapshot never waits for a
\* stream while it holds the mutex that all streams need.
ChannelHasRoom == \A w \in watches : chan[w.id] = Nil

\* "Consistently replies with the latest snapshot" (simple.go:29): a request
\* is kept waiting only if it has the version of the node's snapshot.
WaitingIsUpToDate == \A w \in watches : UpToDate(w.node, w.ver)
=============================================================================
