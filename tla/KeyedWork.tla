------------------------------ MODULE KeyedWork ------------------------------
(***************************************************************************)
(* What the controller needs of its work queue, with no queue in it: a set *)
(* of keys that still need a reconciliation and, for each worker, the key  *)
(* it is reconciling.  A key may be marked at any time.  A worker that has *)
(* none takes any pending key that no other worker is active on.           *)
(***************************************************************************)
CONSTANTS Key, Worker, NoKey

VARIABLES
    pending,   \* the keys marked and not taken since
    active     \* active[w]: the key worker w reconciles, or NoKey

vars == <<pending, active>>

Init ==
    /\ pending = {}
    /\ active = [w \in Worker |-> NoKey]

Mark(k) ==
    /\ pending' = pending \cup {k}
    /\ UNCHANGED active

Take(w, k) ==
    /\ active[w] = NoKey
    /\ k \in pending
    /\ \A v \in Worker : active[v] # k
    /\ active' = [active EXCEPT ![w] = k]
    /\ pending' = pending \ {k}

Finish(w) ==
    /\ active[w] # NoKey
    /\ active' = [active EXCEPT ![w] = NoKey]
    /\ UNCHANGED pending

\* The process dies: pending marks are lost with it.
Reset ==
    /\ pending' = {}
    /\ active' = [w \in Worker |-> NoKey]

Next ==
    \/ \E k \in Key : Mark(k)
    \/ \E w \in Worker, k \in Key : Take(w, k)
    \/ \E w \in Worker : Finish(w)
    \/ Reset

Spec == Init /\ [][Next]_vars
=============================================================================
