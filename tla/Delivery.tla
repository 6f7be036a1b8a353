------------------------------- MODULE Delivery -------------------------------
(***************************************************************************)
(* What the discovery service needs of its ADS server, with no streams,    *)
(* watches, channels or nonces in it: for each Envoy and resource type,    *)
(* a mailbox for one snapshot.  An Envoy asks for the next snapshot; it    *)
(* gets the latest of its node, at once or when there is one with another  *)
(* version than it has, and takes it out before it asks again.             *)
(***************************************************************************)
CONSTANTS Node, Type, Snapshot, Rejected, NoVersion, Nil

VARIABLES
    latest,    \* latest[n]: the snapshot published last for node n, or Nil
    mail,      \* mail[n][t]: the snapshot under way, in a set, or none
    waiting,   \* waiting[n]: the types for which Envoy n waits for a change
    have       \* have[n][t]: version and content Envoy n accepted last

vars == <<latest, mail, waiting, have>>

Nothing == [ver |-> NoVersion, content |-> Nil]

Init ==
    /\ latest = [n \in Node |-> Nil]
    /\ mail = [n \in Node |-> [t \in Type |-> {}]]
    /\ waiting = [n \in Node |-> {}]
    /\ have = [n \in Node |-> [t \in Type |-> Nothing]]

\* Envoy n can learn something from snapshot snap.
IsNews(n, t, snap) == snap # Nil /\ snap.ver # have[n][t].ver

Ask(n, t) ==
    /\ mail[n][t] = {} /\ t \notin waiting[n]
    /\ \/ /\ IsNews(n, t, latest[n])
          /\ mail' = [mail EXCEPT ![n][t] = {latest[n]}]
          /\ UNCHANGED waiting
       \/ /\ ~IsNews(n, t, latest[n])
          /\ waiting' = [waiting EXCEPT ![n] = @ \cup {t}]
          /\ UNCHANGED mail
    /\ UNCHANGED <<latest, have>>

Publish(n, snap) ==
    LET told == {t \in waiting[n] : IsNews(n, t, snap)}
    IN  /\ latest' = [latest EXCEPT ![n] = snap]
        /\ mail' = [mail EXCEPT ![n] =
              [t \in Type |-> IF t \in told THEN {snap} ELSE mail[n][t]]]
        /\ waiting' = [waiting EXCEPT ![n] = @ \ told]
        /\ UNCHANGED have

\* The Envoy takes what is in the mailbox, and keeps it unless it rejects it.
Take(n, t) ==
    \E snap \in mail[n][t] :
       /\ mail' = [mail EXCEPT ![n][t] = {}]
       /\ have' = IF snap.content \in Rejected
                  THEN have ELSE [have EXCEPT ![n][t] = snap]
       /\ UNCHANGED <<latest, waiting>>

\* The Envoy loses its mailboxes, and with a restart what it had.
Leave(n) ==
    /\ mail' = [mail EXCEPT ![n] = [t \in Type |-> {}]]
    /\ waiting' = [waiting EXCEPT ![n] = {}]
    /\ \/ UNCHANGED have
       \/ have' = [have EXCEPT ![n] = [t \in Type |-> Nothing]]
    /\ UNCHANGED latest

\* The server starts again with no snapshots.
Reset ==
    /\ latest' = [n \in Node |-> Nil]
    /\ mail' = [n \in Node |-> [t \in Type |-> {}]]
    /\ waiting' = [n \in Node |-> {}]
    /\ UNCHANGED have

Next ==
    \/ \E n \in Node : \/ \E t \in Type : Ask(n, t) \/ Take(n, t)
                       \/ \E snap \in Snapshot : Publish(n, snap)
                       \/ Leave(n)
    \/ Reset

Spec == Init /\ [][Next]_vars

-----------------------------------------------------------------------------

\* No Envoy is sent a version that it has already.
OnlyNews == \A n \in Node, t \in Type : \A snap \in mail[n][t] : IsNews(n, t, snap)
=============================================================================
