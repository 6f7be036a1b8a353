----------------------------- MODULE MCDiscovery -----------------------------
\* One pod, two contents, and rule lists that are small but overlap or
\* not, as the configuration asks.
EXTENDS Discovery

CONSTANTS n1, a, b

For(pods, content) == [match |-> pods, content |-> content]

\* One rule for the pod, perhaps after one that matches no pod.
Disjoint == {<<For({n1}, a)>>, <<For({}, a), For({n1}, b)>>}

\* Two rules that match the same pod.
Overlapping == {<<For({n1}, a), For({n1}, b)>>}

\* Two Configurations that match one pod take turns for ever: a behaviour that
\* has used its nonces up is not followed.
NoncesLeft == \A s \in Stream : streamNonce[s] < MaxNonce
=============================================================================
