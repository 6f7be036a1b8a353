----------------------------- MODULE MCAdsServer -----------------------------
\* The ADS server with a snapshot cache that anything may be published to.
EXTENDS AdsServer, TLC

\* Streams and resource types are interchangeable.
Symmetry == Permutations(Stream) \cup Permutations(Type)

\* The content of version 2, and only that, is one that the Envoy rejects.
SecondIsRejected ==
    \A n \in Node : snapshots[n] # Nil =>
        (snapshots[n].ver = 2 <=> snapshots[n].content \in Rejected)
=============================================================================
