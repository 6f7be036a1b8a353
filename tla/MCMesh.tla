------------------------------- MODULE MCMesh -------------------------------
\* Services that the mesh runs, relabels or cannot run, and some hundred rules.
EXTENDS Mesh

Addresses == [p \in Pod |-> <<p[1], 0 - p[2]>>]
Pods == Key \X (1..MaxPods)

NoLabels == [l \in {} |-> ""]
Plain(name, labelMap) ==
    [ns |-> "n", name |-> name, labels |-> labelMap, gateway |-> NoGateway,
     container |-> "", ports |-> <<80>>,
     envoy |-> [logLevel |-> "", discoveryAddress |-> "", discoveryPort |-> ""]]

Tier == [tier |-> "t"]
SomeServices ==
    {Plain("s1", NoLabels), Plain("s1", Tier),
     Plain("s2", Tier), Plain("s2", [app |-> "s1"]),
     [Plain("s1", NoLabels) EXCEPT !.ns = "m"],
     [Plain("s1", NoLabels) EXCEPT !.gateway = Gateway(<<443>>)],
     [Plain("s1", NoLabels) EXCEPT !.container = "envoy-proxy"],
     [Plain("s1", NoLabels) EXCEPT !.ports = <<80, 80>>],
     [Plain("s2", NoLabels) EXCEPT !.envoy.discoveryAddress = "discovery.mesh"]}

Http(domains, name) == [domains |-> domains, cluster |-> name]
Tcp(port, name) == [port |-> port, http |-> <<>>, tcp |-> name]
To(name, host) == [name |-> name, host |-> host]
For(match, filters, clusters) ==
    [match |-> match, filters |-> filters, clusters |-> clusters]

\* A rule for one Service, and a match that is no label.
ForS1 == For([app |-> "s1"], <<Tcp(80, "a")>>, <<To("a", "w")>>)
ForS2 == For([app |-> "s2"], <<Tcp(81, "b")>>, <<To("b", "y")>>)
ForTier == For(Tier, <<[port |-> 80, http |-> <<Http({"*"}, "b")>>, tcp |-> ""]>>,
               <<To("b", "x")>>)
ForNobody == For([app |-> BadValue], <<>>, <<To("a", "y")>>)
\* A rule whose listener is refused: it goes to a cluster that is not there.
ForS1Refused ==
    For([app |-> "s1"], <<[port |-> 80, http |-> <<Http({"*"}, "b")>>, tcp |-> ""]>>,
        <<To("a", "y")>>)
FewRules ==
    {<<ForS1, ForS2>>, <<ForS1, ForTier>>, <<ForNobody, ForS2>>, <<ForS1Refused>>}

Entries == {Http(d, c) : d \in {{"*"}, {"d"}, {"d", "*"}}, c \in {"a", "b"}}
Https == {<<>>} \cup {<<e>> : e \in Entries}
Filter(p, https, tcp) ==
    {[port |-> p, http |-> h, tcp |-> t] : h \in https, t \in tcp}
Filters ==
    {<<f>> : f \in Filter(80, Https \cup (Entries \X Entries), {"", "a"})}
    \cup UNION {Filter(80, Https, {"a"}) \X Filter(p, Https, {"b"}) : p \in {80, 81}}
Clusters ==
    {<<>>, <<To("a", "x")>>, <<To("a", "x"), To("b", "y")>>,
     <<To("a", "x"), To("b", "y"), To("a", "z")>>,
     <<To("b", "y"), To("BlackHoleCluster", "x")>>}
ManyRules == {<<For([app |-> "s1"], f, c)>> : f \in Filters, c \in Clusters}
StoredRules == ManyRules \cup FewRules

\* With a rule that was there at the start, the first Service is plain and alone
\* until the rule changes.  One of the many rules stays once it is in a snapshot.
StoredRulesOnce ==
    /\ (configures = 0 /\ \E c \in Conf : confs[c] # None) =>
          /\ writes <= 1 /\ faults = 0
          /\ \A k \in Key : services[k] \in {None, Plain("s1", NoLabels)}
    /\ (\A c \in Conf : confs[c] \notin ManyRules) =>
          \A p \in Pod : <<snapshots[p]>> \notin ManyRules
=============================================================================
