----------------------------- MODULE EnvoyConfig -----------------------------
(***************************************************************************)
(* The Envoy configuration that the discovery server builds of a rule      *)
(* (pkg/xds/server.go: buildListeners, buildClusters), and where an Envoy  *)
(* that accepts it sends a connection.  Operators only.                    *)
(*                                                                         *)
(* The TCP entry of a filter is the name of its cluster, a cluster's host  *)
(* stands for host and port.  Addresses and time-outs that are the same    *)
(* for all are left out.                                                   *)
(***************************************************************************)
EXTENDS Integers, Sequences

AnyPort == 0           \* a chain that asks for no port
AnyDomain == "*"
BlackHole == "BlackHoleCluster"
Nowhere == "nowhere"   \* what happens to a connection that no cluster takes

\* The chain of all that no other chain takes.
BlackHoleChain == [port |-> AnyPort, vhosts |-> <<>>, cluster |-> BlackHole]

\* The types of a rule's entries, as Configuration has them.
HttpEntry == [domains : SUBSET STRING, cluster : STRING]
RuleFilter == [port : Nat, http : Seq(HttpEntry), tcp : STRING]
RuleCluster == [name : STRING, host : STRING]
IsRule(rule) == rule.filters \in Seq(RuleFilter) /\ rule.clusters \in Seq(RuleCluster)

\* Mutant: a filter with HTTP routes and a TCP cluster is a TCP filter.
ChainTcpFirst(filter) ==
    IF filter.tcp # "" THEN [port |-> filter.port, vhosts |-> <<>>, cluster |-> filter.tcp]
    ELSE [port |-> filter.port, vhosts |-> filter.http, cluster |-> ""]

\* One filter's chain: a virtual host per HTTP entry, with one route for all
\* paths, or else a TCP proxy.
Chain(filter) ==
    IF Len(filter.http) > 0
    THEN [port |-> filter.port, vhosts |-> filter.http, cluster |-> ""]
    ELSE [port |-> filter.port, vhosts |-> <<>>, cluster |-> filter.tcp]

\* The chains of the one listener.
buildListeners(filters) ==
    <<BlackHoleChain>> \o [i \in DOMAIN filters |-> Chain(filters[i])]

\* The snapshot's clusters by name.  Of two with one name the later one stays.
buildClusters(clusters) ==
    LET Names == {clusters[i].name : i \in DOMAIN clusters}
    IN  [n \in Names |->
            clusters[CHOOSE i \in DOMAIN clusters :
                /\ clusters[i].name = n
                /\ \A j \in (i + 1)..Len(clusters) : clusters[j].name # n].host]

Build(rule) ==
    [chains |-> buildListeners(rule.filters),
     clusters |-> buildClusters(rule.clusters)]

-----------------------------------------------------------------------------
(* Envoy.                                                                    *)

Domains(vhosts) == UNION {vhosts[i].domains : i \in DOMAIN vhosts}

\* A listener with two chains for a port, or with a port 0, is rejected, and a
\* route table that is empty of domains, has one twice, or names a cluster
\* that is not there.
Accepts(config) ==
    /\ \A i, j \in DOMAIN config.chains :
          config.chains[i].port = config.chains[j].port => i = j
    /\ \A i \in DOMAIN config.chains :
          LET vhosts == config.chains[i].vhosts
          IN  \A v \in DOMAIN vhosts :
                 /\ vhosts[v].domains # {}
                 /\ vhosts[v].cluster \in DOMAIN config.clusters
                 /\ \A w \in DOMAIN vhosts :
                       v # w => vhosts[v].domains \cap vhosts[w].domains = {}

\* The chain for a port, or the one that asks for none.
ChainFor(config, port) ==
    LET for == {i \in DOMAIN config.chains : config.chains[i].port = port}
    IN  IF for # {} THEN config.chains[CHOOSE i \in for : TRUE]
        ELSE config.chains[CHOOSE i \in DOMAIN config.chains :
                                config.chains[i].port = AnyPort]

\* The virtual host of a domain: the one that names it, or the one for all.
VhostsFor(vhosts, domain) ==
    LET named == {i \in DOMAIN vhosts : domain \in vhosts[i].domains}
        wild == {i \in DOMAIN vhosts : AnyDomain \in vhosts[i].domains}
    IN  IF named # {} THEN named ELSE wild

HostOf(config, cluster) ==
    IF cluster \in DOMAIN config.clusters THEN config.clusters[cluster] ELSE Nowhere

\* Where a request to a port and a domain goes.
Route(config, port, domain) ==
    LET chain == ChainFor(config, port)
        at == VhostsFor(chain.vhosts, domain)
    IN  IF chain.vhosts = <<>> THEN HostOf(config, chain.cluster)
        ELSE IF at = {} THEN Nowhere
        ELSE HostOf(config, chain.vhosts[CHOOSE i \in at : TRUE].cluster)

-----------------------------------------------------------------------------
(* What a rule asks for, read from its filters and clusters themselves.      *)

\* The clusters that a filter gives for a domain: of the HTTP entries that
\* name it or, if none does, are for all; of the TCP entry if there is no HTTP.
Asked(filter, domain) ==
    LET entries == {filter.http[i] : i \in DOMAIN filter.http}
        named == {e \in entries : domain \in e.domains}
        wild == {e \in entries : AnyDomain \in e.domains}
    IN  IF entries = {} THEN {filter.tcp}
        ELSE {e.cluster : e \in IF named # {} THEN named ELSE wild}

\* The hosts that a rule sends a request to: none if no filter has the port,
\* and the last one given under the name of the cluster.
Intended(rule, port, domain) ==
    LET filters == {rule.filters[i] : i \in DOMAIN rule.filters}
        names == UNION {Asked(f, domain) : f \in {g \in filters : g.port = port}}
        last == {i \in DOMAIN rule.clusters :
                    /\ rule.clusters[i].name \in names
                    /\ \A j \in DOMAIN rule.clusters :
                          rule.clusters[j].name = rule.clusters[i].name => j <= i}
    IN  {rule.clusters[i].host : i \in last}

\* A cluster of the name that the default chain uses would take what the rule
\* does not name.
NamesBlackHole(rule) ==
    \E i \in DOMAIN rule.clusters : rule.clusters[i].name = BlackHole

\* An Envoy that accepts what was built of a rule routes as the rule says.
RoutesAsAsked(rule, port, domain) ==
    LET to == Route(Build(rule), port, domain)
    IN  IF Intended(rule, port, domain) = {} THEN to = Nowhere
        ELSE Intended(rule, port, domain) = {to}
=============================================================================
