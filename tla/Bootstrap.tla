----------------------------- MODULE Bootstrap -----------------------------
(***************************************************************************)
(* The process of a pod's proxy container (cmd/envoy-bootstrap): it writes *)
(* Envoy's bootstrap configuration from a template, starts Envoy as its    *)
(* child and ends when the child does.  The kubelet gives the process its  *)
(* flags and environment, and starts it again when it has ended.           *)
(***************************************************************************)
EXTENDS Integers, Sequences

CONSTANTS
    Pod,        \* the names of pods
    IP,         \* IP[p]: the address of pod p
    MaxFaults,  \* bound: faults of all pods together
    None        \* no process, file or Envoy

ASSUME BootstrapAssumption == MaxFaults \in Nat

VARIABLES
    proxy,      \* proxy[p]: flags and environment of the container, or None
    process,    \* where the process of pod p is: gone with its pod, at last
    file,       \* the configuration file in the container
    envoy,      \* the configuration that the child runs with
    faults

bvars == <<proxy, process, file, envoy, faults>>

Partial == [id |-> <<>>]     \* what a failed write leaves: no configuration
Places == {"none", "write", "start", "wait", "ended", "gone"}

\* The flags that init declares; another one ends the process.
Flags == {"envoyBinary", "logLevel", "bootstrapTemplate", "bootstrapConfig",
          "discoveryAddress", "discoveryPort", "serviceCluster", "base64"}

FlagsParse(p) == DOMAIN proxy[p].args \subseteq Flags

-----------------------------------------------------------------------------
(* What the process makes of its environment and flags.                      *)

\* A field of the pod; a variable that is not set reads as "".
Field(p, f) == IF f = "metadata.name" THEN p ELSE IP[p]

Getenv(p, v) ==
    IF v \in DOMAIN proxy[p].env THEN Field(p, proxy[p].env[v]) ELSE ""

\* The text before the @ and the text after it.
buildNodeId(p) == <<Getenv(p, "POD_IP"), Getenv(p, "POD_NAME")>>

Flag(p, f) == IF f \in DOMAIN proxy[p].args THEN proxy[p].args[f] ELSE ""

\* The file: the template asks for a node, a cluster and the server's address.
BootstrapConfig(p) ==
    [id |-> buildNodeId(p), cluster |-> Flag(p, "serviceCluster"),
     address |-> Flag(p, "discoveryAddress"), port |-> Flag(p, "discoveryPort")]

-----------------------------------------------------------------------------
(* The process.                                                              *)

End(p) == process' = [process EXCEPT ![p] = "ended"]
GoTo(p, place) == process' = [process EXCEPT ![p] = place]
Fault == faults < MaxFaults /\ faults' = faults + 1

\* The kubelet starts the container, with the file system of its image.
StartContainer(p) ==
    /\ proxy[p] # None /\ process[p] \in {"none", "ended"}
    /\ GoTo(p, "write")
    /\ file' = [file EXCEPT ![p] = None]
    /\ UNCHANGED <<proxy, envoy, faults>>

\* Flags, template and file.  The error of a write is dropped.
WriteConfig(p) ==
    /\ process[p] = "write"
    /\ \/ /\ FlagsParse(p)
          /\ file' = [file EXCEPT ![p] = BootstrapConfig(p)]
          /\ GoTo(p, "start") /\ UNCHANGED faults
       \/ /\ FlagsParse(p) /\ Fault
          /\ file' = [file EXCEPT ![p] = Partial]
          /\ GoTo(p, "start")
       \/ /\ Fault
          /\ End(p) /\ UNCHANGED file
       \/ /\ ~FlagsParse(p)
          /\ End(p) /\ UNCHANGED <<file, faults>>
    /\ UNCHANGED <<proxy, envoy>>

\* The child is started with buildArgs: the file is its only configuration.
StartEnvoy(p) ==
    /\ process[p] = "start"
    /\ \/ /\ envoy' = [envoy EXCEPT ![p] = file[p]]
          /\ GoTo(p, "wait") /\ UNCHANGED faults
       \/ /\ Fault
          /\ End(p) /\ UNCHANGED envoy
    /\ UNCHANGED <<proxy, file>>

\* Mutant: a child that fails leaves main waiting on its channel.
WaitForever(p) == FALSE /\ UNCHANGED bvars

\* The goroutine sees the child end: it ends the process with exit code 1, or
\* lets main return.
Wait(p) ==
    /\ process[p] = "wait" /\ envoy[p] = None
    /\ End(p)
    /\ UNCHANGED <<proxy, file, envoy, faults>>

-----------------------------------------------------------------------------
(* Envoy.                                                                    *)

\* An Envoy refuses a file that is no configuration, and one whose cluster of
\* type STATIC has a host name for an address.
IsAddress(a) == a # "discovery.mesh"
Loads(config) == config # Partial /\ IsAddress(config.address)

\* The child ends: at once if it cannot load its file, or by a fault.
EnvoyEnds(p) ==
    /\ envoy[p] # None
    /\ \/ ~Loads(envoy[p]) /\ UNCHANGED faults
       \/ Loads(envoy[p]) /\ Fault
    /\ envoy' = [envoy EXCEPT ![p] = None]
    /\ UNCHANGED <<proxy, process, file>>

Container(p) ==
    \/ StartContainer(p) \/ WriteConfig(p) \/ StartEnvoy(p) \/ Wait(p)
    \/ EnvoyEnds(p)

BInit ==
    /\ proxy = [p \in Pod |-> None]
    /\ process = [p \in Pod |-> "none"]
    /\ file = [p \in Pod |-> None] /\ envoy = [p \in Pod |-> None]
    /\ faults = 0
=============================================================================
