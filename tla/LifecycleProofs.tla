-------------------------- MODULE LifecycleProofs --------------------------
(***************************************************************************)
(* Proofs, for all programs, types of objects and factories, that a worker *)
(* reads complete copies only, that main waits only for informers that are *)
(* run, and that the exit tells why a process ended.                       *)
(*                                                                         *)
(* The invariant proved by induction follows main: until New nothing is    *)
(* asked of the factories, afterwards the one informer of each type is in  *)
(* the factories' map, is what the listers read and what main awaits, and  *)
(* is started or about to be.                                              *)
(***************************************************************************)
EXTENDS Lifecycle, SequenceTheorems, TLAPS

\* The factories, as far as main has come.
FactoriesInv ==
    /\ informers \in [Type -> {None, 1}]
    /\ main \in {"flags", "config", "new", "start"} =>
          /\ started = [t \in Type |-> FALSE]
          /\ starting = {} /\ awaited = <<>>
    /\ main \in {"start", "ask", "wait", "go", "block"} =>
          /\ \A t \in Needed : informers[t] = 1 /\ lister[t] = 1
          /\ handler = 1
    /\ main \in {"ask", "wait", "go", "block"} =>
          \A t \in Needed : FactoryOf[t] \in starting \/ started[t]
    /\ \A t \in Type : started[t] => <<t, 1>> \in running

\* What main waits for.
AwaitedInv ==
    /\ \A i \in DOMAIN awaited : awaited[i] = 1
    /\ main \in {"wait", "go", "block"} => Len(awaited) = Len(Needs[program])
    /\ main \in {"go", "block"} => \A t \in Needed : <<t, 1>> \in synced
    /\ worker # "none" => main = "block"

\* The signals and the reasons for an exit.
ExitInv ==
    /\ stop <=> watcher = "second"
    /\ main = "flags" => watcher = "none"
    /\ caught <= signals /\ (stop => caught < signals)
    /\ exit = "ok" => signals > 0 /\ worker # "none"
    /\ exit = "fatal" => \/ signals > 1
                         \/ main = "config"
                         \/ main = "wait" /\ stop
    /\ main = "block" => worker # "none"

LifecycleInv == TypeOK /\ FactoriesInv /\ AwaitedInv /\ ExitInv

-----------------------------------------------------------------------------

\* What is needed is watched, and what is handled is needed.
LEMMA NeededTypes ==
    ASSUME program \in Program
    PROVE  /\ Needs[program] \in Seq(Type)
           /\ Needed \subseteq Type
           /\ Handled[program] \in Needed
           /\ \A i \in 1..Len(Needs[program]) : Needs[program][i] \in Needed
           /\ FactoryOf \in [Type -> Factory]
<1>1. Needs[program] \in Seq(Type)
  BY LifecycleAssumption
<1>2. DOMAIN Needs[program] = 1..Len(Needs[program])
  BY <1>1
<1>3. \A i \in 1..Len(Needs[program]) : Needs[program][i] \in Type
  BY <1>1
<1>4. PICK i \in DOMAIN Needs[program] : Needs[program][i] = Handled[program]
  BY LifecycleAssumption
<1> QED
  BY <1>1, <1>2, <1>3, <1>4, LifecycleAssumption DEF Needed

LEMMA InvariantInit == Init => LifecycleInv
<1>1. SUFFICES ASSUME Init
               PROVE  LifecycleInv
  OBVIOUS
<1>2. Needs[program] \in Seq(Type)
  BY <1>1, NeededTypes DEF Init
<1>3. TypeOK
  <2>1. awaited \in Seq(Nat) /\ Len(awaited) <= Len(Needs[program])
    BY <1>1, <1>2, LenProperties, EmptySeq DEF Init
  <2>2. lister \in [Type -> Nat] /\ informers \in [Type -> Nat]
    BY <1>1 DEF Init, NewSharedInformerFactory, None
  <2>3. started \in [Type -> BOOLEAN] /\ starting \in SUBSET Factory
    BY <1>1 DEF Init, NewSharedInformerFactory
  <2>4. signals \in 0..MaxSignals /\ caught \in 0..2 /\ handler \in Nat
    BY <1>1, LifecycleAssumption DEF Init, None
  <2>5. running \in SUBSET (Type \X Nat) /\ synced \in SUBSET running
    BY <1>1 DEF Init
  <2> QED
    BY <1>1, <2>1, <2>2, <2>3, <2>4, <2>5 DEF Init, TypeOK
<1>4. FactoriesInv
  BY <1>1, <1>3 DEF Init, TypeOK, FactoriesInv, NewSharedInformerFactory, None
<1>5. AwaitedInv
  BY <1>1 DEF Init, AwaitedInv
<1>6. ExitInv
  BY <1>1 DEF Init, ExitInv
<1> QED
  BY <1>3, <1>4, <1>5, <1>6 DEF LifecycleInv

\* A step of a kind that touches neither the factories nor main.
LEMMA FactoriesKept ==
    ASSUME LifecycleInv,
           UNCHANGED <<program, main, informers, started, starting, lister,
                       handler, awaited, running>>
    PROVE  FactoriesInv'
BY DEF LifecycleInv, FactoriesInv, Needed

LEMMA AwaitedKept ==
    ASSUME LifecycleInv, UNCHANGED <<program, main, awaited, synced, worker>>
    PROVE  AwaitedInv'
BY DEF LifecycleInv, AwaitedInv, Needed

LEMMA ExitKept ==
    ASSUME LifecycleInv, UNCHANGED <<main, caught, watcher, stop, signals, worker, exit>>
    PROVE  ExitInv'
BY DEF LifecycleInv, ExitInv

-----------------------------------------------------------------------------
(* One lemma per action, or group of actions that touch the same state.      *)

LEMMA SignalSteps ==
    ASSUME LifecycleInv,
           SetupSignalHandler \/ (\E s \in Signal : Send(s)) \/ FirstSignal \/ SecondSignal
    PROVE  LifecycleInv'
<1> USE DEF LifecycleInv
<1>1. CASE SetupSignalHandler
  <2>1. TypeOK'
    BY <1>1 DEF SetupSignalHandler, TypeOK, factories, wiring
  <2>2. FactoriesInv'
    BY <1>1 DEF SetupSignalHandler, FactoriesInv, Needed, factories, wiring
  <2>3. AwaitedInv'
    BY <1>1 DEF SetupSignalHandler, AwaitedInv, Needed, factories, wiring
  <2>4. ExitInv'
    BY <1>1 DEF SetupSignalHandler, ExitInv, TypeOK, Alive
  <2> QED
    BY <2>1, <2>2, <2>3, <2>4
<1>2. ASSUME NEW s \in Signal, Send(s)
      PROVE  LifecycleInv'
  <2>1. TypeOK'
    <3>1. signals' \in 0..MaxSignals /\ caught' \in 0..2
      BY <1>2, LifecycleAssumption DEF Send, TypeOK
    <3>2. exit' \in {exit, "killed"}
      BY <1>2 DEF Send
    <3> QED
      BY <1>2, <3>1, <3>2 DEF Send, TypeOK, factories, wiring
  <2>2. FactoriesInv' /\ AwaitedInv'
    BY <1>2, FactoriesKept, AwaitedKept DEF Send, factories, wiring
  <2>3. ExitInv'
    BY <1>2 DEF Send, ExitInv, TypeOK, Alive
  <2> QED
    BY <2>1, <2>2, <2>3
<1>3. CASE FirstSignal
  <2>1. TypeOK'
    BY <1>3 DEF FirstSignal, TypeOK, factories, wiring
  <2>2. FactoriesInv' /\ AwaitedInv'
    BY <1>3, FactoriesKept, AwaitedKept DEF FirstSignal, factories, wiring
  <2>3. ExitInv'
    BY <1>3 DEF FirstSignal, ExitInv, TypeOK, Alive
  <2> QED
    BY <2>1, <2>2, <2>3
<1>4. CASE SecondSignal
  <2>1. TypeOK'
    BY <1>4 DEF SecondSignal, TypeOK, factories, wiring
  <2>2. FactoriesInv' /\ AwaitedInv'
    BY <1>4, FactoriesKept, AwaitedKept DEF SecondSignal, factories, wiring
  <2>3. ExitInv'
    BY <1>4 DEF SecondSignal, ExitInv, TypeOK, Alive
  <2> QED
    BY <2>1, <2>2, <2>3
<1> QED
  BY <1>1, <1>2, <1>3, <1>4

\* Start runs what is asked for, and each informer that is asked for is 1.
LEMMA StartStep ==
    ASSUME LifecycleInv, NEW f \in Factory, Start(f)
    PROVE  LifecycleInv'
<1> USE DEF LifecycleInv
<1> DEFINE new == {t \in Type : FactoryOf[t] = f /\ informers[t] # None /\ ~started[t]}
<1>1. /\ running' = running \cup {<<t, informers[t]>> : t \in new}
      /\ started' = [t \in Type |-> started[t] \/ t \in new]
      /\ starting' = starting \ {f} /\ starting # {}
      /\ UNCHANGED <<program, main, informers, lister, handler, awaited, synced,
                     caught, watcher, stop, signals, worker, exit>>
  BY DEF Start, wiring, catching
<1>2. Needed \subseteq Type
  BY NeededTypes DEF TypeOK
<1>3. TypeOK'
  <2>1. running' \in SUBSET (Type \X Nat) /\ synced' \in SUBSET running'
    BY <1>1 DEF TypeOK
  <2>2. started' \in [Type -> BOOLEAN]
    BY <1>1
  <2> QED
    BY <1>1, <2>1, <2>2 DEF TypeOK, Start, wiring, catching
<1>4. FactoriesInv'
  <2>1. main \notin {"flags", "config", "new", "start"}
    BY <1>1 DEF FactoriesInv
  <2>2. main \in {"ask", "wait", "go", "block"}
    BY <2>1 DEF TypeOK
  <2>3. ASSUME NEW t \in Needed
        PROVE  FactoryOf[t] \in starting' \/ started'[t]
    <3>1. t \in Type /\ informers[t] # None
      BY <1>2, <2>2 DEF FactoriesInv, None
    <3>2. FactoryOf[t] \in starting \/ started[t]
      BY <2>2 DEF FactoriesInv
    <3> QED
      BY <1>1, <3>1, <3>2
  <2>4. ASSUME NEW t \in Type, started'[t]
        PROVE  <<t, 1>> \in running'
    <3>1. CASE t \in new
      BY <1>1, <3>1 DEF FactoriesInv, None
    <3>2. CASE started[t]
      BY <1>1, <3>2 DEF FactoriesInv
    <3> QED
      BY <1>1, <2>4, <3>1, <3>2
  <2> HIDE DEF new
  <2>5. Needed' = Needed
    BY <1>1 DEF Needed
  <2>6. informers' \in [Type -> {None, 1}]
    BY <1>1 DEF FactoriesInv
  <2>7. handler' = 1 /\ \A t \in Needed : informers'[t] = 1 /\ lister'[t] = 1
    BY <1>1, <2>2 DEF FactoriesInv
  <2> QED
    BY <1>1, <2>1, <2>3, <2>4, <2>5, <2>6, <2>7 DEF FactoriesInv
<1>5. AwaitedInv' /\ ExitInv'
  BY <1>1, AwaitedKept, ExitKept
<1> QED
  BY <1>3, <1>4, <1>5

LEMMA SyncStep ==
    ASSUME LifecycleInv, NEW t \in Type, NEW n \in 1..3, Sync(t, n)
    PROVE  LifecycleInv'
<1> USE DEF LifecycleInv
<1>1. TypeOK'
  BY DEF Sync, TypeOK, factories, wiring, catching
<1>2. FactoriesInv' /\ ExitInv'
  BY FactoriesKept, ExitKept DEF Sync, factories, wiring, catching
<1>3. AwaitedInv'
  BY DEF Sync, AwaitedInv, Needed, wiring, factories
<1> QED
  BY <1>1, <1>2, <1>3

\* Configure changes main or ends the process; nothing is asked for yet.
LEMMA ConfigureStep ==
    ASSUME LifecycleInv, Configure
    PROVE  LifecycleInv'
<1> USE DEF LifecycleInv
<1>1. TypeOK'
  BY DEF Configure, TypeOK, factories, wiring, catching
<1>2. FactoriesInv'
  BY DEF Configure, FactoriesInv, Needed, factories, wiring, catching
<1>3. AwaitedInv'
  BY DEF Configure, AwaitedInv, Needed, factories, wiring, catching
<1>4. ExitInv'
  BY DEF Configure, ExitInv, Alive, catching
<1> QED
  BY <1>1, <1>2, <1>3, <1>4

\* New puts the informer of each type that is needed into the factories' map,
\* and the listers and the handler get it from there.
LEMMA NewStep ==
    ASSUME LifecycleInv, New
    PROVE  LifecycleInv'
<1> USE DEF LifecycleInv
<1>1. Needed \subseteq Type /\ Handled[program] \in Needed
  BY NeededTypes DEF TypeOK
<1>2. /\ informers \in [Type -> {None, 1}]
      /\ started = [t \in Type |-> FALSE] /\ starting = {} /\ awaited = <<>>
  BY DEF FactoriesInv, New
<1> DEFINE asked == [t \in Type |-> IF t \in Needed THEN 1 ELSE informers[t]]
<1>3. asked = [t \in Type |-> IF t \in Needed THEN Lister(informers, t)
                              ELSE informers[t]]
  BY <1>2 DEF Lister, Informer, InformerFor, None
<1>4. asked[Handled[program]] = 1
  BY <1>1
<1>5. /\ lister' = [t \in Type |-> IF t \in Needed THEN 1 ELSE None]
      /\ handler' = 1
      /\ informers' = [asked EXCEPT ![Handled[program]] = 1]
      /\ main = "new" /\ main' = "start" /\ worker = "none"
      /\ UNCHANGED <<program, served, started, starting, awaited, running, synced,
                     catching, worker, exit>>
  <2>1. lister' = [t \in Type |-> IF t \in Needed THEN asked[t] ELSE None]
    BY <1>3 DEF New
  <2>2. lister' = [t \in Type |-> IF t \in Needed THEN 1 ELSE None]
    BY <2>1
  <2>3. Informer(asked, Handled[program]) = 1
    BY <1>4 DEF Informer, InformerFor, None
  <2> HIDE DEF asked
  <2>4. handler' = 1 /\ informers' = [asked EXCEPT ![Handled[program]] = 1]
    BY <1>3, <2>3 DEF New
  <2>5. worker = "none"
    BY DEF AwaitedInv, New
  <2> QED
    BY <2>2, <2>4, <2>5 DEF New
<1>6. informers' = asked
  BY <1>1, <1>4, <1>5
<1>7. informers' \in [Type -> {None, 1}] /\ lister' \in [Type -> {None, 1}]
  BY <1>2, <1>5, <1>6
<1>8. Needed' = Needed
  BY <1>5 DEF Needed
<1>9. \A t \in Needed : informers'[t] = 1 /\ lister'[t] = 1
  BY <1>1, <1>5, <1>6
<1> HIDE DEF asked
<1>10. TypeOK'
  <2>1. informers' \in [Type -> Nat] /\ lister' \in [Type -> Nat]
    BY <1>7 DEF None
  <2> QED
    BY <1>5, <2>1 DEF TypeOK, catching
<1>11. FactoriesInv'
  BY <1>2, <1>5, <1>7, <1>8, <1>9 DEF FactoriesInv
<1>12. AwaitedInv'
  BY <1>5 DEF AwaitedInv
<1>13. ExitInv'
  BY <1>5 DEF ExitInv, catching, New, Alive
<1> QED
  BY <1>10, <1>11, <1>12, <1>13

\* All factories are about to be started.
LEMMA GoStartStep ==
    ASSUME LifecycleInv, GoStart
    PROVE  LifecycleInv'
<1> USE DEF LifecycleInv
<1>1. TypeOK'
  BY DEF GoStart, TypeOK, wiring, catching
<1>2. FactoriesInv'
  <2>1. Needed \subseteq Type /\ FactoryOf \in [Type -> Factory]
    BY NeededTypes DEF TypeOK
  <2>2. Needed' = Needed
    BY DEF GoStart, Needed
  <2> QED
    BY <2>1, <2>2 DEF GoStart, FactoriesInv, wiring
<1>3. AwaitedInv'
  BY DEF GoStart, AwaitedInv, FactoriesInv, wiring
<1>4. ExitInv'
  BY DEF GoStart, ExitInv, Alive, catching
<1> QED
  BY <1>1, <1>2, <1>3, <1>4

\* What is asked for once more is there.
LEMMA AskStep ==
    ASSUME LifecycleInv, Ask
    PROVE  LifecycleInv'
<1> USE DEF LifecycleInv
<1>1. PICK t \in Needed :
         /\ awaited' = Append(awaited, Informer(informers, t))
         /\ informers' = [informers EXCEPT ![t] = Informer(informers, t)]
  <2>1. Len(awaited) \in Nat
    BY LenProperties DEF TypeOK
  <2>2. Len(Needs[program]) \in Nat
    BY NeededTypes, LenProperties DEF TypeOK
  <2>3. Len(awaited) + 1 \in 1..Len(Needs[program])
    BY <2>1, <2>2 DEF Ask
  <2> QED
    BY <2>3, NeededTypes DEF Ask, TypeOK
<1>2. Needed \subseteq Type
  BY NeededTypes DEF TypeOK
<1>3. informers \in [Type -> {None, 1}] /\ informers[t] = 1
  BY DEF Ask, FactoriesInv
<1>4. awaited' = Append(awaited, 1) /\ informers' = informers
  BY <1>1, <1>2, <1>3 DEF Informer, InformerFor, None
<1>5. /\ main = "ask" /\ exit = "none" /\ Len(awaited) < Len(Needs[program])
      /\ UNCHANGED <<program, served, main, started, starting, lister, handler,
                     running, synced, catching, worker, exit>>
  BY DEF Ask, Alive
<1>6. /\ awaited' \in Seq(Nat) /\ Len(awaited') = Len(awaited) + 1
      /\ \A i \in DOMAIN awaited' : awaited'[i] = 1
  <2>1. awaited \in Seq(Nat) /\ \A i \in 1..Len(awaited) : awaited[i] = 1
    BY LenProperties DEF TypeOK, AwaitedInv
  <2> QED
    BY <1>4, <2>1, AppendProperties
<1>7. TypeOK'
  <2>1. Len(awaited') <= Len(Needs[program])
    BY <1>5, <1>6, NeededTypes, LenProperties DEF TypeOK
  <2> QED
    BY <1>4, <1>5, <1>6, <2>1 DEF TypeOK, catching
<1>8. FactoriesInv'
  BY <1>4, <1>5 DEF FactoriesInv, Needed
<1>9. AwaitedInv'
  BY <1>5, <1>6 DEF AwaitedInv
<1>10. ExitInv'
  BY <1>5, ExitKept DEF catching
<1> QED
  BY <1>7, <1>8, <1>9, <1>10

LEMMA WaitStep ==
    ASSUME LifecycleInv, WaitForCacheSync
    PROVE  LifecycleInv'
<1> USE DEF LifecycleInv
<1>1. TypeOK'
  BY DEF WaitForCacheSync, TypeOK, factories, wiring, catching
<1>2. FactoriesInv'
  BY DEF WaitForCacheSync, FactoriesInv, Needed, factories, wiring
<1>3. AwaitedInv'
  BY DEF WaitForCacheSync, AwaitedInv, Needed, wiring
<1>4. ExitInv'
  BY DEF WaitForCacheSync, ExitInv, Alive, catching
<1> QED
  BY <1>1, <1>2, <1>3, <1>4

\* What main waited for is the informer of each type that is needed.
LEMMA AllAwaited ==
    ASSUME LifecycleInv, main = "wait"
    PROVE  \A t \in Needed : \E i \in DOMAIN awaited :
              <<Needs[program][i], awaited[i]>> = <<t, 1>>
<1> USE DEF LifecycleInv
<1>1. TAKE t \in Needed
<1>2. PICK i \in DOMAIN Needs[program] : Needs[program][i] = t
  BY DEF Needed
<1>3. DOMAIN Needs[program] = 1..Len(Needs[program]) /\ DOMAIN awaited = 1..Len(awaited)
  BY NeededTypes, LenProperties DEF TypeOK
<1>4. i \in DOMAIN awaited
  BY <1>2, <1>3 DEF AwaitedInv
<1> QED
  BY <1>2, <1>4 DEF AwaitedInv

LEMMA SyncedStep ==
    ASSUME LifecycleInv, CachesSynced
    PROVE  LifecycleInv'
<1> USE DEF LifecycleInv
<1>1. TypeOK'
  BY DEF CachesSynced, TypeOK, factories, wiring, catching
<1>2. FactoriesInv'
  BY DEF CachesSynced, FactoriesInv, Needed, factories, wiring
<1>3. AwaitedInv'
  <2>1. \A t \in Needed : <<t, 1>> \in synced
    <3>1. TAKE t \in Needed
    <3>2. PICK i \in DOMAIN awaited : <<Needs[program][i], awaited[i]>> = <<t, 1>>
      BY AllAwaited DEF CachesSynced
    <3> QED
      BY <3>2, Zenon DEF CachesSynced, AllSynced
  <2>2. Needed' = Needed
    BY DEF CachesSynced, Needed
  <2> QED
    BY <2>1, <2>2 DEF CachesSynced, AwaitedInv, wiring
<1>4. ExitInv'
  BY DEF CachesSynced, ExitInv, Alive, catching
<1> QED
  BY <1>1, <1>2, <1>3, <1>4

LEMMA EndSteps ==
    ASSUME LifecycleInv, NotSynced \/ Return \/ ListenFails
    PROVE  LifecycleInv'
<1> USE DEF LifecycleInv
<1>1. TypeOK'
  BY DEF NotSynced, Return, ListenFails, TypeOK, factories, wiring, catching
<1>2. FactoriesInv' /\ AwaitedInv'
  BY FactoriesKept, AwaitedKept DEF NotSynced, Return, ListenFails, factories, wiring
<1>3. ExitInv'
  <2>1. CASE NotSynced
    BY <2>1 DEF NotSynced, ExitInv, Alive, catching
  <2>2. CASE Return
    BY <2>2 DEF Return, ExitInv, TypeOK, Alive, catching
  <2>3. CASE ListenFails
    BY <2>3 DEF ListenFails, ExitInv, Alive, catching
  <2> QED
    BY <2>1, <2>2, <2>3
<1> QED
  BY <1>1, <1>2, <1>3

LEMMA WorkerSteps ==
    ASSUME LifecycleInv, GoWork \/ Work \/ RunReturns \/ ServeFails
    PROVE  LifecycleInv'
<1> USE DEF LifecycleInv
<1>1. CASE GoWork
  <2>1. TypeOK'
    BY <1>1 DEF GoWork, TypeOK, factories, wiring, catching
  <2>2. FactoriesInv'
    BY <1>1 DEF GoWork, FactoriesInv, Needed, factories, wiring
  <2>3. AwaitedInv'
    BY <1>1 DEF GoWork, AwaitedInv, Needed, wiring
  <2>4. ExitInv'
    BY <1>1 DEF GoWork, ExitInv, Alive, catching
  <2> QED
    BY <2>1, <2>2, <2>3, <2>4
<1>2. ASSUME Work \/ RunReturns \/ ServeFails
      PROVE  LifecycleInv'
  <2>1. /\ worker \in {"spawned", "works"} /\ worker' \in {"works", "ended"}
        /\ exit = "none"
        /\ UNCHANGED <<program, served, main, factories, wiring, running, synced,
                       catching, exit>>
    BY <1>2 DEF Work, RunReturns, ServeFails, WorkerTo, Alive
  <2>2. TypeOK'
    BY <2>1 DEF TypeOK, factories, wiring, catching
  <2>3. FactoriesInv'
    BY <2>1, FactoriesKept DEF factories, wiring
  <2>4. AwaitedInv'
    BY <2>1 DEF AwaitedInv, Needed, wiring
  <2>5. ExitInv'
    BY <2>1 DEF ExitInv, catching
  <2> QED
    BY <2>2, <2>3, <2>4, <2>5
<1> QED
  BY <1>1, <1>2

LEMMA InvariantNext == LifecycleInv /\ [Next]_vars => LifecycleInv'
<1>1. SUFFICES ASSUME LifecycleInv, [Next]_vars
               PROVE  LifecycleInv'
  OBVIOUS
<1>2. CASE SetupSignalHandler \/ (\E s \in Signal : Send(s)) \/ FirstSignal \/ SecondSignal
  BY <1>1, <1>2, SignalSteps
<1>3. CASE Main
  BY <1>1, <1>3, ConfigureStep, NewStep, GoStartStep, AskStep, WaitStep, SyncedStep,
     EndSteps, WorkerSteps DEF Main
<1>4. CASE Informers
  BY <1>1, <1>4, StartStep, SyncStep DEF Informers
<1>5. CASE Work \/ RunReturns \/ ServeFails \/ ListenFails
  BY <1>1, <1>5, WorkerSteps, EndSteps
<1>6. CASE UNCHANGED vars
  <2>1. TypeOK'
    BY <1>1, <1>6 DEF vars, LifecycleInv, TypeOK, factories, wiring, catching
  <2> QED
    BY <1>1, <1>6, <2>1, FactoriesKept, AwaitedKept, ExitKept
       DEF vars, factories, wiring, catching, LifecycleInv
<1> QED
  BY <1>1, <1>2, <1>3, <1>4, <1>5, <1>6 DEF Next

-----------------------------------------------------------------------------

\* The invariant of this module: factories, main, signals and exit agree.
THEOREM LifecycleInvariant == Spec => []LifecycleInv
<1> QED
  BY InvariantInit, InvariantNext, PTL DEF Spec

\* Every variable of a process keeps its type.
THEOREM LifecycleTypeCorrect == Spec => []TypeOK
<1>1. LifecycleInv => TypeOK
  BY DEF LifecycleInv
<1> QED
  BY <1>1, LifecycleInvariant, PTL

\* The worker that main spawns after WaitForCacheSync reads copies that are
\* complete, and its handler is called by an informer that main waited for.
THEOREM WorkersWorkOnCompleteCopies == Spec => []WorksOnCompleteCopies
<1>1. LifecycleInv => WorksOnCompleteCopies
  <2>1. SUFFICES ASSUME LifecycleInv, worker # "none"
                 PROVE  /\ \A t \in Needed : <<t, lister[t]>> \in synced
                        /\ <<Handled[program], handler>> \in synced
    BY DEF WorksOnCompleteCopies
  <2>2. main = "block"
    BY <2>1 DEF LifecycleInv, AwaitedInv
  <2>3. Handled[program] \in Needed
    BY <2>1, NeededTypes DEF LifecycleInv, TypeOK
  <2> QED
    BY <2>1, <2>2, <2>3 DEF LifecycleInv, FactoriesInv, AwaitedInv
<1> QED
  BY <1>1, LifecycleInvariant, PTL

\* The informers that the factories have started are those main waits for.
THEOREM AwaitedInformersRun == Spec => []AwaitedIsStarted
<1>1. LifecycleInv => AwaitedIsStarted
  <2>1. SUFFICES ASSUME LifecycleInv, main = "wait", starting = {},
                        NEW i \in DOMAIN awaited
                 PROVE  <<Needs[program][i], awaited[i]>> \in running
    BY DEF AwaitedIsStarted
  <2>2. i \in 1..Len(Needs[program])
    BY <2>1, LenProperties DEF LifecycleInv, TypeOK, AwaitedInv
  <2>3. Needs[program][i] \in Needed /\ Needed \subseteq Type
    BY <2>1, <2>2, NeededTypes DEF LifecycleInv, TypeOK
  <2> QED
    BY <2>1, <2>3 DEF LifecycleInv, FactoriesInv, AwaitedInv
<1> QED
  BY <1>1, LifecycleInvariant, PTL

\* main's return, its calls of Fatal and the signal handler's os.Exit leave an
\* exit code that says which of them it was.
THEOREM ExitReasons == Spec => []ExitTellsWhy
<1>1. LifecycleInv => ExitTellsWhy
  BY DEF LifecycleInv, TypeOK, AwaitedInv, ExitInv, ExitTellsWhy
<1> QED
  BY <1>1, LifecycleInvariant, PTL
=============================================================================
