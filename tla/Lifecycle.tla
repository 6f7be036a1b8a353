------------------------------ MODULE Lifecycle ------------------------------
(***************************************************************************)
(* A process of the mesh from its start to its end: cmd/controller and     *)
(* cmd/discovery with the signal handler and the informer factories.  main *)
(* catches signals, builds its clients, asks the factories for informers,  *)
(* has each factory started by a goroutine of its own, waits until the     *)
(* informers' copies are complete, starts the worker and blocks.           *)
(*                                                                         *)
(* The informer factories are two, but no type is of both, so that their   *)
(* maps are one here.  An informer is a number: informers[t] is the one    *)
(* the factory has for type t, 0 if none.                                  *)
(***************************************************************************)
EXTENDS Integers, Sequences

CONSTANTS
    Program,     \* the programs
    Type,        \* the kinds of objects that are watched
    Factory,     \* the informer factories of a process
    FactoryOf,   \* FactoryOf[t]: the factory of the informers for type t
    Needs,       \* Needs[p]: the types whose informers p creates, in order
    Handled,     \* Handled[p]: the type that p has an event handler for
    Servers,     \* the programs whose worker is a gRPC server
    Signal,      \* the signals that a process may be sent
    MaxSignals   \* bound: signals sent to the process

ASSUME LifecycleAssumption ==
    /\ FactoryOf \in [Type -> Factory]
    /\ Needs \in [Program -> Seq(Type)]
    /\ Handled \in [Program -> Type]
    /\ \A p \in Program : \E i \in DOMAIN Needs[p] : Needs[p][i] = Handled[p]
    /\ Servers \subseteq Program /\ MaxSignals \in Nat

VARIABLES
    program,     \* which program the process runs
    served,      \* the types that the API server answers lists of
    main,        \* where the main goroutine is
    informers,   \* the factories' informers map
    started,     \* the factories' startedInformers
    starting,    \* the factories whose Start has been called and not run
    lister,      \* lister[t]: the informer whose copy the worker reads
    handler,     \* the informer that calls the event handler
    awaited,     \* the informers that main waits for, in the order of Needs
    running,     \* the <<type, informer>> pairs that run
    synced,      \* those whose copy is complete
    caught,      \* the number of signals in the channel c
    watcher,     \* where the signal handler's goroutine is
    stop,        \* stopCh is closed
    worker,      \* where the goroutine of Run or Start is
    exit,        \* how the process ended
    signals      \* history: the number of signals sent

factories == <<informers, started, starting>>
wiring == <<lister, handler, awaited>>
catching == <<caught, watcher, stop, signals>>
vars == <<program, served, main, factories, wiring, running, synced, catching,
          worker, exit>>

None == 0     \* no informer
Needed == {Needs[program][i] : i \in DOMAIN Needs[program]}
Alive == exit = "none"

-----------------------------------------------------------------------------
(* Signals.                                                                  *)

\* SIGTERM and SIGINT are caught, on the systems that the images are made for.
shutdownSignals == {"SIGINT", "SIGTERM"}

\* SetupSignalHandler: the channel has room for two signals.
SetupSignalHandler ==
    /\ Alive /\ main = "flags"
    /\ watcher' = "first"
    /\ main' = "config"
    /\ UNCHANGED <<program, served, factories, wiring, running, synced, caught,
                   stop, signals, worker, exit>>

\* Mutant: the channel has room for any number of signals.
SendUnbounded(s) ==
    /\ Alive /\ signals < MaxSignals
    /\ signals' = signals + 1
    /\ caught' = caught + 1
    /\ UNCHANGED <<program, served, main, factories, wiring, running, synced,
                   watcher, stop, worker, exit>>

\* A signal is put in the channel if there is room; one that nobody has asked
\* for ends the process.
Send(s) ==
    /\ Alive /\ signals < MaxSignals
    /\ signals' = signals + 1
    /\ IF watcher # "none" /\ s \in shutdownSignals
       THEN /\ caught' = IF caught < 2 THEN caught + 1 ELSE caught
            /\ UNCHANGED exit
       ELSE exit' = "killed" /\ UNCHANGED caught
    /\ UNCHANGED <<program, served, main, factories, wiring, running, synced,
                   watcher, stop, worker>>

\* The first signal closes stopCh ...
FirstSignal ==
    /\ Alive /\ watcher = "first" /\ caught > 0
    /\ caught' = caught - 1
    /\ stop' = TRUE
    /\ watcher' = "second"
    /\ UNCHANGED <<program, served, main, factories, wiring, running, synced,
                   signals, worker, exit>>

\* Mutant: the goroutine does not wait for the second signal.
SecondSignalAtOnce ==
    /\ Alive /\ watcher = "second"
    /\ exit' = "fatal"
    /\ UNCHANGED <<program, served, main, factories, wiring, running, synced,
                   catching, worker>>

\* ... and the second one ends the process with exit code 1.
SecondSignal ==
    /\ Alive /\ watcher = "second" /\ caught > 0
    /\ caught' = caught - 1
    /\ exit' = "fatal"
    /\ UNCHANGED <<program, served, main, factories, wiring, running, synced,
                   watcher, stop, signals, worker>>

-----------------------------------------------------------------------------
(* The informer factories.                                                   *)

\* The factories hold no informer until one is asked for.
NewSharedInformerFactory ==
    /\ informers = [t \in Type |-> None]
    /\ started = [t \in Type |-> FALSE]
    /\ starting = {}

\* Mutant: each request makes a new informer.
InformerForAnew(inf, t) == inf[t] + 1

\* The informer that a request for type t returns, given the informers map;
\* the map holds it from then on.
InformerFor(inf, t) == IF inf[t] # None THEN inf[t] ELSE 1

\* What Informer() of an informer and Lister() of its lister refer to.
Informer(inf, t) == InformerFor(inf, t)
Lister(inf, t) == Informer(inf, t)

\* Start runs each requested informer that is not yet started.
Start(f) ==
    /\ Alive /\ f \in starting
    /\ LET new == {t \in Type : FactoryOf[t] = f /\ informers[t] # None /\ ~started[t]}
       IN  /\ running' = running \cup {<<t, informers[t]>> : t \in new}
           /\ started' = [t \in Type |-> started[t] \/ t \in new]
    /\ starting' = starting \ {f}
    /\ UNCHANGED <<program, served, main, informers, wiring, synced, catching,
                   worker, exit>>

\* An informer's first list is made and has gone through to its copy.
Sync(t, n) ==
    /\ Alive /\ <<t, n>> \in running /\ t \in served
    /\ synced' = synced \cup {<<t, n>>}
    /\ UNCHANGED <<program, served, main, factories, wiring, running, catching,
                   worker, exit>>

-----------------------------------------------------------------------------
(* The main goroutine.                                                       *)

\* The configuration is read and the clients are built, or the process ends.
Configure ==
    /\ Alive /\ main = "config"
    /\ \/ main' = "new" /\ UNCHANGED exit
       \/ exit' = "fatal" /\ UNCHANGED main
    /\ UNCHANGED <<program, served, factories, wiring, running, synced, catching,
                   worker>>

\* Mutant: only the informer with a handler is asked for before the start.
NewAsksLate ==
    /\ Alive /\ main = "new"
    /\ informers' = [informers EXCEPT ![Handled[program]] = 1]
    /\ lister' = [t \in Type |-> IF t \in Needed THEN 1 ELSE None]
    /\ handler' = 1
    /\ main' = "start"
    /\ UNCHANGED <<program, served, started, starting, awaited, running, synced,
                   catching, worker, exit>>

\* New: a lister of each type, and then an event handler for one.
New ==
    /\ Alive /\ main = "new"
    /\ LET asked == [t \in Type |-> IF t \in Needed THEN Lister(informers, t)
                                    ELSE informers[t]]
           h == Handled[program]
       IN  /\ lister' = [t \in Type |-> IF t \in Needed THEN asked[t] ELSE None]
           /\ handler' = Informer(asked, h)
           /\ informers' = [asked EXCEPT ![h] = Informer(asked, h)]
    /\ main' = "start"
    /\ UNCHANGED <<program, served, started, starting, awaited, running, synced,
                   catching, worker, exit>>

\* go factory.Start(stopCh), for each factory.
GoStart ==
    /\ Alive /\ main = "start"
    /\ starting' = Factory
    /\ main' = "ask"
    /\ UNCHANGED <<program, served, informers, started, wiring, running, synced,
                   catching, worker, exit>>

\* The arguments of WaitForCacheSync: each informer is asked for once more.
Ask ==
    /\ Alive /\ main = "ask"
    /\ Len(awaited) < Len(Needs[program])
    /\ LET t == Needs[program][Len(awaited) + 1]
       IN  /\ awaited' = Append(awaited, Informer(informers, t))
           /\ informers' = [informers EXCEPT ![t] = Informer(informers, t)]
    /\ UNCHANGED <<program, served, main, started, starting, lister, handler,
                   running, synced, catching, worker, exit>>

WaitForCacheSync ==
    /\ Alive /\ main = "ask"
    /\ Len(awaited) = Len(Needs[program])
    /\ main' = "wait"
    /\ UNCHANGED <<program, served, factories, wiring, running, synced, catching,
                   worker, exit>>

AllSynced ==
    \A i \in DOMAIN awaited : <<Needs[program][i], awaited[i]>> \in synced

\* A poll finds every copy complete, be it the last one after stopCh closed.
CachesSynced ==
    /\ Alive /\ main = "wait" /\ AllSynced
    /\ main' = "go"
    /\ UNCHANGED <<program, served, factories, wiring, running, synced, catching,
                   worker, exit>>

\* Mutant: the result of WaitForCacheSync is not looked at.
NotSyncedGoesOn ==
    /\ Alive /\ main = "wait" /\ stop /\ ~AllSynced
    /\ main' = "go"
    /\ UNCHANGED <<program, served, factories, wiring, running, synced, catching,
                   worker, exit>>

\* Mutant: WaitForCacheSync is not told of stopCh.
NotSyncedWaitsOn == FALSE /\ UNCHANGED vars

\* stopCh closes first: "failed to wait for caches to sync".
NotSynced ==
    /\ Alive /\ main = "wait" /\ stop /\ ~AllSynced
    /\ exit' = "fatal"
    /\ UNCHANGED <<program, served, main, factories, wiring, running, synced,
                   catching, worker>>

\* go c.Run(...), go server.Start(...).
GoWork ==
    /\ Alive /\ main = "go"
    /\ worker' = "spawned"
    /\ main' = "block"
    /\ UNCHANGED <<program, served, factories, wiring, running, synced, catching,
                   exit>>

\* main returns when stopCh is closed, and with it the process ends.
Return ==
    /\ Alive /\ main = "block" /\ stop
    /\ exit' = "ok"
    /\ UNCHANGED <<program, served, main, factories, wiring, running, synced,
                   catching, worker>>

Main ==
    \/ Configure \/ New \/ GoStart \/ Ask \/ WaitForCacheSync
    \/ CachesSynced \/ NotSynced \/ GoWork \/ Return

-----------------------------------------------------------------------------
(* The worker: the controller's Run or the discovery server's Start.         *)

WorkerTo(from, to) ==
    /\ Alive /\ worker = from /\ worker' = to
    /\ UNCHANGED <<program, served, main, factories, wiring, running, synced,
                   catching, exit>>

\* Run starts the workers; Start listens and serves.
Work == WorkerTo("spawned", "works")

\* Run returns when stopCh closes.
RunReturns == program \notin Servers /\ stop /\ WorkerTo("works", "ended")

\* An error of Serve is dropped: Start returns, and main does not know.
ServeFails == program \in Servers /\ WorkerTo("works", "ended")

\* An error of Listen is dropped too, and Serve panics on the nil listener.
ListenFails ==
    /\ Alive /\ program \in Servers /\ worker = "spawned"
    /\ exit' = "panic"
    /\ UNCHANGED <<program, served, main, factories, wiring, running, synced,
                   catching, worker>>

-----------------------------------------------------------------------------

Init ==
    /\ program \in Program /\ served \in SUBSET Type
    /\ main = "flags"
    /\ NewSharedInformerFactory
    /\ lister = [t \in Type |-> None] /\ handler = None /\ awaited = <<>>
    /\ running = {} /\ synced = {}
    /\ caught = 0 /\ watcher = "none" /\ stop = FALSE /\ signals = 0
    /\ worker = "none" /\ exit = "none"

Informers ==
    \/ \E f \in Factory : Start(f)
    \/ \E t \in Type, n \in 1..3 : Sync(t, n)

Next ==
    \/ SetupSignalHandler
    \/ \E s \in Signal : Send(s)
    \/ FirstSignal \/ SecondSignal
    \/ Main \/ Informers
    \/ Work \/ RunReturns \/ ServeFails \/ ListenFails

Spec == Init /\ [][Next]_vars

\* Every goroutine that can run does, and a list that the API server answers
\* gets through in the end.  Nothing is assumed of signals, nor of the errors
\* of a socket.
FairSpec ==
    /\ Spec
    /\ WF_vars(SetupSignalHandler) /\ WF_vars(FirstSignal) /\ WF_vars(SecondSignal)
    /\ WF_vars(Main) /\ WF_vars(Work)
    /\ \A f \in Factory : WF_vars(Start(f))
    /\ \A t \in Type, n \in 1..3 : WF_vars(Sync(t, n))
-----------------------------------------------------------------------------
(* Properties.                                                               *)

TypeOK ==
    /\ program \in Program /\ served \in SUBSET Type
    /\ main \in {"flags", "config", "new", "start", "ask", "wait", "go", "block"}
    /\ informers \in [Type -> Nat] /\ started \in [Type -> BOOLEAN]
    /\ starting \in SUBSET Factory
    /\ lister \in [Type -> Nat] /\ handler \in Nat
    /\ awaited \in Seq(Nat) /\ Len(awaited) <= Len(Needs[program])
    /\ running \in SUBSET (Type \X Nat) /\ synced \in SUBSET running
    /\ caught \in 0..2 /\ watcher \in {"none", "first", "second"}
    /\ stop \in BOOLEAN /\ signals \in 0..MaxSignals
    /\ worker \in {"none", "spawned", "works", "ended"}
    /\ exit \in {"none", "ok", "fatal", "panic", "killed"}

\* No worker reads a copy that is not complete, not even one that starts after
\* a signal came (main: WaitForCacheSync before go Run and go Start): what was
\* waited for is what the listers read, and what calls the handler.
WorksOnCompleteCopies ==
    worker # "none" =>
        /\ \A t \in Needed : <<t, lister[t]>> \in synced
        /\ <<Handled[program], handler>> \in synced

\* main waits for no informer that nobody runs.  The factories start what was
\* asked for when their goroutines ran, and main asks again while they do
\* ("Start initializes all requested informers", factory.go:110).
AwaitedIsStarted ==
    main = "wait" /\ starting = {} =>
        \A i \in DOMAIN awaited : <<Needs[program][i], awaited[i]>> \in running

\* How a process ended tells why: with 0 only when it came up and was asked to
\* stop; with 1 while its worker was there only by a second signal ("If a
\* second signal is caught, the program is terminated with exit code 1",
\* signal.go:30), before that also by a clientset or a copy that failed it.
ExitTellsWhy ==
    /\ exit = "ok" => signals > 0 /\ worker # "none"
    /\ exit = "fatal" /\ signals < 2 => worker = "none"
    /\ exit = "fatal" /\ signals = 0 => main = "config"

\* A process whose types the API server knows comes to work or ends: it does
\* not wait for ever for a copy that no one fills.
ComesUp == Needed \subseteq served ~> worker # "none" \/ ~Alive

\* A process that has caught a signal ends, whatever it is doing: reading its
\* configuration, waiting for copies that will never be complete, working, or
\* blocked with a worker that is gone.
SignalEndsIt == caught > 0 ~> ~Alive
=============================================================================
