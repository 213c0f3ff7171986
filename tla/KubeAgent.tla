------------------------------ MODULE KubeAgent ------------------------------
(***************************************************************************)
(* The Kubernetes agent: cmd/kubeagent/main.go (main, handleSignals) and   *)
(* internal/k8sagent (StartAgent, Start, Stop, startInternalCollector,     *)
(* stopInternalCollector).                                                 *)
(*                                                                         *)
(* Threads: main, the goroutine of handleSignals, the collector's          *)
(* goroutine, and the one that calls Collector.Shutdown() on behalf of     *)
(* stopInternalCollector.  The collector is started once; the kubelet's    *)
(* SIGKILL is not modelled.  When main returns, every thread ends.         *)
(***************************************************************************)
EXTENDS Naturals

VARIABLES
    mainPc,         \* main, in StartAgent, startInternalCollector, Await
    sigPc,          \* handleSignals' goroutine, in Stop
    colPc,          \* the collector's goroutine
    closerPc,       \* the goroutine that calls Collector.Shutdown()
    collectorMu,    \* the holder of the mutex
    wg,             \* the WaitGroup's counter
    Collector,      \* a.Collector # nil
    cancelled,      \* collectorCtx is cancelled
    asked,          \* the collector's Shutdown() was called
    stopCh,         \* a.stopCh is closed
    starved         \* may a runnable goroutine be kept from running for 10 s?

threads == <<mainPc, sigPc, colPc, closerPc>>
agent == <<collectorMu, wg, Collector, cancelled, asked, stopCh>>
vars == <<threads, agent, starved>>

\* NewK8sAgent and handleSignals have returned.
Init ==
    /\ mainPc = "detect" /\ sigPc = "listen" /\ colPc = "none" /\ closerPc = "none"
    /\ collectorMu = "free" /\ wg = 0 /\ Collector = FALSE
    /\ cancelled = FALSE /\ asked = FALSE /\ stopCh = FALSE
    /\ starved \in BOOLEAN

Lock(t) == collectorMu = "free" /\ collectorMu' = t
Unlock == collectorMu' = "free"

\* What the process does, it does before main returns or a goroutine panics.
Alive == mainPc \notin {"exit", "panic"}
-----------------------------------------------------------------------------
\* main: StartAgent detects the environment, patches the file, and starts the
\* collector under the mutex; its failure is only logged.

MainGoes(from, to) ==
    mainPc = from /\ mainPc' = to /\ UNCHANGED <<sigPc, closerPc, stopCh, starved>>

StartLocks ==
    /\ MainGoes("detect", "create")
    /\ Lock("main")
    /\ UNCHANGED <<colPc, wg, Collector, cancelled, asked>>

\* NewCollector returns an error: the context is cancelled.
StartFails ==
    /\ MainGoes("create", "await")
    /\ cancelled' = TRUE /\ Unlock
    /\ UNCHANGED <<colPc, wg, Collector, asked>>

\* Mutant: the goroutine is launched but not counted.
StartSpawnsUncounted ==
    /\ MainGoes("create", "started")
    /\ Collector' = TRUE /\ colPc' = "running"
    /\ UNCHANGED <<collectorMu, wg, cancelled, asked>>

StartSpawns ==
    /\ MainGoes("create", "started")
    /\ Collector' = TRUE /\ wg' = wg + 1 /\ colPc' = "running"
    /\ UNCHANGED <<collectorMu, cancelled, asked>>

StartReturns ==
    /\ MainGoes("started", "await")
    /\ Unlock
    /\ UNCHANGED <<colPc, wg, Collector, cancelled, asked>>

\* AwaitShutdown, and main returns.
MainReturns ==
    /\ MainGoes("await", "exit")
    /\ wg = 0
    /\ UNCHANGED <<colPc, collectorMu, wg, Collector, cancelled, asked>>
-----------------------------------------------------------------------------
\* The collector's goroutine.  collectorCtx descends from the background
\* context and the collector handles no signals itself: only collectorCancel
\* and Shutdown() end it from outside.

ColGoes(from, to) ==
    /\ Alive /\ colPc = from /\ colPc' = to
    /\ UNCHANGED <<mainPc, sigPc, closerPc, starved>>

CollectorStops ==
    /\ ColGoes("running", "closing")
    /\ asked \/ cancelled
    /\ UNCHANGED agent

\* The configuration cannot be loaded, or a component fails fatally.
CollectorDies ==
    /\ ColGoes("running", "closing")
    /\ UNCHANGED agent

CollectorCloses ==
    /\ ColGoes("closing", "exited")
    /\ UNCHANGED agent

\* Mutant: the reference is cleared without the mutex.
CollectorClearsUnlocked ==
    /\ ColGoes("exited", "cleared")
    /\ Collector' = FALSE
    /\ UNCHANGED <<collectorMu, wg, cancelled, asked, stopCh>>

\* Run has returned: clear the reference under the mutex.
CollectorClears ==
    /\ ColGoes("exited", "cleared")
    /\ collectorMu = "free" /\ Collector' = FALSE
    /\ UNCHANGED <<collectorMu, wg, cancelled, asked, stopCh>>

CollectorDone ==
    /\ ColGoes("cleared", "done")
    /\ wg' = wg - 1
    /\ UNCHANGED <<collectorMu, Collector, cancelled, asked, stopCh>>
-----------------------------------------------------------------------------
\* handleSignals takes one signal: cancel main's context, then Stop.

SigGoes(from, to) ==
    /\ Alive /\ sigPc = from /\ sigPc' = to
    /\ UNCHANGED <<mainPc, colPc, starved>>

\* cancelFunc() only hurries the detection; Stop closes stopCh.
Signal ==
    /\ SigGoes("listen", "wait")
    /\ stopCh' = TRUE
    /\ UNCHANGED <<closerPc, collectorMu, wg, Collector, cancelled, asked>>

StopWaits ==
    /\ SigGoes("wait", "lock")
    /\ wg = 0
    /\ UNCHANGED <<closerPc, agent>>

\* stopInternalCollector, under the mutex from here on.
StopFindsNone ==
    /\ SigGoes("lock", "done")
    /\ collectorMu = "free" /\ ~Collector
    /\ UNCHANGED <<closerPc, agent>>

StopCancels ==
    /\ SigGoes("lock", "select")
    /\ Lock("stop") /\ Collector
    /\ cancelled' = TRUE /\ closerPc' = "call"
    /\ UNCHANGED <<wg, Collector, asked, stopCh>>

\* Mutant: the select waits until the collector's goroutine is done.
StopIsAnsweredByRun == colPc = "done"

\* Shutdown() has returned, or the timeout fires.
StopIsAnswered == closerPc = "done" \/ starved

StopClears ==
    /\ SigGoes("select", "done")
    /\ StopIsAnswered
    /\ Collector' = FALSE /\ Unlock
    /\ UNCHANGED <<closerPc, wg, cancelled, asked, stopCh>>

\* The goroutine reads a.Collector and calls Shutdown(), which does not wait;
\* on a nil reference that is a panic.
CloserCalls ==
    /\ Alive /\ closerPc = "call" /\ closerPc' = "done"
    /\ \/ Collector /\ asked' = TRUE /\ UNCHANGED mainPc
       \/ ~Collector /\ mainPc' = "panic" /\ UNCHANGED asked
    /\ UNCHANGED <<sigPc, colPc, collectorMu, wg, Collector, cancelled, stopCh,
                   starved>>
-----------------------------------------------------------------------------
Main == StartLocks \/ StartSpawns \/ StartReturns \/ MainReturns
Run == CollectorStops \/ CollectorCloses \/ CollectorClears \/ CollectorDone
Stop == StopWaits \/ StopFindsNone \/ StopCancels \/ StopClears

Ended == ~Alive /\ UNCHANGED vars

Next ==
    \/ Main \/ StartFails \/ Run \/ CollectorDies \/ Signal \/ Stop \/ CloserCalls
    \/ Ended

(***************************************************************************)
(* Fairness.  A thread that can take a step eventually takes one, and a    *)
(* collector that is told to stop closes its components in the end.  No    *)
(* collector has to fail and no signal has to come.                        *)
(***************************************************************************)
Fairness ==
    /\ WF_vars(Main)
    /\ WF_vars(Run)
    /\ WF_vars(Stop)
    /\ WF_vars(CloserCalls)

Spec == Init /\ [][Next]_vars /\ Fairness
-----------------------------------------------------------------------------
\* Every variable has its type: the states of the threads and Go's fields.
TypeOK ==
    /\ mainPc \in {"detect", "create", "started", "await", "exit", "panic"}
    /\ sigPc \in {"listen", "wait", "lock", "select", "done"}
    /\ colPc \in {"none", "running", "closing", "exited", "cleared", "done"}
    /\ closerPc \in {"none", "call", "done"}
    /\ collectorMu \in {"free", "main", "stop"} /\ wg \in {0, 1}
    /\ Collector \in BOOLEAN /\ cancelled \in BOOLEAN /\ asked \in BOOLEAN
    /\ stopCh \in BOOLEAN /\ starved \in BOOLEAN

\* main never returns under a collector: when AwaitShutdown lets it go, also
\* while Stop is under way, Run has returned and the reference is cleared.
ExitIsClean == mainPc = "exit" => colPc \in {"none", "done"} /\ ~Collector

\* stopInternalCollector's goroutine reads a.Collector after the caller has
\* tested it: as long as the call is not starved for the whole timeout, no
\* other thread clears the reference in between, and Shutdown() has a receiver.
ShutdownHasReceiver == closerPc = "call" /\ ~starved => Collector

\* When the collector's Run returns or Shutdown() is called on it, or when none
\* could be created, the process ends: the mutex, the WaitGroup and Stop's
\* select never wait for one another in a circle.
EndsWithCollector ==
    asked \/ colPc = "exited" \/ (mainPc = "await" /\ colPc = "none") ~> ~Alive

\* "handleSignals sets up a signal handler to gracefully shut down the agent":
\* a signal ends the process.
SignalEnds == sigPc = "wait" ~> ~Alive
=============================================================================
