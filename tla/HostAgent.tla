------------------------------ MODULE HostAgent ------------------------------
(***************************************************************************)
(* The host agent: internal/agent/agent.go and collector.go, the service   *)
(* program that drives it (cmd/kmagent/main.go: Start, run, Stop) and the  *)
(* enriched file every collector start writes and reads                    *)
(* (internal/shared/config_enricher.go).                                   *)
(*                                                                         *)
(* Threads: the service manager's call of Stop, the goroutine Program.run, *)
(* the goroutine waiting for the WaitGroup in Shutdown, the configuration  *)
(* checker, and one goroutine per call of manageCollectorLifecycle, an     *)
(* element of Lifecycles that also names the collector the call creates.   *)
(* A step is the code between two accesses to shared state.                *)
(*                                                                         *)
(* A configuration is its version: 0 is on disk at the start, the n-th one *)
(* the server delivers is n.                                               *)
(***************************************************************************)
EXTENDS Integers, FiniteSets

CONSTANTS
    Lifecycles,   \* the calls of manageCollectorLifecycle
    First,        \* the one StartAgent launches
    Nobody,       \* a nil collector reference, a free mutex
    MaxUpdates,   \* bound: configurations the server delivers
    MayHang       \* may a collector that closes its components never return?

ASSUME LifecyclesAssumption == First \in Lifecycles /\ Nobody \notin Lifecycles
ASSUME MaxUpdatesAssumption == MaxUpdates \in Nat
ASSUME HangAssumption == MayHang \in BOOLEAN

VARIABLES
    runPc, stopPc,          \* Program.run with StartAgent; Stop with Shutdown
    ctxDone,                \* p.ctx is cancelled
    isRunning, shutdownSignal, wg, collectorMu, collector, collectorError,
    waitCh,                 \* Shutdown's goroutine in wg.Wait and its channel
    checkerPc,              \* runConfigUpdateChecker, performConfigCheck
    taken,                  \* stopCollectorInstance's local, for each caller
    lifePc,                 \* manageCollectorLifecycle
    local,                  \* its locals and those of the calls it makes
    asked,                  \* collectors whose Shutdown() was called
    cfgFile, enriched,      \* OtelConfigPath, km-sugar-coated-config.yaml
    updates,                \* configurations delivered so far
    polling                 \* an update URL and an interval are configured

flags == <<isRunning, shutdownSignal>>
group == <<wg, waitCh>>
reference == <<collectorMu, collector, taken>>
life == <<lifePc, local, asked>>
files == <<cfgFile, enriched, updates>>
vars == <<runPc, stopPc, ctxDone, flags, group, reference, collectorError,
          checkerPc, life, files, polling>>

\* What no step of the service, of the checker, of a lifecycle assigns.
serviceKeeps == <<collectorError, files, polling>>
checkerKeeps == <<runPc, stopPc, ctxDone, flags, waitCh, local, enriched, polling>>
lifeKeeps == <<runPc, stopPc, ctxDone, flags, waitCh, checkerPc, taken, asked,
               cfgFile, updates, polling>>

NoFile == -1   \* the enriched file is absent, or truncated and not yet written
Callers == {"stop", "checker"}
Errors == {"", "error"}
NewLocals == [data |-> NoFile, path |-> "enriched", conf |-> NoFile, err |-> ""]

\* Program.Start has launched run, and nothing else has happened.
Init ==
    /\ runPc = "start" /\ stopPc = "idle" /\ ctxDone = FALSE
    /\ isRunning = FALSE /\ shutdownSignal = FALSE /\ wg = 0 /\ waitCh = "none"
    /\ collectorMu = Nobody /\ collector = Nobody /\ collectorError = ""
    /\ checkerPc = "none" /\ taken = [s \in Callers |-> Nobody]
    /\ lifePc = [g \in Lifecycles |-> "none"] /\ asked = {}
    /\ local = [g \in Lifecycles |-> NewLocals]
    /\ cfgFile = 0 /\ enriched = NoFile /\ updates = 0
    /\ polling \in BOOLEAN
-----------------------------------------------------------------------------
\* Program.run and StartAgent.  run is launched once, so StartAgent's error
\* cannot occur; a failed patch of the configuration file is only logged.

RunGoes(from, to) == runPc = from /\ runPc' = to

StartAgent ==
    /\ RunGoes("start", "detect")
    /\ ~isRunning /\ isRunning' = TRUE
    /\ UNCHANGED <<stopPc, ctxDone, shutdownSignal, group, reference, checkerPc,
                   life, serviceKeeps>>

\* Mutant: wg.Add counts one of the two goroutines.
LaunchCountsOne ==
    /\ RunGoes("detect", "wait")
    /\ wg' = wg + 1 /\ checkerPc' = "begin"
    /\ lifePc' = [lifePc EXCEPT ![First] = "begin"]
    /\ UNCHANGED <<stopPc, ctxDone, flags, waitCh, reference, local, asked,
                   serviceKeeps>>

\* The environment is detected, the file patched: launch both goroutines.
Launch ==
    /\ RunGoes("detect", "wait")
    /\ wg' = wg + 2 /\ checkerPc' = "begin"
    /\ lifePc' = [lifePc EXCEPT ![First] = "begin"]
    /\ UNCHANGED <<stopPc, ctxDone, flags, waitCh, reference, local, asked,
                   serviceKeeps>>

RunReturns ==
    /\ RunGoes("wait", "done")
    /\ ctxDone
    /\ UNCHANGED <<stopPc, ctxDone, flags, group, reference, checkerPc, life,
                   serviceKeeps>>
-----------------------------------------------------------------------------
\* stopCollectorInstance: take the reference under the mutex, then call
\* Shutdown(), which asks the collector to stop and does not wait for it.

\* Mutant: the reference is read and not cleared.
TakeReferenceKeeps(s) ==
    /\ collectorMu = Nobody
    /\ taken' = [taken EXCEPT ![s] = collector]
    /\ UNCHANGED <<collectorMu, collector, life>>

TakeReference(s) ==
    /\ collectorMu = Nobody
    /\ taken' = [taken EXCEPT ![s] = collector] /\ collector' = Nobody
    /\ UNCHANGED <<collectorMu, life>>

AskToStop(s) ==
    /\ asked' = asked \cup ({taken[s]} \ {Nobody})
    /\ taken' = [taken EXCEPT ![s] = Nobody]
    /\ UNCHANGED <<collectorMu, collector, lifePc, local>>
-----------------------------------------------------------------------------
\* Program.Stop and Shutdown.

StopGoes(from, to) == stopPc = from /\ stopPc' = to

Stop ==
    /\ StopGoes("idle", "shutdown")
    /\ ctxDone' = TRUE
    /\ UNCHANGED <<runPc, flags, group, reference, checkerPc, life, serviceKeeps>>

ShutdownBegins ==
    /\ StopGoes("shutdown", "close")
    /\ isRunning /\ isRunning' = FALSE
    /\ UNCHANGED <<runPc, ctxDone, shutdownSignal, group, reference, checkerPc,
                   life, serviceKeeps>>

ShutdownSignals ==
    /\ StopGoes("close", "take")
    /\ shutdownSignal' = TRUE
    /\ UNCHANGED <<runPc, ctxDone, isRunning, group, reference, checkerPc, life,
                   serviceKeeps>>

ShutdownTakes ==
    /\ StopGoes("take", "signal")
    /\ TakeReference("stop")
    /\ UNCHANGED <<runPc, ctxDone, flags, group, checkerPc, serviceKeeps>>

ShutdownAsks ==
    /\ StopGoes("signal", "wait")
    /\ AskToStop("stop")
    /\ waitCh' = "waiting"
    /\ UNCHANGED <<runPc, ctxDone, flags, wg, checkerPc, serviceKeeps>>

WaitGroupWait ==
    /\ waitCh = "waiting" /\ wg = 0
    /\ waitCh' = "closed"
    /\ UNCHANGED <<runPc, stopPc, ctxDone, flags, wg, reference, checkerPc, life,
                   serviceKeeps>>

\* All goroutines are done, or the 30 s are over: the timeout may fire at any time.
WaitIsOver == waitCh \in {"waiting", "closed"}

StopMovesOn ==
    /\ \/ StopGoes("shutdown", "waitRun") /\ ~isRunning   \* nothing to shut down
       \/ StopGoes("wait", "waitRun") /\ WaitIsOver
       \/ StopGoes("waitRun", "returned") /\ runPc = "done"
    /\ UNCHANGED <<runPc, ctxDone, flags, group, reference, checkerPc, life,
                   serviceKeeps>>

Service ==
    \/ StartAgent \/ Launch \/ RunReturns \/ WaitGroupWait \/ ShutdownBegins
    \/ ShutdownSignals \/ ShutdownTakes \/ ShutdownAsks \/ StopMovesOn
-----------------------------------------------------------------------------
\* manageCollectorLifecycle, the call g, and the goroutine around it.

LifeGoes(g, from, to) ==
    lifePc[g] = from /\ lifePc' = [lifePc EXCEPT ![g] = to]

LifecycleBegins(g) ==
    /\ \/ LifeGoes(g, "begin", "return") /\ ~isRunning
       \/ LifeGoes(g, "begin", "read") /\ isRunning
    /\ UNCHANGED <<wg, collectorMu, collector, collectorError, local, enriched,
                   lifeKeeps>>

\* EnrichCollectorConfig detects the environment, reads the configuration...
EnrichReads(g) ==
    /\ LifeGoes(g, "read", "truncate")
    /\ local' = [local EXCEPT ![g].data = cfgFile]
    /\ UNCHANGED <<wg, collectorMu, collector, collectorError, enriched, lifeKeeps>>

\* Mutant: an enriched file that exists is not written again.
EnrichWritesOnce(g) ==
    /\ \/ LifeGoes(g, "truncate", "write") /\ UNCHANGED enriched
       \/ /\ LifeGoes(g, "write", "create")
          /\ enriched' = IF enriched = NoFile THEN local[g].data ELSE enriched
    /\ UNCHANGED <<wg, collectorMu, collector, collectorError, local, lifeKeeps>>

\* ... and writes the merged one over the shared file: truncate, then write.
EnrichWrites(g) ==
    /\ \/ LifeGoes(g, "truncate", "write") /\ enriched' = NoFile
       \/ LifeGoes(g, "write", "create") /\ enriched' = local[g].data
    /\ UNCHANGED <<wg, collectorMu, collector, collectorError, local, lifeKeeps>>

\* It fails, before or while writing: NewCollector takes the original file.
EnrichFails(g) ==
    /\ LifeGoes(g, "read", "create") \/ LifeGoes(g, "write", "create")
    /\ local' = [local EXCEPT ![g].path = "original"]
    /\ UNCHANGED <<wg, collectorMu, collector, collectorError, enriched, lifeKeeps>>

CreateFails(g) ==
    /\ LifeGoes(g, "create", "return")
    /\ local' = [local EXCEPT ![g] = [NewLocals EXCEPT !.err = "error"]]
    /\ UNCHANGED <<wg, collectorMu, collector, collectorError, enriched, lifeKeeps>>

\* The collector exists: lock, look at isRunning again, assign, unlock.
LifecycleLocks(g) ==
    /\ LifeGoes(g, "create", "check")
    /\ collectorMu = Nobody /\ collectorMu' = g
    /\ UNCHANGED <<wg, collector, collectorError, local, enriched, lifeKeeps>>

\* Mutant: the mutex is released between the check and the assignment.
LifecycleChecksUnlocked(g) ==
    /\ \/ LifeGoes(g, "check", "cleanup") /\ ~isRunning
       \/ LifeGoes(g, "check", "assign") /\ isRunning
    /\ collectorMu' = Nobody
    /\ UNCHANGED <<wg, collector, collectorError, local, enriched, lifeKeeps>>

LifecycleChecks(g) ==
    /\ \/ LifeGoes(g, "check", "cleanup") /\ ~isRunning /\ collectorMu' = Nobody
       \/ LifeGoes(g, "check", "assign") /\ isRunning /\ UNCHANGED collectorMu
    /\ UNCHANGED <<wg, collector, collectorError, local, enriched, lifeKeeps>>

LifecycleAssigns(g) ==
    /\ LifeGoes(g, "assign", "load")
    /\ collector' = g /\ collectorMu' = Nobody
    /\ UNCHANGED <<wg, collectorError, local, enriched, lifeKeeps>>

\* collector.Run(ctx) loads the configuration; an empty file is an error.
Source(g) == IF local[g].path = "enriched" THEN enriched ELSE cfgFile

CollectorLoads(g) ==
    /\ LifeGoes(g, "load", "running")
    /\ Source(g) # NoFile
    /\ local' = [local EXCEPT ![g].conf = Source(g)]
    /\ UNCHANGED <<wg, collectorMu, collector, collectorError, enriched, lifeKeeps>>

LoadFails(g) ==
    /\ LifeGoes(g, "load", "exited")
    /\ local' = [local EXCEPT ![g] = [NewLocals EXCEPT !.err = "error"]]
    /\ UNCHANGED <<wg, collectorMu, collector, collectorError, enriched, lifeKeeps>>

\* Mutant: the collector is run with a context that is never cancelled.
MustStopOnlyAsked(g) == g \in asked

\* It leaves its control loop when it was asked to or when ctx is cancelled...
MustStop(g) == g \in asked \/ ctxDone

CollectorStops(g) ==
    /\ LifeGoes(g, "running", "closing") /\ MustStop(g)
    /\ UNCHANGED <<wg, collectorMu, collector, collectorError, local, enriched,
                   lifeKeeps>>

\* ... or on a fatal error of a component.
CollectorDies(g) ==
    /\ LifeGoes(g, "running", "closing")
    /\ UNCHANGED <<wg, collectorMu, collector, collectorError, local, enriched,
                   lifeKeeps>>

\* The components are shut down, with an error or not, and Run returns.
CollectorCloses(g) ==
    /\ LifeGoes(g, "closing", "exited")
    /\ \E e \in Errors : local' = [local EXCEPT ![g] = [NewLocals EXCEPT !.err = e]]
    /\ UNCHANGED <<wg, collectorMu, collector, collectorError, enriched, lifeKeeps>>

\* A component's shutdown never ends, and neither does Run.
CollectorHangs(g) ==
    /\ LifeGoes(g, "closing", "hung")
    /\ MayHang
    /\ UNCHANGED <<wg, collectorMu, collector, collectorError, local, enriched,
                   lifeKeeps>>

External(g) == CollectorDies(g) \/ CollectorCloses(g) \/ CollectorHangs(g)

\* The result is noted, without the mutex...
LifecycleNotes(g) ==
    /\ LifeGoes(g, "exited", "cleanup")
    /\ collectorError' = local[g].err
    /\ UNCHANGED <<wg, collectorMu, collector, local, enriched, lifeKeeps>>

\* Mutant: the reference is cleared whoever it refers to.
LifecycleCleansAll(g) ==
    /\ LifeGoes(g, "cleanup", "return")
    /\ collectorMu = Nobody /\ collector' = Nobody
    /\ UNCHANGED <<wg, collectorMu, collectorError, local, enriched, lifeKeeps>>

\* ... and the deferred function clears the reference if it is still g's.
LifecycleCleans(g) ==
    /\ LifeGoes(g, "cleanup", "return")
    /\ collectorMu = Nobody
    /\ collector' = IF collector = g THEN Nobody ELSE collector
    /\ UNCHANGED <<wg, collectorMu, collectorError, local, enriched, lifeKeeps>>

\* A restart's goroutine notes the result, the first one does not; wg.Done.
LifecycleDone(g) ==
    /\ LifeGoes(g, "return", "done")
    /\ collectorError' = IF g = First THEN collectorError ELSE local[g].err
    /\ wg' = wg - 1 /\ local' = [local EXCEPT ![g] = NewLocals]
    /\ UNCHANGED <<collectorMu, collector, enriched, lifeKeeps>>

Life(g) ==
    \/ LifecycleBegins(g) \/ EnrichReads(g) \/ EnrichWrites(g) \/ EnrichFails(g)
    \/ CreateFails(g) \/ LifecycleLocks(g) \/ LifecycleChecks(g)
    \/ LifecycleAssigns(g) \/ CollectorLoads(g) \/ LoadFails(g)
    \/ CollectorStops(g) \/ LifecycleNotes(g) \/ LifecycleCleans(g)
    \/ LifecycleDone(g)
-----------------------------------------------------------------------------
\* runConfigUpdateChecker and performConfigCheck.

CheckerGoes(from, to) == checkerPc = from /\ checkerPc' = to

\* The status is gathered under the mutex: a collector is there and "Running"...
ReportsRunning == collectorMu = Nobody /\ collector # Nobody

\* ... or there is none, and collectorError is read to be reported with it.
ReportsStopped == collectorMu = Nobody /\ collector = Nobody

\* The first check is made at once, the others when the ticker fires; a poll may
\* fail or bring nothing new.
CheckerMovesOn ==
    /\ \/ CheckerGoes("begin", "status") /\ polling
       \/ CheckerGoes("select", "status")
       \/ CheckerGoes("status", "poll") /\ ReportsRunning
       \/ CheckerGoes("status", "poll") /\ ReportsStopped
       \/ CheckerGoes("poll", "select")
       \/ CheckerGoes("recheck", "select") /\ ~isRunning
       \/ CheckerGoes("recheck", "take") /\ isRunning
    /\ UNCHANGED <<wg, reference, collectorError, lifePc, asked, cfgFile, updates,
                   checkerKeeps>>

\* A configuration arrives with restart_required; a request whose context is
\* cancelled returns none.
ConfigDelivered ==
    /\ CheckerGoes("poll", "update")
    /\ ~ctxDone /\ updates < MaxUpdates /\ updates' = updates + 1
    /\ UNCHANGED <<wg, reference, collectorError, lifePc, asked, cfgFile,
                   checkerKeeps>>

\* A temporary file, the checker's own, is written and renamed over the
\* configuration; either may fail.
UpdateConfig ==
    /\ \/ /\ CheckerGoes("update", "recheck")
          /\ cfgFile' = updates /\ UNCHANGED collectorError
       \/ /\ CheckerGoes("update", "select")
          /\ collectorError' = "error" /\ UNCHANGED cfgFile
    /\ UNCHANGED <<wg, reference, lifePc, asked, updates, checkerKeeps>>

RestartTakes ==
    /\ CheckerGoes("take", "signal")
    /\ TakeReference("checker")
    /\ UNCHANGED <<wg, collectorError, cfgFile, updates, checkerKeeps>>

RestartAsks ==
    /\ CheckerGoes("signal", "spawn")
    /\ AskToStop("checker")
    /\ UNCHANGED <<wg, collectorError, cfgFile, updates, checkerKeeps>>

\* Mutant: the restart's goroutine is not counted.
RestartSpawnsUncounted ==
    /\ CheckerGoes("spawn", "select")
    /\ \E g \in Lifecycles : LifeGoes(g, "none", "begin")
    /\ UNCHANGED <<wg, reference, collectorError, asked, cfgFile, updates, checkerKeeps>>

\* wg.Add(1) and a goroutine that calls manageCollectorLifecycle again.
RestartSpawns ==
    /\ CheckerGoes("spawn", "select")
    /\ wg' = wg + 1
    /\ \E g \in Lifecycles : LifeGoes(g, "none", "begin")
    /\ UNCHANGED <<reference, collectorError, asked, cfgFile, updates, checkerKeeps>>

\* Not configured, or told to stop in the select.
CheckerQuits ==
    /\ \/ CheckerGoes("begin", "done") /\ ~polling
       \/ CheckerGoes("select", "done") /\ (shutdownSignal \/ ctxDone)
    /\ wg' = wg - 1
    /\ UNCHANGED <<reference, collectorError, lifePc, asked, cfgFile, updates,
                   checkerKeeps>>

Checker ==
    \/ CheckerMovesOn \/ ConfigDelivered \/ UpdateConfig \/ RestartTakes
    \/ RestartAsks \/ RestartSpawns
-----------------------------------------------------------------------------
\* Stop has returned: the process may end at any moment from now on.
Ended == stopPc = "returned" /\ UNCHANGED vars

Next ==
    \/ Stop \/ Service \/ Checker \/ CheckerQuits \/ Ended
    \/ \E g \in Lifecycles : Life(g) \/ External(g)

(***************************************************************************)
(* Fairness.  A goroutine that can take a step eventually takes one.  The  *)
(* select of the checker chooses among the ready cases at random, so it    *)
(* does not prefer the ticker for ever.  A collector that closes ends or   *)
(* hangs.  Nothing makes the service manager call Stop.                    *)
(***************************************************************************)
Fairness ==
    /\ WF_vars(Service)
    /\ WF_vars(Checker)
    /\ SF_vars(CheckerQuits)
    /\ \A g \in Lifecycles : WF_vars(Life(g) \/ CollectorCloses(g))

Spec == Init /\ [][Next]_vars /\ Fairness
-----------------------------------------------------------------------------
Contents == -1 .. MaxUpdates
Locals == [data : Contents, path : {"enriched", "original"},
           conf : Contents, err : Errors]

RunPcs == {"start", "detect", "wait", "done"}
StopPcs == {"idle", "shutdown", "close", "take", "signal", "wait", "waitRun",
            "returned"}
CheckerPcs == {"none", "begin", "status", "poll", "update", "recheck", "take",
               "signal", "spawn", "select", "done"}
LifePcs == {"none", "begin", "read", "truncate", "write", "create", "check",
            "assign", "load", "running", "closing", "hung", "exited", "cleanup",
            "return", "done"}

\* Every variable has its type: the values the Go fields and locals can take.
TypeOK ==
    /\ runPc \in RunPcs /\ stopPc \in StopPcs /\ ctxDone \in BOOLEAN
    /\ isRunning \in BOOLEAN /\ shutdownSignal \in BOOLEAN
    /\ wg \in Nat /\ waitCh \in {"none", "waiting", "closed"}
    /\ collectorMu \in Lifecycles \cup {Nobody}
    /\ collector \in Lifecycles \cup {Nobody} /\ collectorError \in Errors
    /\ checkerPc \in CheckerPcs /\ taken \in [Callers -> Lifecycles \cup {Nobody}]
    /\ lifePc \in [Lifecycles -> LifePcs] /\ local \in [Lifecycles -> Locals]
    /\ asked \subseteq Lifecycles
    /\ cfgFile \in 0 .. MaxUpdates /\ enriched \in Contents
    /\ updates \in 0 .. MaxUpdates
    /\ polling \in BOOLEAN

\* The goroutines that wg counts.
LiveLifecycles == {g \in Lifecycles : lifePc[g] \notin {"none", "done"}}
CheckerLive == checkerPc \notin {"none", "done"}

\* The WaitGroup counts exactly the goroutines that have not finished, however
\* restarts and exits interleave: wg.Wait returns neither early nor never.
WaitGroupExact ==
    wg = Cardinality(LiveLifecycles) + (IF CheckerLive THEN 1 ELSE 0)

\* Collectors whose Run is in progress, from its call to its return.
InRun(g) == lifePc[g] \in {"load", "running", "closing", "hung"}

\* Once Shutdown has seen wg.Wait return ("all agent goroutines completed") no
\* collector runs, and none ever will, not even one of a startup that Shutdown
\* overtook or of a restart that was under way.
NoCollectorAfterWait == waitCh = "closed" => \A g \in Lifecycles : ~InRun(g)

\* Once Shutdown has taken the reference, no lifecycle that passed its first
\* isRunning check earlier assigns another collector: none escapes Shutdown.
NoAssignmentAfterStop ==
    shutdownSignal /\ stopPc # "take" => collector = Nobody

\* A collector in Run can still be stopped: Shutdown() was called on it or is
\* about to be by a caller that has taken it, or a.collector refers to it.
NoOrphan ==
    \A g \in Lifecycles : lifePc[g] \in {"load", "running"} =>
        g \in asked \/ collector = g \/ \E s \in Callers : taken[s] = g

\* While the checker is idle and the agent runs, the collector in service runs
\* the configuration on disk: a delivered one has been passed on to it.
RunsCurrentConfig ==
    isRunning /\ checkerPc = "select" =>
        \A g \in Lifecycles :
            collector = g /\ lifePc[g] = "running" => local[g].conf = cfgFile

\* A collector runs the configuration its own lifecycle has read and enriched.
RunsOwnConfig ==
    \A g \in Lifecycles : lifePc[g] = "running" /\ local[g].path = "enriched"
        => local[g].conf = local[g].data

\* A lifecycle, or the goroutine around a restart's, is about to write
\* collectorError, which neither does under the mutex.
WritesError(g) == lifePc[g] = "exited" \/ (lifePc[g] = "return" /\ g # First)

\* When performConfigCheck has found no collector and reads collectorError under
\* the mutex, no goroutine is about to write it without: the read and the write
\* would come in any order, with nothing between them that orders them.
StatusReadIsSafe ==
    checkerPc = "status" /\ ReportsStopped => \A g \in Lifecycles : ~WritesError(g)

\* The agent's collectors as those see them who need not know of goroutines.
HasTaken(s) == {taken[s]} \ {Nobody}
Withdrawn == UNION {HasTaken(s) : s \in Callers}
Over == {g \in Lifecycles : lifePc[g] \in {"exited", "cleanup", "return", "done"}}
ServiceState ==
    CASE waitCh = "closed" -> "ended"
      [] waitCh # "closed" /\ shutdownSignal /\ stopPc # "take" -> "closed"
      [] isRunning -> "up"
      [] stopPc \in {"close", "take"} -> "stopping"
      [] OTHER -> "new"

Supervision == INSTANCE CollectorSupervision WITH
    Collectors <- Lifecycles, MayReplace <- TRUE,
    state <- ServiceState, serving <- collector, running <- {g \in Lifecycles : InRun(g)},
    over <- Over, withdrawn <- Withdrawn, told <- asked

\* The agent supervises its collectors, but for one that may displace another.
Supervises == Supervision!Spec

\* A call of Stop returns, and Shutdown's wait ends as well unless a collector
\* hangs: every goroutine wg counts is told to end, also a lifecycle that starts
\* during the shutdown and a collector nobody refers to.  A hung collector costs
\* Stop its timeout and no more.
StopEnds ==
    stopPc = "shutdown" ~>
        /\ stopPc = "returned"
        /\ waitCh = "waiting" => \E g \in Lifecycles : lifePc[g] = "hung"
=============================================================================
