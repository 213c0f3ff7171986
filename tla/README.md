# KloudMate agent: TLA+ models and proofs

This directory specifies the control of the KloudMate agent (`src/`): the host
agent with its OpenTelemetry collector, the collector's configuration on its way
from the server and the user to the collector, the detection of the cloud
environment, the Kubernetes agent, and the cluster's configuration updater. TLC
model-checks small instances, TLAPS proves the safety properties for every value of
the constants. The specifications are translated
from the code; file and line numbers below refer to `src/`.

## 1. The system

| Component | State it keeps | Operations | Talks to |
|---|---|---|---|
| Host service program, `cmd/kmagent/main.go` | context, WaitGroup of `run` | `Start`, `run`, `Stop` (called by the service manager) | host agent |
| Host agent, `internal/agent` | `isRunning`, `shutdownSignal`, `wg`, `collectorMu`, `collector`, `collectorError` | `StartAgent`, `Shutdown`, `manageCollectorLifecycle`, `stopCollectorInstance`, `UpdateConfig`, `runConfigUpdateChecker`, `performConfigCheck` | collector, server, configuration file |
| Enrichment, `internal/shared/config_enricher.go` | one file in the temporary directory, shared by all calls | `EnrichCollectorConfig` | cloud detection, both agents |
| Host update client, `internal/updater/updater.go` | none | `CheckForUpdates` (`ApplyConfig` is unused) | server |
| Kubernetes agent, `cmd/kubeagent`, `internal/k8sagent` | `Collector`, its context, `collectorMu`, `wg`, `stopCh` | `StartAgent`, `Start`, `Stop`, `startInternalCollector`, `stopInternalCollector`, `AwaitShutdown`, `handleSignals` | collector, kubelet's signals |
| Cluster updater, `cmd/configupdater`, `internal/updater/k8s_updater.go` | none of its own: ConfigMaps, workloads | `performConfigCheck`, `UpdateConfigMap`, two rollouts, `performAPMUpdation` | server, Kubernetes API |
| Cloud detection, `internal/clouddetect` | cached environment under an RWMutex, one per `Detector`; each `Detector` is local to one goroutine | `Detect` (once per `Detector`), one detector per provider; `Reset` is called only by a test | metadata services |
| Configuration patch, `internal/clouddetect/configpatch.go` | the user's configuration file | `PatchCollectorConfig`, `PatchCollectorConfigFile` | both agents, configuration file |
| Settings, logging, version, component factories, packaging | – | straight-line code and tables | – |

What is hard here:

- **Concurrency.** In the host agent up to three kinds of goroutines (lifecycles,
  checker, `Stop`) share a mutex, two flags, a WaitGroup and a file that no lock
  protects; in the Kubernetes agent four threads share a mutex, a WaitGroup and
  two nested waits.
- **Ordering.** `Collector.Shutdown()` does not wait for `Run`; a replaced
  collector's exit overlaps its successor's start. `Stop` can overtake startup.
- **Failure.** Collectors die or hang; a poll, a write, a ConfigMap update, a
  rollout or a patch fails or its answer is lost; the updater restarts. Metadata
  endpoints hang until the deadline is near. The agent is killed while it rewrites
  the user's configuration in place.
- **Persistence.** The patch is applied to a file that was patched before, perhaps
  in another environment, and its own defaults then count as the user's.
- **Others.** Settings, annotations and workloads change under the updater.

What makes each component correct: nothing runs after a completed shutdown, and
shutdown completes; no collector escapes; the collector in service runs the
delivered configuration (host agent). The process ends with its collector and on
a signal (Kubernetes agent). No rollout into half a configuration, no endless
rollouts, instrumentation that converges to the settings (updater). The machine's own
provider within the deadline (detection). A patch that does not pile up and follows
the environment, a merge that keeps what the user has set but for the list of
detectors, a file that holds a whole configuration for its readers (patch,
enrichment).

## 2. The modules

| Module | Models | Role |
|---|---|---|
| `HostAgent` | service program, host agent, enriched file | specification and properties |
| `CollectorSupervision` | what the agent promises about its collectors | abstract specification, implemented by `HostAgent` |
| `HostAgentSettled` | the host agent with an assumption on the server | what holds only under it |
| `HostAgentMC` | small instances | model checking |
| `HostAgent_proofs` | type correctness and three safety properties | TLAPS |
| `HostAgentSupervision_proofs` | the refinement of `CollectorSupervision` | TLAPS |
| `HostAgentSettled_proofs` | no orphan, the right configuration, the strict refinement | TLAPS |
| `CloudEnvironment` | `types.go`: verdicts and recommended detectors | shared by the next two groups |
| `CloudDetector` | `detect.go` and the seven `detect_*.go` | specification and properties |
| `DetectOnce` | the contract of a shared `Detector` | abstract specification, implemented by `CloudDetector` |
| `CloudDetectorMC`, `CloudDetector_proofs` | machines to check; type correctness, the deadline, the refinement | model checking, TLAPS |
| `CollectorConfig` | the patch, the generated block and the merge, on YAML documents | functions |
| `ConfigFile` | `OtelConfigPath`: startup patch, `UpdateConfig`, torn writes, crashes | specification and properties |
| `ConfigStore` | what readers of the file may rely on | abstract specification, implemented by `ConfigFile` |
| `ConfigLoad` | composes `ConfigFile` with `CollectorConfig` | properties of what a collector loads |
| `ConfigFileMC` | configurations and environments to check | model checking |
| `ConfigFile_proofs` | type correctness, no drift, that the patch follows the verdict, the refinement | TLAPS |
| `ConfigLoad_proofs` | the properties of `ConfigLoad`, and that the patch absorbs | TLAPS |
| `KubeAgent` | `cmd/kubeagent`, `internal/k8sagent` | specification, properties; has no constants and needs no MC module |
| `KubeAgent_proofs` | type correctness and two safety properties | TLAPS |
| `KubeUpdater` | `cmd/configupdater`, `k8s_updater.go`, `autoinstrument.go` | specification and properties |
| `KubeUpdaterMC` | lists of applications | model checking |
| `KubeUpdater_proofs` | type correctness, an invariant, an action property | TLAPS |

### HostAgent

Each call of `manageCollectorLifecycle` is an element of `Lifecycles`, which also
names its collector; `First` is the one `StartAgent` launches and the others are
restarts. Program counters (`runPc`, `stopPc`, `checkerPc`, `lifePc`) say where a
goroutine is between two accesses to shared state; each action is the code up to
the next such access, so the interleavings are those of the goroutines. `local`
holds a lifecycle's locals (the bytes it read, which path it uses, the
configuration its collector loaded, the error). The mutex has a holder where it is
held across a shared read (`LifecycleLocks`..`LifecycleAssigns`); sections without
one are a single step. A configuration is its version. The write of the enriched
file is two steps, truncate and write, because another collector may read between
them. The collector is external: it loads a configuration, leaves its loop when its
context is cancelled, when `Shutdown()` was called or when a component fails, and
its `Run` returns after closing the components. Cloud detection only takes time.
`polling` says whether an update URL and an interval are configured. The status that a
check reports has two outcomes: "Running" (`ReportsRunning`), or there is no collector
and `collectorError` is read (`ReportsStopped`); both are one critical section.

`MayHang` lets a collector that is closing its components stay there for ever.

`CollectorSupervision` says the same for those who need not know of goroutines: a
collector enters service once and before the entrance is closed, leaves it by being
withdrawn or after its end, only a withdrawn one is told to stop, and the agent's
report of its end is true. Refinement: `serving` is the reference, `withdrawn` is
what `stopCollectorInstance` has taken and not yet called (`taken`), `told` is
`asked`, `over` the lifecycles past their `Run` or their failure, `running` those in
it, and the `state` is "closed" once `Shutdown` has taken the reference and "ended"
once its wait is over. The mutex, files, WaitGroup and everything before the
assignment stutter. With `MayReplace` one collector may displace another in service:
that is `host_orphan`. `HostAgentSettled` implements it without.

### CloudDetector

In the program a `Detector` is used by the goroutine that has created it, for one
`Detect` (`agent.go:245`, `k8sagent/agent.go:179`, `config_enricher.go:239`), and is
never reset. What matters there is the order of the providers under the deadline. The
module has one `Detector` and any number of goroutines that call its `Detect`, so that
it also says what the RWMutex, the second look at the cache and `Reset` promise: the
contract of the type, which no caller in the program makes use of. `pc` says where a
call is between two accesses to the cache or two requests. Probing holds the write
lock, so a caller that waits for it (`lock`) loses the time the prober spends;
`Passes` says so. Time is counted in the HTTP client's timeouts of 2 s: a context
lasts `Budget` of them, five for the 10 s that every caller in the code allows. `net`
and `signals` are the machine: how each provider's endpoint behaves (`flaky` differs
from request to request) and which environment variables and files are there.
`AsksForToken` and `Asks` are the first questions of a provider, the only ones whose
failure sends the detection on; `AsksOn` stands for the later ones. The read of
`d.cached` after the read lock was released is a step of its own (`Reread`), as
`Reset` may come before it. Refinement: `decision` is the cache, `answer` the results;
probing stutters.

### CollectorConfig, ConfigFile

A configuration is what `yaml.v3` unmarshals: maps of maps, lists, scalars and nulls,
so that the code's type assertions that fail are there too: a processor that is null,
a map where a list belongs. It is written as the function from the path of keys that
leads to a node to that node, a map's being the mark `MapNode`; `IsConfig` says that
every node is at the top or in a map. The recursion of `deepMergeMap` and the
assignments into nested maps are then one operator, `Overlay`: the nodes of the second
configuration over those of the first, where what was below a node that is no map any
more is gone. In `ConfigFile` configurations, `Patch`, `Enrich` and `Cuts` are
parameters and the proofs know of them only the named assumptions, above all that a
patch absorbs an earlier one; `ConfigLoad` says that they are the functions of
`CollectorConfig`, on any documents, and states what a collector then loads.

A write is an open that truncates and a write that may fail or be cut; what remains is
`Empty`, `Broken` or a configuration of the first keys (`Cuts`; maps are marshalled in
order). `pc` is the startup, `update` is `UpdateConfig` in the checker's goroutine,
and `origin` is a history variable: the configuration installed last, as it was
delivered, or `Lost` when a startup has torn it. `Crash` ends the process between any
two steps and within a write. `Loadable` is what `NewCollector` may hand to a
collector: the enrichment's own detector may find any environment, or the enrichment
fails. The goroutines that race for the enriched file are `HostAgent`'s.
Refinement: while the file is rewritten its content is what was read from it, since
nobody else runs by then; `up` is the agent having started.

### KubeAgent

The four threads are `main`, the signal handler's goroutine in `Stop`, the
collector's goroutine and the goroutine that calls `Collector.Shutdown()`. The
collector ignores signals itself (`DisableGracefulShutdown: true`,
`collector_info.go:24`) and its context descends from `context.Background()`.
`starved` says whether a runnable goroutine may be kept from running for the 10 s
of `stopInternalCollector`'s timeout; then the timeout may fire before the call
of `Shutdown()` and the late call panics on a nil reference.

### KubeUpdater

One goroutine; every call of the Kubernetes API is a step. `response` is the
snapshot of the server's answer being carried out, while `apm` and `enabled` are
the settings as they change. An application is its index in `APMSettings`, and
`kind` says what the entry names: `owned` is an entry of kind REPLICASET whose name
is a Deployment's, `foreign` a workload in a language `KmCrdAnnotation` does not
know, `pod` a pod, whose annotation the enabling patch cannot set because it is
written for `spec.template`. `incidents` counts what others do and what goes wrong:
changes of settings, of annotations and of workloads, failing calls, lost answers
(the patch was made, the caller sees an error), restarts. Calls that fail because
the workload is gone or the kind invalid are not incidents: they fail every time.
`rollouts` and `causes` are history variables: template changes the updater made of
an application, and the reasons there were (enabled at first, then each change).
A rollout request may be lost (`TriggerRollout` leaves `rolling` as it is).

## 3. The runs

| Run | Instance | Result |
|---|---|---|
| `host_interleavings` | 2 lifecycles, 1 configuration, collectors that may hang; 398 000 states | `TypeOK`, `WaitGroupExact`, `NoCollectorAfterWait`, `NoAssignmentAfterStop`, `Supervises`, `StopEnds` hold |
| `host_settled` | 3 lifecycles, 2 configurations, settled server; 1.5 million states | `NoOrphan`, `RunsCurrentConfig`, `RunsOwnConfig`, `SupervisesStrictly` hold |
| `host_orphan` | 2 lifecycles | `NoOrphan` is violated |
| `host_own_config` | 2 lifecycles | `RunsOwnConfig` is violated |
| `host_status_race` | 2 lifecycles | `StatusReadIsSafe` is violated |
| `kube_interleavings` | all behaviours; 139 states | `TypeOK`, `ExitIsClean`, `ShutdownHasReceiver`, `EndsWithCollector` hold |
| `kube_signal` | all behaviours | `SignalEnds` is violated |
| `updater_incidents` | 3 applications of mixed kinds, 1 configuration, 2 incidents; 1 million states | `TypeOK`, `RolloutsHaveCauses`, `RolloutIsWhole`, `Converges` hold |
| `cloud_detector` | 7 providers, the real deadline, cancellations; for the contract 2 calls and 1 `Reset`; 734 000 states | `TypeOK`, `EarliestFound`, `CallsReturn`, `DecidesOnce` hold |
| `config_file` | 3 installed and 2 delivered configurations, 6 environments, 2 deliveries, any number of crashes; 212 000 states | `TypeOK`, `NoDrift`, `FollowsVerdict`, `IsRegister`, `SettingsSurvive`, `DetectorsConfigured`, `ProcessorDefined` hold |
| `config_timeout` | same | `CloudTimeout` is violated |
| `updater_removal` | 2 workloads, 2 incidents | `RemovalHappens` is violated |

**Bounds.** Two lifecycles are enough for every pair of collectors to overlap in
every way, together with `Stop`; the third adds a restart that finds an old
collector still closing and another one already closed. `MaxUpdates` equals the
number of restarts, since a restart needs a delivery. Three applications place an
entry that cannot be carried out behind two that can; two incidents combine a
change with a failure or a restart at any two moments. Two calls of `Detect` are one
that probes and one that waits or finds the cache filled; `Reset` is called once,
before, between or after them. The machines (`SomeNets`) are in no cloud, in one
behind few and in one behind many other providers, with none, some or all of the
others hanging, so that the deadline is met and missed. The configurations are
those of `configs/`, one with settings of the user's own in every place the patch
and the merge write to, and one with entries of the wrong type; two deliveries let a
temporary file that was left behind meet a later one. The environments take each
way through the two tables of detectors. The proofs have none of these bounds.

**Assumption of `host_settled`.** `SettledServer` forbids a delivery while a
lifecycle has not loaded its configuration. It is an assumption on the environment,
not on the code: a server that leaves a restart some time before it asks for the next
meets it. The violations `host_orphan` and `host_own_config` show that the code needs
it.

**Deadlock** is checked in every run. A process that ends stutters in `Ended`; the
host agent's `Stop` need never be called and then the checker polls for ever.

**Fairness.** A goroutine that can take a step eventually takes one (the Go
scheduler). In `HostAgent` the `select` of the checker is strongly fair towards
`shutdownSignal` and `ctx.Done()`: Go chooses among ready cases at random. A
collector that is closing ends or, with `MayHang`, hangs; then the only thing `Stop`
can count on is its timeout. In `CloudDetector` each caller is scheduled, requests
end because the client has a timeout, and the mutex goes to a waiting caller as
there are finitely many steps that could keep it away. `ConfigFile` has safety
properties only and no fairness. No fairness makes a service
manager call `Stop`, a signal arrive, a collector fail or a server deliver. In
`KubeUpdater` the loop goes on and requested rollouts are carried out; calls need
no fairness because failures are bounded incidents, except those that are
permanent.

## 4. What the checks show

What holds: the WaitGroup counts exactly the unfinished goroutines however restarts
and exits interleave, also when the checker adds to it while `Shutdown` waits; once
`Shutdown` has seen it drop to zero no collector runs or will run; the second look at
`isRunning` under the mutex closes the window in which a collector could be assigned
after `Shutdown` took the reference; `Stop` returns, and needs its timeout only for a
collector that hangs. Detection finds the machine's own provider unless five hanging
endpoints come before it (and would give one verdict to callers that shared a
`Detector`). Patches do not pile up over restarts in changing environments, the first
one that succeeds replaces the verdict of an earlier run, an interrupted update is
never seen, and what the user sets reaches the collector, but for the list of
detectors: the patch replaces that (`configpatch.go:70`), and `MayDiffer` also excepts
a processor or a map of processors that is no map. The eight detectors for which
`config_enricher.go` has settings get them when they are listed, if the file is
patched for the environment that the enrichment finds; `vultr`, `docker`, `consul` and
others are listed and have no settings. The Kubernetes agent never returns from `main`
under a collector and does not deadlock. The updater does not roll applications out
again and again.

What does not hold (findings in `PROJECT.json`):

1. **A collector nobody can stop** (`host_orphan`). The checker's first check runs
   at once, while the first lifecycle still detects the environment. If the server
   asks for a restart, `stopCollectorInstance` finds no collector; then both the
   first and the restarted lifecycle assign and run theirs. Only the context
   cancelled by `Program.Stop` ends the loser.
2. **The configuration of another lifecycle** (`host_own_config`): the enriched
   file is shared.
3. **`collectorError` is not protected** (`host_status_race`). When `a.collector` is nil,
   the checker reads it under the mutex, "safe to read now". A collector that was taken
   out of service (by `Shutdown` in the trace, or by a restart) returns from `Run` and
   writes it without the mutex (`agent.go:163`, `166`); so does the goroutine of a restart
   after its cleanup has released the mutex (`313`, `316`). Nothing orders the two. While
   the reference is still set there is no read, and the cleanup's lock then orders the
   write before later ones: `StatusReadIsSafe` does not count those states.
4. **A signal does not end the Kubernetes agent** (`kube_signal`): `Stop` waits for
   the collector's goroutine before it tells the collector to stop.
5. **Removals are never reached** (`updater_removal`) while an enabled entry fails
   for good.
6. **The cloud timeout gives way to the patch's** (`config_timeout`). Where the user's file
   has no `resourcedetection` processor, the patch creates one with its default of 5 s, and
   in the merge the file prevails over the 10 s that `pickTimeout` gives in a cloud. Where
   the file has the processor without a timeout, the 10 s take effect.

More that the models contain without a run of their own: a signal that arrives
before the Kubernetes collector is created is lost, since `stopInternalCollector`
finds nothing and the collector starts afterwards; a pod is never instrumented; a
configuration torn by a crash of the startup's in-place write may not parse, and
then no later start succeeds (`StartFails`).

## 5. What is proved

The proofs assume only the named assumptions of the modules (`First` is a
lifecycle, `Nobody` is not; bounds are natural numbers; there is an application and
the kinds are known kinds; no environment is `None`; patching and cutting a
configuration gives one; a patch absorbs an earlier one, in `ConfigFile` an
assumption and in `ConfigLoad_proofs` a theorem). All but the last group are by an
inductive invariant with `Init => IInv` and `IInv /\ [Next]_vars => IInv'`.

- **`HostAgent_proofs`**: `TypeCorrect`, `WaitGroupCounts`, `CleanShutdown`,
  `NothingEscapesShutdown`. `WaitGroupExact` speaks of the cardinality of the set of
  live lifecycles; lemmas `LiveJoins`, `LiveLeaves` and `LiveStays` say how a step
  changes it, using finiteness of the live set, which is part of `IInv` (the set of
  all lifecycles may be infinite). `NoCollectorAfterWait` is not inductive: that no
  goroutine joins after the wait needs that restarts are spawned by a live, counted
  checker and that `isRunning` is false by then, and a startup that `Shutdown`
  overtook is excluded because `ShutdownBegins` needs `isRunning`, or its lifecycles
  see the flag. `NoAssignmentAfterStop` needs who holds the mutex where, and that a
  lifecycle between check and assignment keeps `ShutdownTakes` out.
- **`HostAgentSupervision_proofs`**: `AgentSupervises`, for any number of restarts:
  each step of a goroutine is a step of `CollectorSupervision` or a stutter. Beyond the
  invariant of `HostAgent_proofs` this needs that a reference, held or taken, is one of
  a lifecycle past its assignment, and that whoever took it is the only one to have it
  (`ReferenceInv`), until `Shutdown()` was called on it (`TakerInv`).
- **`HostAgentSettled_proofs`**: `NoneIsLost`, `DeliveredRuns`, `OwnRuns`,
  `AgentSupervisesStrictly`, under `SettledServer`. `StartInv` says that one lifecycle
  starts at a time, none while the checker carries out an answer, and that until it
  assigns its collector the reference is empty; so the enriched file has one writer and
  what the starting lifecycle has read and written is what is on disk (`ReadInv`), and
  the collector in service runs that, or is about to be replaced (`ServesInv`).
- **`CloudDetector_proofs`**: `TypeCorrect`, `ProviderFound`, `OneVerdict`, for any
  number of callers, any deadline and any machine. `EarliestFound` becomes inductive
  by bounding the time a prober has spent: no more than it waited plus one timeout
  for each slow endpoint behind it (`TimeInv`), so that at its own endpoint there is
  time left and the request is answered (`PassInv`). `LockInv` (who holds the mutex
  found the cache empty) and `RaceInv` (a filled cache that is empty again was
  reset) make each step one of `DetectOnce` or a stutter.
- **`ConfigFile_proofs`**: `TypeCorrect`, `PatchesDoNotPileUp`, `VerdictIsReplaced`,
  `FileIsRegister`, for any configurations, environments and patch function that
  absorbs. `DriftInv` says that the content is the origin or one patch of it, also
  while the file is empty under the pen; `UpdateInv` that what is renamed is whole.
  That a patch of any version of the origin is the origin patched for the new
  environment (`VersionsPatch`) gives the action property `FollowsVerdict` and the
  refinement.
- **`ConfigLoad_proofs`**: `SettingsAreKept`, `ProcessorIsDefined`,
  `DetectorsAreConfigured` and `PatchAbsorbs`, for any configurations and cuts and any
  environments detection may give. They follow from `TypeOK` and `NoDrift` (the file is
  the installed configuration or one patch of it) and from what the functions do at
  every path, of which the lemmas speak: `OverlayAt` says what an overlay holds,
  `WithProcessorAt`, `ProcessorPatched` and `PipelinesPatched` where the parts of a
  patch leave a configuration alone, `PatchKeeps` that of the whole, `Merged` that the
  merge keeps the file. `DetectorTables` goes through the platforms and compares the
  list of `types.go` with the settings of `config_enricher.go`. `PatchAbsorbs`, which
  is the comment of `configpatch.go:14`, needs that overlays of the same list replace
  each other and that those of disjoint places commute (`OverlaySame`, `OverlaySwap`),
  and that a second look finds no pipeline without the processor (`NoneLacking`). It
  is `AbsorbAssumption` for the patch of the code, so that the proofs about
  `ConfigFile` rest on no property of the patch that is not proved.
- **`KubeAgent_proofs`**: `TypeCorrect`, `ExitAfterRun`, `ReceiverExists`. The
  invariant says who holds the mutex, what `wg` counts, and that the reference is
  set only while the collector's goroutine has not cleared it.
- **`KubeUpdater_proofs`**: `TypeCorrect`, `NoEndlessRollouts`, `WholeRollouts`.
  `RolloutsHaveCauses` becomes inductive by counting the rollouts still *due*: one
  if the response being carried out differs from the annotation or a patch is under
  way, one more if the settings differ from the response. A patch pays a due
  rollout, a poll turns the second kind into the first, and only others add causes.

Left to TLC: the liveness properties `StopEnds`, `CallsReturn`, `EndsWithCollector` and
`Converges`, which are out of the prover's reach, and everything violated. That a
patched configuration is again one of maps (`IsConfig`) is an assumption on `Configs`,
which TLC evaluates; the provers do not know that a literal string is in `STRING`.

## 6. What is not modelled, and the plan

Not modelled for good: logging, version, component factories, packaging and
scripts, command lines, default paths, the formatting of requests, and the regions,
identifiers and attributes detection collects (no control a property could be
about). The collector, the metadata services, the update server, the Kubernetes API
and the kubelet are external and modelled as the code uses them. A power failure,
which could lose a write that returned, is not modelled: neither write is synced, and
what remains depends on the file system.

Planned: a composition of `HostAgent` with `ConfigFile`, in which a restart reads the
file while a delivery replaces it, with crashes. Today `HostAgent` has the file as a
version that changes in one step, which `FileIsRegister` justifies for its readers,
and `ConfigFile` has one reader at any moment.
