----------------------------- MODULE KubeUpdater -----------------------------
(***************************************************************************)
(* The cluster's configuration updater: cmd/configupdater/main.go and      *)
(* internal/updater/k8s_updater.go.  One goroutine polls the server,       *)
(* writes the two ConfigMaps, requests the two rollouts, and brings the    *)
(* instrumentation annotations of the applications in line with the        *)
(* settings.  Around it the server changes its mind, users edit and delete *)
(* workloads, pods restart, calls fail, and the updater itself restarts:   *)
(* incidents, of which a behaviour has MaxIncidents at most.               *)
(*                                                                         *)
(* A configuration is its version; an application is its place in          *)
(* APMSettings; of its annotations only "the one KmCrdAnnotation returns   *)
(* is there" matters.  Each call of the Kubernetes API is a step.          *)
(***************************************************************************)
EXTENDS Naturals

CONSTANTS
    NumApps,      \* the length of APMSettings; an empty one asks for nothing
    Clusters,     \* what kinds of workload the entries may name
    MaxConfigs,   \* bound: configurations the server delivers
    MaxIncidents  \* bound: changes by others, failures, restarts

Apps == 1 .. NumApps

(***************************************************************************)
(* "workload": a DAEMONSET, DEPLOYMENT, STATEFULSET or REPLICASET; "owned":*)
(* an entry of kind REPLICASET that names a Deployment; "foreign": a       *)
(* workload in a language KmCrdAnnotation does not know, for which it      *)
(* returns no annotation; "pod"; "invalid": any other kind.                *)
(***************************************************************************)
Kinds == {"workload", "owned", "foreign", "pod", "invalid"}

ASSUME AppsAssumption == NumApps \in Nat \ {0} /\ Clusters \subseteq [Apps -> Kinds]
ASSUME BoundsAssumption == MaxConfigs \in Nat /\ MaxIncidents \in Nat

VARIABLES
    pc, app,          \* the goroutine and its place in APMSettings
    response,         \* the server's answer that is being carried out
    configs,          \* configurations the server has delivered
    apm, enabled,     \* the server's apm_enabled and APMSettings
    maps,             \* what the ConfigMap of each agent holds
    rolling, pods,    \* agents whose rollout is requested; what their pods run
    exists, annotated,\* the workloads, and those that carry the annotation
    rollouts, causes, \* template changes by the updater; reasons for them
    incidents,        \* changes by others, failures and restarts so far
    kind              \* what kind of workload each entry names

server == <<configs, apm, enabled>>
agents == <<maps, rolling, pods>>
workloads == <<exists, annotated, rollouts, causes, kind>>
vars == <<pc, app, response, server, agents, workloads, incidents>>

Agents == {"daemonset", "deployment"}
NoConfig == 0

Init ==
    /\ pc = "poll" /\ app = 1
    /\ response = [config |-> NoConfig, apm |-> FALSE, enabled |-> [a \in Apps |-> FALSE]]
    /\ configs = 0 /\ apm \in BOOLEAN /\ enabled \in [Apps -> BOOLEAN]
    /\ maps = [g \in Agents |-> NoConfig] /\ pods = maps /\ rolling = {}
    /\ exists = [a \in Apps |-> TRUE] /\ annotated = [a \in Apps |-> FALSE]
    /\ rollouts = [a \in Apps |-> 0]
    /\ causes = [a \in Apps |-> IF enabled[a] THEN 1 ELSE 0]
    /\ incidents = 0
    /\ kind \in Clusters

Goes(from, to) == pc = from /\ pc' = to

Incident == incidents < MaxIncidents /\ incidents' = incidents + 1
-----------------------------------------------------------------------------
\* StartConfigUpdateChecker: a check at once and whenever the ticker fires.
\* Nothing closes StopCh (nil) or cancels the context.

Tick ==
    /\ Goes("select", "poll")
    /\ UNCHANGED <<app, response, server, agents, workloads, incidents>>

\* Mutant: an answer without a configuration leaves the last response as it is.
PollKeeps ==
    /\ \/ Goes("poll", "daemonset") /\ configs < MaxConfigs
          /\ configs' = configs + 1
          /\ response' = [config |-> configs', apm |-> apm, enabled |-> enabled]
       \/ Goes("poll", "enable") /\ UNCHANGED <<configs, response>>
    /\ app' = 1
    /\ UNCHANGED <<apm, enabled, agents, workloads, incidents>>

\* CheckForUpdatesK8s, answered with or without two configurations to restart
\* for; the settings are a snapshot.
Poll ==
    /\ \/ Goes("poll", "daemonset") /\ configs < MaxConfigs /\ configs' = configs + 1
       \/ Goes("poll", "enable") /\ UNCHANGED configs
    /\ response' = [config |-> configs', apm |-> apm, enabled |-> enabled]
    /\ app' = 1
    /\ UNCHANGED <<apm, enabled, agents, workloads, incidents>>

\* An error of the poll or of UpdateConfigMap ends the check; an update whose
\* answer is lost has been made all the same.
CheckFails ==
    /\ Incident
    /\ \/ Goes("poll", "select") /\ UNCHANGED maps
       \/ \E g \in Agents :
            /\ Goes(g, "select")
            /\ maps' \in {maps, [maps EXCEPT ![g] = response.config]}
    /\ UNCHANGED <<app, response, server, rolling, pods, workloads>>
-----------------------------------------------------------------------------
\* UpdateConfigMap, first the DaemonSet's ConfigMap, then the Deployment's.

\* Mutant: an error of the second update is logged, not returned.
UpdateConfigMapLogs ==
    /\ \/ Goes("daemonset", "deployment")
          /\ maps' = [maps EXCEPT !["daemonset"] = response.config]
       \/ Goes("deployment", "rollDaemonset")
          /\ \/ maps' = [maps EXCEPT !["deployment"] = response.config]
             \/ UNCHANGED maps
    /\ UNCHANGED <<app, response, server, rolling, pods, workloads, incidents>>

UpdateConfigMap ==
    /\ \E g \in Agents :
        /\ \/ Goes("daemonset", "deployment") /\ g = "daemonset"
           \/ Goes("deployment", "rollDaemonset") /\ g = "deployment"
        /\ maps' = [maps EXCEPT ![g] = response.config]
    /\ UNCHANGED <<app, response, server, rolling, pods, workloads, incidents>>

\* triggerDaemonSetRollout, triggerDeploymentRollout: get and patch; an error
\* is logged and the check goes on.
TriggerRollout ==
    /\ \E g \in Agents :
        /\ \/ Goes("rollDaemonset", "rollDeployment") /\ g = "daemonset"
           \/ Goes("rollDeployment", "enable") /\ g = "deployment"
        /\ rolling' \in {rolling, rolling \cup {g}}
    /\ UNCHANGED <<app, response, server, maps, pods, workloads, incidents>>

\* The cluster replaces an agent's pods, for a rollout or on its own account:
\* they read the ConfigMap when they start.
PodsRestart(g) ==
    /\ pods[g] # maps[g] \/ g \in rolling
    /\ pods' = [pods EXCEPT ![g] = maps[g]] /\ rolling' = rolling \ {g}
    /\ UNCHANGED <<pc, app, response, server, maps, workloads, incidents>>
-----------------------------------------------------------------------------
(***************************************************************************)
(* performAPMUpdation: a pass over the enabled entries, which an error     *)
(* ends, and a pass over the disabled ones, which goes on after an error.  *)
(* Each entry's workload is read, then patched if need be.                 *)
(***************************************************************************)
On == response.enabled[app]

\* Mutant: the loop takes one entry too many.
LastButOne == app > NumApps

Last == app = NumApps

\* To the next entry, to the second pass after the last one, or to the end.
NextApp ==
    /\ app' = IF Last THEN 1 ELSE app + 1
    /\ pc' = IF pc \in {"enable", "annotate"}
               THEN IF Last THEN "disable" ELSE "enable"
               ELSE IF Last THEN "select" ELSE "disable"

PassEnds == pc' = "select" /\ UNCHANGED app

\* APM is off, or an entry is none of this pass's.
SkipApp ==
    /\ \/ pc = "enable" /\ ~response.apm /\ PassEnds
       \/ pc = "enable" /\ response.apm /\ ~On /\ NextApp
       \/ pc = "disable" /\ On /\ NextApp
    /\ UNCHANGED <<response, server, agents, workloads, incidents>>

\* Mutant: the annotation is never found to be the same.
IsAnnotationSameNever(a) == FALSE

\* isAnnotationSame: every annotation KmCrdAnnotation returned is there.
IsAnnotationSame(a) == annotated[a] \/ kind[a] = "foreign"

\* hasAnyAnnotation: one of them is.
HasAnyAnnotation(a) == annotated[a] /\ kind[a] # "foreign"

\* The workload is read and needs a patch, or does not.
GetApp ==
    /\ exists[app] /\ kind[app] # "invalid"
    /\ \/ pc = "enable" /\ response.apm /\ On
          /\ IF IsAnnotationSame(app) THEN NextApp ELSE pc' = "annotate" /\ UNCHANGED app
       \/ pc = "disable" /\ ~On
          /\ IF HasAnyAnnotation(app) THEN pc' = "remove" /\ UNCHANGED app ELSE NextApp
    /\ UNCHANGED <<response, server, agents, workloads, incidents>>

\* Patch app's template: the annotation, and restartedAt with it, roll the
\* workload out.  A pod has no template: the field is ignored.
Patched(on) ==
    IF on /\ kind[app] = "pod" THEN UNCHANGED <<annotated, rollouts>>
    ELSE /\ annotated' = [annotated EXCEPT ![app] = on]
         /\ rollouts' = [rollouts EXCEPT ![app] = @ + 1]

\* After patching the Deployment an entry of kind REPLICASET names, the code
\* falls through to the return of the error that the ReplicaSet was not found.
Annotate ==
    /\ pc = "annotate" /\ exists[app]
    /\ Patched(TRUE)
    /\ IF kind[app] = "owned" THEN PassEnds ELSE NextApp
    /\ UNCHANGED <<response, server, agents, exists, causes, kind, incidents>>

RemoveAnnotation ==
    /\ pc = "remove" /\ exists[app]
    /\ Patched(FALSE)
    /\ NextApp
    /\ UNCHANGED <<response, server, agents, exists, causes, kind, incidents>>

\* The workload is gone, the kind is invalid, or a call fails for another
\* reason, be it that the answer to a patch is lost: the first pass returns,
\* the second goes on.
AppFails ==
    /\ exists[app] /\ kind[app] # "invalid" => Incident
    /\ ~exists[app] \/ kind[app] = "invalid" => UNCHANGED incidents
    /\ \/ pc = "enable" /\ response.apm /\ On /\ PassEnds
       \/ pc = "annotate" /\ PassEnds
       \/ pc = "disable" /\ ~On /\ NextApp
       \/ pc = "remove" /\ NextApp
    /\ \/ UNCHANGED <<annotated, rollouts>>
       \/ pc \in {"annotate", "remove"} /\ exists[app] /\ Patched(pc = "annotate")
    /\ UNCHANGED <<response, server, agents, exists, causes, kind>>
-----------------------------------------------------------------------------
\* The user switches APM, or an application, on or off.
SettingsChange ==
    /\ Incident
    /\ \/ apm' = ~apm /\ UNCHANGED <<enabled, causes>>
       \/ \E a \in Apps :
            /\ enabled' = [enabled EXCEPT ![a] = ~@]
            /\ causes' = [causes EXCEPT ![a] = @ + 1]
            /\ UNCHANGED apm
    /\ UNCHANGED <<pc, app, response, configs, agents, exists, annotated, rollouts,
                   kind>>

\* Somebody edits a workload's annotation, deletes it or creates it again.
WorkloadChanges(a) ==
    /\ Incident
    /\ \/ exists[a] /\ annotated' = [annotated EXCEPT ![a] = ~@] /\ UNCHANGED exists
       \/ /\ exists' = [exists EXCEPT ![a] = ~@]
          /\ annotated' = [annotated EXCEPT ![a] = FALSE]
    /\ causes' = [causes EXCEPT ![a] = @ + 1]
    /\ UNCHANGED <<pc, app, response, server, agents, rollouts, kind>>

\* The updater's process ends anywhere and starts again.
UpdaterRestarts ==
    /\ Incident /\ pc' = "poll"
    /\ UNCHANGED <<app, response, server, agents, workloads>>
-----------------------------------------------------------------------------
Step ==
    \/ Tick \/ Poll \/ CheckFails \/ UpdateConfigMap \/ TriggerRollout
    \/ SkipApp \/ GetApp \/ Annotate \/ RemoveAnnotation \/ AppFails

Others ==
    \/ SettingsChange \/ UpdaterRestarts
    \/ \E a \in Apps : WorkloadChanges(a)
    \/ \E g \in Agents : PodsRestart(g)

Next == Step \/ Others

\* Fairness: the loop goes on, and the cluster carries requested rollouts out.
Fairness ==
    /\ WF_vars(Step)
    /\ \A g \in Agents : WF_vars(PodsRestart(g))

Spec == Init /\ [][Next]_vars /\ Fairness
-----------------------------------------------------------------------------
Versions == 0 .. MaxConfigs

\* Every variable has its type.
TypeOK ==
    /\ pc \in {"select", "poll", "daemonset", "deployment", "rollDaemonset",
               "rollDeployment", "enable", "annotate", "disable", "remove"}
    /\ app \in Apps
    /\ response \in [config : Versions, apm : BOOLEAN, enabled : [Apps -> BOOLEAN]]
    /\ configs \in Versions /\ apm \in BOOLEAN /\ enabled \in [Apps -> BOOLEAN]
    /\ maps \in [Agents -> Versions] /\ pods \in [Agents -> Versions]
    /\ rolling \subseteq Agents
    /\ exists \in [Apps -> BOOLEAN] /\ annotated \in [Apps -> BOOLEAN]
    /\ rollouts \in [Apps -> Nat] /\ causes \in [Apps -> Nat]
    /\ incidents \in 0 .. MaxIncidents /\ kind \in Clusters

\* A rollout is requested only when both ConfigMaps hold the configuration it
\* is for, though either update may fail and the updater restart in between.
RolloutIsWhole ==
    [][rolling' \subseteq rolling \/ \A g \in Agents : maps[g] = response.config]_vars

\* The updater rolls an application out only for a reason: once when it finds
\* it enabled, and once for each change of its settings or of its annotation;
\* polling for ever does not restart it for ever.
RolloutsHaveCauses == \A a \in Apps : rollouts[a] <= causes[a]

\* The applications whose annotation the updater can manage.
Manageable == {a \in Apps : kind[a] \in {"workload", "owned"}}

\* When the incidents are over, every application is instrumented exactly if
\* its settings say so, whatever failed and wherever the updater restarted,
\* provided that no enabled entry is one that can never be carried out.
Converges ==
    <>[]((\A a \in Apps : enabled[a] => exists[a] /\ kind[a] # "invalid") /\ apm
         => \A a \in Manageable : exists[a] => annotated[a] = enabled[a])

\* "Handle removal of instrumentation for disabled apps": an application that
\* is disabled loses its annotation.
RemovalHappens ==
    \A a \in Apps :
        apm /\ ~enabled[a] /\ annotated[a] ~> ~(apm /\ ~enabled[a] /\ annotated[a])
=============================================================================
