-------------------------- MODULE KubeUpdater_proofs --------------------------
(***************************************************************************)
(* Proofs about KubeUpdater, for any number of applications, of delivered  *)
(* configurations and of incidents.  That polling does not roll workloads  *)
(* out for ever rests on counting what is Due: the rollouts the updater    *)
(* would still make of an application if nothing else happened.            *)
(***************************************************************************)
EXTENDS KubeUpdater, TLAPS

\* The goroutine is about to patch app a.
Patching(a) == pc \in {"annotate", "remove"} /\ app = a

\* Rollouts of a that the response being carried out asks for, and those the
\* next one will ask for because the settings have changed in the meantime.
DueNow(a) ==
    IF Patching(a) \/ annotated[a] # response.enabled[a] THEN 1 ELSE 0
DueNext(a) == IF response.enabled[a] # enabled[a] THEN 1 ELSE 0

CausesCover == \A a \in Apps : rollouts[a] + DueNow(a) + DueNext(a) <= causes[a]

\* Which entries are patched how, and what the ConfigMaps hold along the way.
PatchesExact ==
    /\ pc = "annotate" => response.enabled[app]
    /\ pc = "remove" => ~response.enabled[app]

MapsFollow ==
    /\ pc \in {"deployment", "rollDaemonset", "rollDeployment"}
         => maps["daemonset"] = response.config
    /\ pc \in {"rollDaemonset", "rollDeployment"}
         => maps["deployment"] = response.config

IInv == TypeOK /\ PatchesExact /\ MapsFollow /\ CausesCover
-----------------------------------------------------------------------------
LEMMA InitIInv == Init => IInv
<1> SUFFICES ASSUME Init PROVE IInv
    OBVIOUS
<1>1. TypeOK
    BY AppsAssumption, BoundsAssumption
    DEF Init, TypeOK, Apps, Agents, NoConfig, Versions
<1>2. PatchesExact /\ MapsFollow
    BY DEF Init, PatchesExact, MapsFollow
<1>3. CausesCover
  <2> SUFFICES ASSUME NEW a \in Apps
               PROVE rollouts[a] + DueNow(a) + DueNext(a) <= causes[a]
      BY DEF CausesCover
  <2>1. /\ rollouts[a] = 0 /\ annotated[a] = FALSE
        /\ response.enabled[a] = FALSE /\ pc = "poll"
        /\ causes[a] = IF enabled[a] THEN 1 ELSE 0
      BY DEF Init
  <2>2. DueNow(a) = 0
      BY <2>1 DEF DueNow, Patching
  <2>3. DueNext(a) = causes[a] /\ causes[a] \in {0, 1}
      BY <2>1, <1>1 DEF DueNext, TypeOK
  <2>4. QED
      BY <2>1, <2>2, <2>3
<1>4. QED
    BY <1>1, <1>2, <1>3 DEF IInv

\* The places a step through APMSettings goes to.
LEMMA NextAppType ==
    ASSUME app \in Apps, NextApp
    PROVE  /\ app' \in Apps
           /\ pc' \in {"enable", "disable", "select"}
BY AppsAssumption DEF NextApp, Apps, Last

\* A patch changes annotations and counts of the application at hand only.
LEMMA PatchedType ==
    ASSUME TypeOK, NEW on \in BOOLEAN, Patched(on)
    PROVE  annotated' \in [Apps -> BOOLEAN] /\ rollouts' \in [Apps -> Nat]
BY DEF TypeOK, Patched

\* Every step keeps every variable in its type.
LEMMA TypeStep == TypeOK /\ [Next]_vars => TypeOK'
<1> SUFFICES ASSUME TypeOK, [Next]_vars PROVE TypeOK'
    OBVIOUS
<1> USE AppsAssumption, BoundsAssumption
<1> USE DEF server, agents, workloads
<1>1. CASE Tick
    BY <1>1 DEF Tick, Goes, TypeOK
<1>2. CASE Poll
    BY <1>2 DEF Poll, Goes, TypeOK, Versions, Apps
<1>3. CASE CheckFails
    BY <1>3 DEF CheckFails, Goes, Incident, TypeOK, Agents, Versions
<1>4. CASE UpdateConfigMap
    BY <1>4 DEF UpdateConfigMap, Goes, TypeOK, Agents, Versions
<1>5. CASE TriggerRollout
    BY <1>5 DEF TriggerRollout, Goes, TypeOK, Agents
<1>6. CASE SkipApp
    BY <1>6, NextAppType DEF SkipApp, PassEnds, TypeOK
<1>7. CASE GetApp
    BY <1>7, NextAppType DEF GetApp, TypeOK
<1>8. CASE Annotate
    BY <1>8, NextAppType, PatchedType DEF Annotate, PassEnds, TypeOK
<1>9. CASE RemoveAnnotation
    BY <1>9, NextAppType, PatchedType DEF RemoveAnnotation, TypeOK
<1>10. CASE AppFails
  <2>1. incidents' \in 0 .. MaxIncidents
      BY <1>10 DEF AppFails, Incident, TypeOK
  <2>2. annotated' \in [Apps -> BOOLEAN] /\ rollouts' \in [Apps -> Nat]
      BY <1>10, PatchedType DEF AppFails, TypeOK
  <2>3. app' \in Apps /\ pc' \in {"enable", "disable", "select"}
      BY <1>10, NextAppType DEF AppFails, PassEnds, TypeOK
  <2>4. QED
      BY <1>10, <2>1, <2>2, <2>3 DEF AppFails, TypeOK
<1>11. CASE SettingsChange
  <2>1. incidents' \in 0 .. MaxIncidents
      BY <1>11 DEF SettingsChange, Incident, TypeOK
  <2>2. apm' \in BOOLEAN /\ enabled' \in [Apps -> BOOLEAN]
      BY <1>11 DEF SettingsChange, TypeOK
  <2>3. causes' \in [Apps -> Nat]
      BY <1>11 DEF SettingsChange, TypeOK
  <2>4. QED
      BY <1>11, <2>1, <2>2, <2>3 DEF SettingsChange, TypeOK
<1>12. CASE UpdaterRestarts
    BY <1>12 DEF UpdaterRestarts, Incident, TypeOK
<1>13. CASE \E a \in Apps : WorkloadChanges(a)
  <2>1. incidents' \in 0 .. MaxIncidents
      BY <1>13 DEF WorkloadChanges, Incident, TypeOK
  <2>2. exists' \in [Apps -> BOOLEAN] /\ annotated' \in [Apps -> BOOLEAN]
      BY <1>13 DEF WorkloadChanges, TypeOK
  <2>3. causes' \in [Apps -> Nat]
      BY <1>13 DEF WorkloadChanges, TypeOK
  <2>4. QED
      BY <1>13, <2>1, <2>2, <2>3 DEF WorkloadChanges, TypeOK
<1>14. CASE \E g \in Agents : PodsRestart(g)
    BY <1>14 DEF PodsRestart, TypeOK
<1>15. CASE UNCHANGED vars
    BY <1>15 DEF vars, TypeOK
<1>16. QED
    BY <1>1, <1>2, <1>3, <1>4, <1>5, <1>6, <1>7, <1>8, <1>9, <1>10, <1>11, <1>12,
       <1>13, <1>14, <1>15 DEF Next, Step, Others
-----------------------------------------------------------------------------
\* The steps that touch nothing PatchesExact speaks of come last.
LEMMA PatchesStep == TypeOK /\ PatchesExact /\ [Next]_vars => PatchesExact'
<1> SUFFICES ASSUME TypeOK, PatchesExact, [Next]_vars PROVE PatchesExact'
    OBVIOUS
<1> USE DEF PatchesExact
<1>1. CASE Tick \/ Poll \/ CheckFails \/ UpdateConfigMap \/ TriggerRollout
    BY <1>1 DEF Tick, Poll, CheckFails, UpdateConfigMap, TriggerRollout, Goes, Agents
<1>2. CASE SkipApp
    BY <1>2, NextAppType DEF SkipApp, PassEnds, TypeOK
<1>3. CASE GetApp
    BY <1>3, NextAppType DEF GetApp, On, TypeOK
<1>4. CASE Annotate \/ RemoveAnnotation \/ AppFails
    BY <1>4, NextAppType DEF Annotate, RemoveAnnotation, AppFails, PassEnds, TypeOK
<1>5. CASE UpdaterRestarts
    BY <1>5 DEF UpdaterRestarts
<1>6. CASE \/ SettingsChange \/ UNCHANGED vars
           \/ \E a \in Apps : WorkloadChanges(a)
           \/ \E g \in Agents : PodsRestart(g)
    BY <1>6 DEF SettingsChange, WorkloadChanges, PodsRestart, vars
<1>7. QED
    BY <1>1, <1>2, <1>3, <1>4, <1>5, <1>6 DEF Next, Step, Others

LEMMA MapsStep == TypeOK /\ MapsFollow /\ [Next]_vars => MapsFollow'
<1> SUFFICES ASSUME TypeOK, MapsFollow, [Next]_vars PROVE MapsFollow'
    OBVIOUS
<1> USE DEF MapsFollow, agents
<1>1. CASE Tick \/ Poll \/ CheckFails
    BY <1>1 DEF Tick, Poll, CheckFails, Goes, Agents
<1>2. CASE UpdateConfigMap
    BY <1>2 DEF UpdateConfigMap, Goes, Agents, TypeOK
<1>3. CASE TriggerRollout
    BY <1>3 DEF TriggerRollout, Goes, Agents
<1>4. CASE SkipApp \/ GetApp
    BY <1>4, NextAppType DEF SkipApp, GetApp, PassEnds, TypeOK
<1>5. CASE Annotate \/ RemoveAnnotation \/ AppFails
    BY <1>5, NextAppType DEF Annotate, RemoveAnnotation, AppFails, PassEnds, TypeOK
<1>6. CASE UpdaterRestarts
    BY <1>6 DEF UpdaterRestarts
<1>7. CASE \/ SettingsChange \/ UNCHANGED vars
           \/ \E a \in Apps : WorkloadChanges(a)
           \/ \E g \in Agents : PodsRestart(g)
    BY <1>7 DEF SettingsChange, WorkloadChanges, PodsRestart, vars
<1>8. QED
    BY <1>1, <1>2, <1>3, <1>4, <1>5, <1>6, <1>7 DEF Next, Step, Others
-----------------------------------------------------------------------------
LEMMA DueType ==
    ASSUME TypeOK, NEW a \in Apps
    PROVE  /\ DueNow(a) \in {0, 1} /\ DueNext(a) \in {0, 1}
           /\ rollouts[a] \in Nat /\ causes[a] \in Nat
BY DEF TypeOK, DueNow, DueNext

\* What a patch does to the count of application a: nothing, or it is a that is
\* rolled out, and then the annotation is what the response asks for.
LEMMA PatchedOne ==
    ASSUME TypeOK, NEW a \in Apps, NEW on \in BOOLEAN, Patched(on)
    PROVE  \/ annotated'[a] = annotated[a] /\ rollouts'[a] = rollouts[a]
           \/ /\ a = app /\ annotated'[a] = on /\ rollouts'[a] = rollouts[a] + 1
BY DEF TypeOK, Patched

\* A patch, made or not, pays a rollout that was due.
LEMMA PatchStep ==
    ASSUME TypeOK, TypeOK', PatchesExact, NEW a \in Apps,
           pc \in {"annotate", "remove"}, pc' \notin {"annotate", "remove"},
           UNCHANGED <<response, enabled, causes>>,
           Patched(pc = "annotate") \/ UNCHANGED <<annotated, rollouts>>
    PROVE  rollouts'[a] + DueNow(a)' + DueNext(a)'
             <= rollouts[a] + DueNow(a) + DueNext(a)
<1>1. DueNext(a)' = DueNext(a)
    BY DEF DueNext
<1>2. ~Patching(a)'
    BY DEF Patching
<1>3. CASE annotated'[a] = annotated[a] /\ rollouts'[a] = rollouts[a]
  <2>1. DueNow(a)' <= DueNow(a) /\ DueNow(a)' \in {0, 1}
      BY <1>2, <1>3 DEF DueNow
  <2>2. QED
      BY <1>1, <1>3, <2>1, DueType
<1>4. CASE /\ a = app /\ annotated'[a] = (pc = "annotate")
           /\ rollouts'[a] = rollouts[a] + 1
  <2>1. DueNow(a) = 1
      BY <1>4 DEF DueNow, Patching
  <2>2. response.enabled[a] = (pc = "annotate")
      BY <1>4 DEF PatchesExact, TypeOK
  <2>3. DueNow(a)' = 0
      BY <1>2, <1>4, <2>2 DEF DueNow
  <2>4. QED
      BY <1>1, <1>4, <2>1, <2>3, DueType
<1>5. CASE UNCHANGED <<annotated, rollouts>>
    BY <1>3, <1>5
<1>6. CASE Patched(pc = "annotate")
  <2>1. (pc = "annotate") \in BOOLEAN
      OBVIOUS
  <2>2. QED
      BY <1>3, <1>4, <1>6, <2>1, PatchedOne
<1>7. QED
    BY <1>5, <1>6

\* A step that begins no patch unless one is due leaves the count as it is.
LEMMA QuietStep ==
    ASSUME TypeOK, NEW a \in Apps,
           UNCHANGED <<response, enabled, causes, annotated, rollouts>>,
           Patching(a)' => Patching(a) \/ annotated[a] # response.enabled[a]
    PROVE  rollouts'[a] + DueNow(a)' + DueNext(a)'
             <= rollouts[a] + DueNow(a) + DueNext(a)
<1>1. DueNext(a)' = DueNext(a)
    BY DEF DueNext
<1>2. DueNow(a)' <= DueNow(a) /\ DueNow(a)' \in {0, 1}
    BY DEF DueNow
<1>3. QED
    BY <1>1, <1>2, DueType

\* Every step keeps the rollouts of every application covered by causes.
LEMMA CausesStep == IInv /\ TypeOK' /\ [Next]_vars => CausesCover'
<1> SUFFICES ASSUME IInv, TypeOK', [Next]_vars, NEW a \in Apps
             PROVE (rollouts[a] + DueNow(a) + DueNext(a) <= causes[a])'
    BY DEF CausesCover
<1>0. /\ TypeOK /\ PatchesExact /\ app \in Apps
      /\ rollouts[a] + DueNow(a) + DueNext(a) <= causes[a]
    BY DEF IInv, CausesCover, TypeOK
<1> DEFINE Less == rollouts'[a] + DueNow(a)' + DueNext(a)'
                     <= rollouts[a] + DueNow(a) + DueNext(a)
<1>a. ASSUME Less, causes' = causes
      PROVE (rollouts[a] + DueNow(a) + DueNext(a) <= causes[a])'
  <2>1. /\ DueNow(a)' \in {0, 1} /\ DueNext(a)' \in {0, 1}
        /\ rollouts'[a] \in Nat
      BY DEF TypeOK, DueNow, DueNext
  <2>2. QED
      BY <1>0, <1>a, <2>1, DueType
<1>1. CASE Tick \/ CheckFails \/ UpdateConfigMap \/ TriggerRollout
  <2>1. UNCHANGED <<response, enabled, causes, annotated, rollouts>> /\ ~Patching(a)'
      BY <1>1 DEF Tick, CheckFails, UpdateConfigMap, TriggerRollout, Goes, Agents,
                  Patching, server, workloads
  <2>2. QED
      BY <1>0, <1>a, <2>1, QuietStep
<1>2. CASE Poll
  <2>1. /\ UNCHANGED <<enabled, causes, annotated, rollouts>>
        /\ response'.enabled = enabled /\ ~Patching(a)'
      BY <1>2 DEF Poll, Goes, Patching, workloads
  <2>2. /\ DueNow(a)' <= DueNow(a) + DueNext(a) /\ DueNow(a)' \in {0, 1}
        /\ DueNext(a)' = 0
      BY <1>0, <2>1 DEF DueNow, DueNext, TypeOK
  <2>3. QED
      BY <1>0, <1>a, <2>1, <2>2, DueType
<1>3. CASE SkipApp
  <2>1. UNCHANGED <<response, enabled, causes, annotated, rollouts>> /\ ~Patching(a)'
      BY <1>0, <1>3, NextAppType DEF SkipApp, PassEnds, Patching, server, workloads
  <2>2. QED
      BY <1>0, <1>a, <2>1, QuietStep
<1>4. CASE GetApp
  <2>1. UNCHANGED <<response, enabled, causes, annotated, rollouts>>
      BY <1>4 DEF GetApp, server, workloads
  <2>2. Patching(a)' => annotated[a] # response.enabled[a]
      BY <1>0, <1>4, NextAppType
      DEF GetApp, Patching, On, IsAnnotationSame, HasAnyAnnotation, TypeOK
  <2>3. QED
      BY <1>0, <1>a, <2>1, <2>2, QuietStep
<1>5. CASE Annotate \/ RemoveAnnotation
  <2>1. /\ pc \in {"annotate", "remove"} /\ pc' \notin {"annotate", "remove"}
        /\ UNCHANGED <<response, enabled, causes>>
      BY <1>0, <1>5, NextAppType DEF Annotate, RemoveAnnotation, PassEnds, server
  <2>2. Patched(pc = "annotate")
    <3>1. CASE Annotate
        BY <3>1 DEF Annotate, Patched
    <3>2. CASE RemoveAnnotation
        BY <3>2 DEF RemoveAnnotation, Patched
    <3>3. QED
        BY <1>5, <3>1, <3>2
  <2>3. Less
      BY <1>0, <2>1, <2>2, PatchStep
  <2>4. QED
      BY <1>a, <2>1, <2>3
<1>6. CASE AppFails
  <2>1. /\ UNCHANGED <<response, enabled, causes>>
        /\ pc' \notin {"annotate", "remove"}
      BY <1>0, <1>6, NextAppType DEF AppFails, PassEnds, server
  <2>2. CASE UNCHANGED <<annotated, rollouts>>
      BY <1>0, <1>a, <2>1, <2>2, QuietStep DEF Patching
  <2>3. CASE pc \in {"annotate", "remove"} /\ Patched(pc = "annotate")
    <3>1. Less
        BY <1>0, <2>1, <2>3, PatchStep
    <3>2. QED
        BY <1>a, <2>1, <3>1
  <2>4. QED
      BY <1>6, <2>2, <2>3 DEF AppFails
<1>7. CASE SettingsChange
  <2>1. UNCHANGED <<pc, app, response, annotated, rollouts>>
      BY <1>7 DEF SettingsChange
  <2>2. DueNow(a)' = DueNow(a)
      BY <2>1 DEF DueNow, Patching
  <2>3. CASE UNCHANGED <<enabled, causes>>
      BY <1>0, <2>1, <2>2, <2>3, DueType DEF DueNext
  <2>4. ASSUME NEW b \in Apps, enabled' = [enabled EXCEPT ![b] = ~@],
               causes' = [causes EXCEPT ![b] = @ + 1]
        PROVE (rollouts[a] + DueNow(a) + DueNext(a) <= causes[a])'
    <3>1. CASE a = b
      <4>1. causes'[a] = causes[a] + 1
          BY <1>0, <2>4, <3>1 DEF TypeOK
      <4>2. DueNext(a)' \in {0, 1}
          BY DEF DueNext
      <4>3. QED
          BY <1>0, <2>1, <2>2, <4>1, <4>2, DueType
    <3>2. CASE a # b
      <4>1. causes'[a] = causes[a] /\ enabled'[a] = enabled[a]
          BY <1>0, <2>4, <3>2 DEF TypeOK
      <4>2. DueNext(a)' = DueNext(a)
          BY <2>1, <4>1 DEF DueNext
      <4>3. QED
          BY <1>0, <2>1, <2>2, <4>1, <4>2, DueType
    <3>3. QED
        BY <3>1, <3>2
  <2>5. QED
      BY <1>7, <2>3, <2>4 DEF SettingsChange
<1>8. CASE \E b \in Apps : WorkloadChanges(b)
  <2> PICK b \in Apps : WorkloadChanges(b)
      BY <1>8
  <2>1. UNCHANGED <<pc, app, response, enabled, rollouts>>
      BY DEF WorkloadChanges, server
  <2>2. DueNext(a)' = DueNext(a)
      BY <2>1 DEF DueNext
  <2>3. CASE a = b
    <3>1. causes'[a] = causes[a] + 1
        BY <1>0, <2>3 DEF WorkloadChanges, TypeOK
    <3>2. DueNow(a)' \in {0, 1}
        BY DEF DueNow
    <3>3. QED
        BY <1>0, <2>1, <2>2, <3>1, <3>2, DueType
  <2>4. CASE a # b
    <3>1. causes'[a] = causes[a] /\ annotated'[a] = annotated[a]
        BY <1>0, <2>4 DEF WorkloadChanges, TypeOK
    <3>2. DueNow(a)' = DueNow(a)
        BY <2>1, <3>1 DEF DueNow, Patching
    <3>3. QED
        BY <1>0, <2>1, <2>2, <3>1, <3>2, DueType
  <2>5. QED
      BY <2>3, <2>4
<1>9. CASE UpdaterRestarts \/ UNCHANGED vars \/ \E g \in Agents : PodsRestart(g)
  <2>1. /\ UNCHANGED <<response, enabled, causes, annotated, rollouts>>
        /\ Patching(a)' => Patching(a)
      BY <1>9 DEF UpdaterRestarts, PodsRestart, vars, server, workloads, Patching
  <2>2. QED
      BY <1>0, <1>a, <2>1, QuietStep
<1>10. QED
    BY <1>1, <1>2, <1>3, <1>4, <1>5, <1>6, <1>7, <1>8, <1>9 DEF Next, Step, Others
-----------------------------------------------------------------------------
LEMMA StepIInv == IInv /\ [Next]_vars => IInv'
BY TypeStep, PatchesStep, MapsStep, CausesStep DEF IInv

\* The inductive invariant holds in every behaviour of the updater.
THEOREM Invariance == Spec => []IInv
BY InitIInv, StepIInv, PTL DEF Spec

\* Every variable keeps its type.
THEOREM TypeCorrect == Spec => []TypeOK
<1>1. IInv => TypeOK
    BY DEF IInv
<1>2. QED
    BY <1>1, Invariance, PTL

\* An application is rolled out at most once for its first instrumentation and
\* once for every later change of its settings or annotation, whatever calls
\* fail, answers get lost, or restarts of the updater happen.
THEOREM NoEndlessRollouts == Spec => []RolloutsHaveCauses
<1>1. IInv => RolloutsHaveCauses
  <2> SUFFICES ASSUME IInv, NEW a \in Apps PROVE rollouts[a] <= causes[a]
      BY DEF RolloutsHaveCauses
  <2>1. TypeOK /\ rollouts[a] + DueNow(a) + DueNext(a) <= causes[a]
      BY DEF IInv, CausesCover
  <2>2. QED
      BY <2>1, DueType
<1>2. QED
    BY <1>1, Invariance, PTL

\* A rollout of the agents is requested only when both ConfigMaps hold the
\* configuration it is for.
THEOREM WholeRollouts == Spec => RolloutIsWhole
<1>1. IInv /\ [Next]_vars
        => [rolling' \subseteq rolling \/ \A g \in Agents : maps[g] = response.config]_vars
  <2> SUFFICES ASSUME IInv, Next
               PROVE  \/ rolling' \subseteq rolling
                      \/ \A g \in Agents : maps[g] = response.config
      OBVIOUS
  <2>1. CASE TriggerRollout
    <3>1. CASE pc = "rollDaemonset" \/ pc = "rollDeployment"
        BY <3>1 DEF IInv, MapsFollow, Agents
    <3>2. QED
        BY <2>1, <3>1 DEF TriggerRollout, Goes
  <2>2. CASE \E g \in Agents : PodsRestart(g)
      BY <2>2 DEF PodsRestart
  <2>3. CASE \/ Tick \/ Poll \/ CheckFails \/ UpdateConfigMap \/ SkipApp \/ GetApp
             \/ Annotate \/ RemoveAnnotation \/ AppFails \/ SettingsChange
             \/ UpdaterRestarts \/ \E a \in Apps : WorkloadChanges(a)
      BY <2>3 DEF Tick, Poll, CheckFails, UpdateConfigMap, SkipApp, GetApp,
         Annotate, RemoveAnnotation, AppFails, SettingsChange, UpdaterRestarts,
         WorkloadChanges, agents
  <2>4. QED
      BY <2>1, <2>2, <2>3 DEF Next, Step, Others
<1>2. QED
    BY <1>1, Invariance, PTL DEF Spec, RolloutIsWhole
=============================================================================
