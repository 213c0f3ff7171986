--------------------------- MODULE HostAgent_proofs ---------------------------
(***************************************************************************)
(* Proofs about HostAgent for any set of lifecycles and any number of      *)
(* configurations.  Each invariant is a conjunction of named parts; the    *)
(* lemma of a part has one step per action.                                *)
(***************************************************************************)
EXTENDS HostAgent, FiniteSetTheorems, TLAPS

USE LifecyclesAssumption, MaxUpdatesAssumption, HangAssumption
    DEF LifecyclesAssumption, MaxUpdatesAssumption, HangAssumption

\* The WaitGroup is exact and the set it counts is finite.
GroupInv == IsFiniteSet(LiveLifecycles) /\ WaitGroupExact

\* Before StartAgent launches the goroutines there are none, and it launches
\* them once.
LaunchInv ==
    /\ runPc = "start" => ~isRunning
    /\ runPc \in {"start", "detect"} =>
           checkerPc = "none" /\ \A g \in Lifecycles : lifePc[g] = "none"

\* Shutdown won its CompareAndSwap: isRunning stays FALSE for ever.
Won == shutdownSignal \/ stopPc \in {"close", "take", "signal", "wait"}
ShutdownInv ==
    /\ Won => ~isRunning /\ runPc # "start"
    /\ shutdownSignal => stopPc \in {"take", "signal", "wait", "waitRun", "returned"}
    /\ stopPc \in {"take", "signal", "wait"} => shutdownSignal
    /\ waitCh # "none" => shutdownSignal

\* A lifecycle between its second check of isRunning and its assignment holds
\* the mutex, so Shutdown has not taken the reference yet.
LockInv ==
    \A g \in Lifecycles :
        /\ lifePc[g] \in {"check", "assign"} => collectorMu = g
        /\ lifePc[g] = "assign" => isRunning \/ stopPc \in {"close", "take"}

\* After wg.Wait has returned no goroutine is where it could still run a
\* collector or launch a lifecycle.
WaitInv ==
    waitCh = "closed" =>
        /\ \A g \in Lifecycles : lifePc[g] \in {"none", "begin", "return", "done"}
        /\ checkerPc \notin {"take", "signal", "spawn"}

IInv ==
    /\ TypeOK /\ GroupInv /\ LaunchInv /\ ShutdownInv /\ LockInv /\ WaitInv
    /\ NoAssignmentAfterStop
-----------------------------------------------------------------------------
\* The initial states satisfy the invariant.
LEMMA InitIInv == Init => IInv
<1> SUFFICES ASSUME Init PROVE IInv
  OBVIOUS
<1>1. TypeOK
  <2>1. NewLocals \in Locals
    BY DEF NewLocals, Locals, Contents, NoFile, Errors
  <2>2. lifePc \in [Lifecycles -> LifePcs] /\ local \in [Lifecycles -> Locals]
    BY <2>1 DEF Init, LifePcs
  <2>3. taken \in [Callers -> Lifecycles \cup {Nobody}]
    BY DEF Init
  <2>4. cfgFile = 0 /\ updates = 0 /\ enriched = -1
    BY DEF Init, NoFile
  <2>5. /\ cfgFile \in 0 .. MaxUpdates /\ updates \in 0 .. MaxUpdates
        /\ enriched \in Contents
    BY <2>4 DEF Contents
  <2> QED
    BY <2>2, <2>3, <2>4, <2>5
    DEF Init, TypeOK, Errors, RunPcs, StopPcs, CheckerPcs
<1>2. GroupInv
  <2>1. LiveLifecycles = {} /\ ~CheckerLive
    BY DEF Init, LiveLifecycles, CheckerLive
  <2>2. IsFiniteSet(LiveLifecycles) /\ Cardinality(LiveLifecycles) = 0
    BY <2>1, FS_EmptySet
  <2>3. wg = 0
    BY DEF Init
  <2>4. WaitGroupExact
    BY <2>1, <2>2, <2>3 DEF WaitGroupExact
  <2> QED
    BY <2>2, <2>4 DEF GroupInv
<1> QED
  BY <1>1, <1>2 DEF Init, IInv, LaunchInv, ShutdownInv, Won, LockInv, WaitInv,
                    NoAssignmentAfterStop
-----------------------------------------------------------------------------
\* How one lifecycle's step changes the set of live ones: it joins the set
\* when it leaves "none", leaves it when it reaches "done", else nothing.
LEMMA LiveJoins ==
    ASSUME TypeOK, IsFiniteSet(LiveLifecycles), NEW g \in Lifecycles, NEW to,
           to \notin {"none", "done"}, LifeGoes(g, "none", to)
    PROVE  /\ IsFiniteSet(LiveLifecycles')
           /\ Cardinality(LiveLifecycles') = Cardinality(LiveLifecycles) + 1
<1>1. g \notin LiveLifecycles /\ LiveLifecycles' = LiveLifecycles \cup {g}
  BY DEF LiveLifecycles, LifeGoes, TypeOK
<1> QED
  BY <1>1, FS_AddElement

LEMMA LiveLeaves ==
    ASSUME TypeOK, IsFiniteSet(LiveLifecycles), NEW g \in Lifecycles, NEW from,
           from \notin {"none", "done"}, LifeGoes(g, from, "done")
    PROVE  /\ IsFiniteSet(LiveLifecycles')
           /\ Cardinality(LiveLifecycles') = Cardinality(LiveLifecycles) - 1
           /\ Cardinality(LiveLifecycles) \in Nat \ {0}
<1>1. g \in LiveLifecycles /\ LiveLifecycles' = LiveLifecycles \ {g}
  BY DEF LiveLifecycles, LifeGoes, TypeOK
<1>2. Cardinality(LiveLifecycles) \in Nat /\ Cardinality(LiveLifecycles) # 0
  BY <1>1, FS_CardinalityType, FS_EmptySet
<1> QED
  BY <1>1, <1>2, FS_RemoveElement

LEMMA LiveStays ==
    ASSUME TypeOK, NEW g \in Lifecycles, NEW from, NEW to,
           from \notin {"none", "done"}, to \notin {"none", "done"},
           LifeGoes(g, from, to)
    PROVE  LiveLifecycles' = LiveLifecycles
  BY DEF LiveLifecycles, LifeGoes, TypeOK
-----------------------------------------------------------------------------
\* An exact count is a natural number, and it stays exact in a step in which
\* it, the live lifecycles and the checker's life do not change.
LEMMA GroupNat == GroupInv => wg \in Nat
  BY FS_CardinalityType DEF GroupInv, WaitGroupExact

LEMMA GroupKept ==
    ASSUME GroupInv, UNCHANGED wg, LiveLifecycles' = LiveLifecycles,
           CheckerLive' = CheckerLive
    PROVE  GroupInv'
  BY DEF GroupInv, WaitGroupExact

\* Every step keeps the count exact.
LEMMA ServiceGroup == TypeOK /\ LaunchInv /\ GroupInv /\ (Stop \/ Service) => GroupInv'
<1> SUFFICES ASSUME TypeOK, LaunchInv, GroupInv, Stop \/ Service PROVE GroupInv'
  OBVIOUS
<1>1. CASE Launch
  <2>1. lifePc[First] = "none" /\ checkerPc = "none"
    BY <1>1 DEF Launch, RunGoes, LaunchInv
  <2>2. LifeGoes(First, "none", "begin")
    BY <1>1, <2>1 DEF Launch, LifeGoes
  <2>3. /\ IsFiniteSet(LiveLifecycles')
        /\ Cardinality(LiveLifecycles') = Cardinality(LiveLifecycles) + 1
    BY <2>2, LiveJoins DEF GroupInv
  <2>4. wg' = wg + 2 /\ checkerPc' = "begin"
    BY <1>1 DEF Launch
  <2>5. ~CheckerLive /\ CheckerLive'
    BY <2>1, <2>4 DEF CheckerLive
  <2>6. Cardinality(LiveLifecycles) \in Nat
    BY FS_CardinalityType DEF GroupInv
  <2> QED
    BY <2>3, <2>4, <2>5, <2>6 DEF GroupInv, WaitGroupExact
<1>2. CASE ~Launch
  <2>1. UNCHANGED <<wg, lifePc, checkerPc>>
    BY <1>2 DEF Stop, Service, StartAgent, RunReturns, WaitGroupWait, ShutdownBegins,
                ShutdownSignals, ShutdownTakes, ShutdownAsks, StopMovesOn,
                TakeReference, AskToStop, group, life
  <2> QED
    BY <2>1, GroupKept DEF LiveLifecycles, CheckerLive
<1> QED
  BY <1>1, <1>2

LEMMA LifeGroup ==
    ASSUME TypeOK, GroupInv, NEW g \in Lifecycles,
           Life(g) \/ External(g)
    PROVE  GroupInv'
<1>1. UNCHANGED checkerPc
  BY DEF Life, LifecycleBegins, EnrichReads, EnrichWrites, EnrichFails, CreateFails,
         LifecycleLocks, LifecycleChecks, LifecycleAssigns, CollectorLoads, LoadFails,
         CollectorStops, LifecycleNotes, LifecycleCleans, LifecycleDone,
         External, CollectorDies, CollectorCloses, CollectorHangs, lifeKeeps
<1>2. CASE LifecycleDone(g)
  <2>1. LifeGoes(g, "return", "done") /\ wg' = wg - 1
    BY <1>2 DEF LifecycleDone
  <2>2. /\ IsFiniteSet(LiveLifecycles')
        /\ Cardinality(LiveLifecycles') = Cardinality(LiveLifecycles) - 1
        /\ Cardinality(LiveLifecycles) \in Nat \ {0}
    BY <2>1, LiveLeaves DEF GroupInv
  <2> QED
    BY <1>1, <2>1, <2>2 DEF GroupInv, WaitGroupExact, CheckerLive
<1>3. CASE ~LifecycleDone(g)
  <2>1. /\ UNCHANGED wg
        /\ \E from, to \in LifePcs \ {"none", "done"} : LifeGoes(g, from, to)
    BY <1>3 DEF Life, LifecycleBegins, EnrichReads, EnrichWrites, EnrichFails,
         CreateFails, LifecycleLocks, LifecycleChecks, LifecycleAssigns,
         CollectorLoads, LoadFails, CollectorStops, LifecycleNotes, LifecycleCleans,
         External, CollectorDies, CollectorCloses, CollectorHangs, LifePcs
  <2>2. LiveLifecycles' = LiveLifecycles
    BY <2>1, LiveStays
  <2> QED
    BY <1>1, <2>1, <2>2, GroupKept DEF CheckerLive
<1> QED
  BY <1>2, <1>3

LEMMA CheckerGroup == TypeOK /\ GroupInv /\ (Checker \/ CheckerQuits) => GroupInv'
<1> SUFFICES ASSUME TypeOK, GroupInv, Checker \/ CheckerQuits PROVE GroupInv'
  OBVIOUS
<1>1. CASE RestartSpawns
  <2>1. PICK g \in Lifecycles : LifeGoes(g, "none", "begin")
    BY <1>1 DEF RestartSpawns
  <2>2. /\ IsFiniteSet(LiveLifecycles')
        /\ Cardinality(LiveLifecycles') = Cardinality(LiveLifecycles) + 1
    BY <2>1, LiveJoins DEF GroupInv
  <2>3. wg' = wg + 1 /\ CheckerLive /\ CheckerLive'
    BY <1>1 DEF RestartSpawns, CheckerGoes, CheckerLive
  <2>4. Cardinality(LiveLifecycles) \in Nat
    BY FS_CardinalityType DEF GroupInv
  <2> QED
    BY <2>2, <2>3, <2>4 DEF GroupInv, WaitGroupExact
<1>2. CASE CheckerQuits
  <2>1. wg' = wg - 1 /\ CheckerLive /\ ~CheckerLive' /\ UNCHANGED lifePc
    BY <1>2 DEF CheckerQuits, CheckerGoes, CheckerLive
  <2>2. LiveLifecycles' = LiveLifecycles
    BY <2>1 DEF LiveLifecycles
  <2>3. Cardinality(LiveLifecycles) \in Nat
    BY FS_CardinalityType DEF GroupInv
  <2> QED
    BY <2>1, <2>2, <2>3 DEF GroupInv, WaitGroupExact
<1>3. CASE ~RestartSpawns /\ ~CheckerQuits
  <2>1. /\ UNCHANGED <<wg, lifePc>>
        /\ \E from, to \in CheckerPcs \ {"none", "done"} : CheckerGoes(from, to)
    BY <1>3 DEF Checker, CheckerMovesOn, ConfigDelivered, UpdateConfig, RestartTakes,
                RestartAsks, TakeReference, AskToStop, life, CheckerPcs
  <2>2. CheckerLive' = CheckerLive
    BY <2>1 DEF CheckerLive, CheckerGoes
  <2> QED
    BY <2>1, <2>2, GroupKept DEF LiveLifecycles
<1> QED
  BY <1>1, <1>2, <1>3
-----------------------------------------------------------------------------
\* Every step keeps the types; wg's is that of an exact count.
LEMMA TypeStep == TypeOK /\ GroupInv' /\ [Next]_vars => TypeOK'
<1> SUFFICES ASSUME TypeOK, GroupInv', [Next]_vars PROVE TypeOK'
  OBVIOUS
<1>0. wg' \in Nat
  BY FS_CardinalityType DEF GroupInv, WaitGroupExact
<1>1. CASE Stop \/ Service
  <2>1. /\ runPc' \in RunPcs /\ stopPc' \in StopPcs /\ ctxDone' \in BOOLEAN
        /\ isRunning' \in BOOLEAN /\ shutdownSignal' \in BOOLEAN
        /\ waitCh' \in {"none", "waiting", "closed"}
    BY <1>1 DEF TypeOK, RunPcs, StopPcs, Stop, Service, StartAgent, Launch, RunReturns,
       WaitGroupWait, ShutdownBegins, ShutdownSignals, ShutdownTakes, ShutdownAsks,
       StopMovesOn, RunGoes, StopGoes, flags, group
  <2>2. /\ checkerPc' \in CheckerPcs /\ lifePc' \in [Lifecycles -> LifePcs]
        /\ UNCHANGED <<local, serviceKeeps>>
    BY <1>1 DEF TypeOK, CheckerPcs, LifePcs, Stop, Service, StartAgent, Launch,
       RunReturns, WaitGroupWait, ShutdownBegins, ShutdownSignals, ShutdownTakes,
       ShutdownAsks, StopMovesOn, TakeReference, AskToStop, life
  <2>3. /\ collectorMu' \in Lifecycles \cup {Nobody}
        /\ collector' \in Lifecycles \cup {Nobody}
        /\ taken' \in [Callers -> Lifecycles \cup {Nobody}]
        /\ asked' \subseteq Lifecycles
    BY <1>1 DEF TypeOK, Stop, Service, StartAgent, Launch, RunReturns, WaitGroupWait,
       ShutdownBegins, ShutdownSignals, ShutdownTakes, ShutdownAsks, StopMovesOn,
       TakeReference, AskToStop, life, reference, Callers
  <2> QED
    BY <1>0, <2>1, <2>2, <2>3 DEF TypeOK, serviceKeeps, files
<1>2. CASE Checker \/ CheckerQuits
  <2>1. checkerPc' \in CheckerPcs /\ collectorError' \in Errors
    BY <1>2 DEF TypeOK, CheckerPcs, Errors, Checker, CheckerQuits, CheckerMovesOn,
       ConfigDelivered, UpdateConfig, RestartTakes, RestartAsks, RestartSpawns,
       CheckerGoes
  <2>2. cfgFile' \in 0 .. MaxUpdates /\ updates' \in 0 .. MaxUpdates
    BY <1>2 DEF TypeOK, Checker, CheckerQuits, CheckerMovesOn, ConfigDelivered,
       UpdateConfig, RestartTakes, RestartAsks, RestartSpawns
  <2>3. /\ lifePc' \in [Lifecycles -> LifePcs]
        /\ UNCHANGED checkerKeeps
    BY <1>2 DEF TypeOK, LifePcs, Checker, CheckerQuits, CheckerMovesOn,
       ConfigDelivered, UpdateConfig, RestartTakes, RestartAsks, RestartSpawns,
       TakeReference, AskToStop, life, LifeGoes
  <2>4. /\ collectorMu' \in Lifecycles \cup {Nobody}
        /\ collector' \in Lifecycles \cup {Nobody}
        /\ taken' \in [Callers -> Lifecycles \cup {Nobody}]
        /\ asked' \subseteq Lifecycles
    BY <1>2 DEF TypeOK, Checker, CheckerQuits, CheckerMovesOn, ConfigDelivered,
       UpdateConfig, RestartTakes, RestartAsks, RestartSpawns, TakeReference,
       AskToStop, life, reference, Callers
  <2> QED
    BY <1>0, <2>1, <2>2, <2>3, <2>4 DEF TypeOK, checkerKeeps, flags
<1>3. CASE \E g \in Lifecycles : Life(g) \/ External(g)
  <2> PICK g \in Lifecycles : Life(g) \/ External(g)
    BY <1>3
  <2>1. UNCHANGED lifeKeeps /\ lifePc' \in [Lifecycles -> LifePcs]
    BY DEF TypeOK, Life, LifecycleBegins, EnrichReads, EnrichWrites, EnrichFails,
       CreateFails, LifecycleLocks, LifecycleChecks, LifecycleAssigns, CollectorLoads,
       LoadFails, CollectorStops, LifecycleNotes, LifecycleCleans, LifecycleDone,
       External, CollectorDies, CollectorCloses, CollectorHangs, LifeGoes, LifePcs
  <2>2. /\ collectorMu' \in Lifecycles \cup {Nobody}
        /\ collector' \in Lifecycles \cup {Nobody}
    BY DEF TypeOK, Life, LifecycleBegins, EnrichReads, EnrichWrites, EnrichFails,
       CreateFails, LifecycleLocks, LifecycleChecks, LifecycleAssigns, CollectorLoads,
       LoadFails, CollectorStops, LifecycleNotes, LifecycleCleans, LifecycleDone,
       External, CollectorDies, CollectorCloses, CollectorHangs
  <2>3. local[g] \in Locals /\ cfgFile \in Contents /\ NewLocals \in Locals
    <3>1. NewLocals \in Locals
      BY DEF Contents, Locals, NewLocals, NoFile, Errors
    <3>2. cfgFile \in Contents
      BY DEF TypeOK, Contents
    <3> QED
      BY <3>1, <3>2 DEF TypeOK
  <2>4. /\ local' \in [Lifecycles -> Locals] /\ enriched' \in Contents
        /\ collectorError' \in Errors
    <3>1. CASE EnrichReads(g)
      BY <2>3, <3>1 DEF TypeOK, EnrichReads, Locals
    <3>2. CASE EnrichWrites(g)
      BY <2>3, <3>2 DEF TypeOK, EnrichWrites, Locals, Contents, NoFile
    <3>3. CASE EnrichFails(g)
      BY <2>3, <3>3 DEF TypeOK, EnrichFails, Locals
    <3>4. CASE CreateFails(g) \/ LoadFails(g) \/ CollectorCloses(g)
      <4>1. PICK e \in Errors :
               local' = [local EXCEPT ![g] = [NewLocals EXCEPT !.err = e]]
        BY <3>4 DEF CreateFails, LoadFails, CollectorCloses, Errors
      <4>2. [NewLocals EXCEPT !.err = e] \in Locals
        BY <2>3 DEF Locals
      <4>3. UNCHANGED <<enriched, collectorError>>
        BY <3>4 DEF CreateFails, LoadFails, CollectorCloses
      <4> QED
        BY <4>1, <4>2, <4>3 DEF TypeOK
    <3>5. CASE CollectorLoads(g)
      BY <2>3, <3>5 DEF TypeOK, CollectorLoads, Source, Locals
    <3>6. CASE LifecycleNotes(g) \/ LifecycleDone(g)
      BY <2>3, <3>6 DEF TypeOK, LifecycleNotes, LifecycleDone, Locals
    <3>7. CASE \/ LifecycleBegins(g) \/ LifecycleLocks(g) \/ LifecycleChecks(g)
               \/ LifecycleAssigns(g) \/ CollectorStops(g) \/ CollectorDies(g)
               \/ LifecycleCleans(g) \/ CollectorHangs(g)
      BY <3>7 DEF TypeOK, LifecycleBegins, LifecycleLocks, LifecycleChecks,
         LifecycleAssigns, CollectorStops, CollectorDies,
         LifecycleCleans, CollectorHangs
    <3> QED
      BY <3>1, <3>2, <3>3, <3>4, <3>5, <3>6, <3>7 DEF Life, External
  <2> QED
    BY <1>0, <2>1, <2>2, <2>4 DEF TypeOK, lifeKeeps, flags
<1>4. CASE UNCHANGED vars
  BY <1>4 DEF TypeOK, vars, flags, group, reference, life, files
<1> QED
  BY <1>1, <1>2, <1>3, <1>4 DEF Next, Ended
-----------------------------------------------------------------------------
\* What a lifecycle's step does to the program counters: one moves, from a
\* live one; nothing of the service or the checker changes.
LEMMA LifeFrame ==
    ASSUME NEW g \in Lifecycles, Life(g) \/ External(g)
    PROVE  UNCHANGED lifeKeeps /\ lifePc[g] # "none"
  BY DEF Life, LifecycleBegins, EnrichReads, EnrichWrites, EnrichFails, CreateFails,
       LifecycleLocks, LifecycleChecks, LifecycleAssigns, CollectorLoads, LoadFails,
       CollectorStops, LifecycleNotes, LifecycleCleans, LifecycleDone, External,
       CollectorDies, CollectorCloses, CollectorHangs, LifeGoes

\* A checker's step leaves the service alone and starts from a live counter;
\* it moves a lifecycle's counter only from "none" to "begin".
LEMMA CheckerFrame ==
    ASSUME TypeOK, Checker \/ CheckerQuits
    PROVE  /\ UNCHANGED checkerKeeps /\ checkerPc # "none"
           /\ \A g \in Lifecycles : lifePc'[g] = lifePc[g] \/
                  (checkerPc = "spawn" /\ lifePc[g] = "none" /\ lifePc'[g] = "begin")
  BY DEF TypeOK, Checker, CheckerQuits, CheckerMovesOn, ConfigDelivered, UpdateConfig,
       RestartTakes, RestartAsks, RestartSpawns, TakeReference, AskToStop, life,
       CheckerGoes, LifeGoes

\* A step of the service other than Launch leaves the goroutines' counters.
LEMMA ServiceFrame ==
    ASSUME Stop \/ Service, ~Launch
    PROVE  UNCHANGED <<lifePc, checkerPc>>
  BY DEF Stop, Service, StartAgent, RunReturns, WaitGroupWait, ShutdownBegins,
       ShutdownSignals, ShutdownTakes, ShutdownAsks, StopMovesOn, TakeReference,
       AskToStop, life

LEMMA LaunchStep == TypeOK /\ LaunchInv /\ [Next]_vars => LaunchInv'
<1> SUFFICES ASSUME TypeOK, LaunchInv, [Next]_vars PROVE LaunchInv'
  OBVIOUS
<1>1. CASE Stop \/ Service
  <2>1. CASE Launch
    BY <2>1 DEF Launch, RunGoes, LaunchInv
  <2>2. CASE ~Launch
    <3>1. UNCHANGED <<lifePc, checkerPc>>
      BY <1>1, <2>2, ServiceFrame
    <3>2. /\ runPc' = "start" => runPc = "start" /\ (isRunning' => isRunning)
          /\ runPc' = "detect" => runPc \in {"start", "detect"}
      BY <1>1, <2>2 DEF Stop, Service, StartAgent, RunReturns, WaitGroupWait,
         ShutdownBegins, ShutdownSignals, ShutdownTakes, ShutdownAsks, StopMovesOn,
         RunGoes, flags, TypeOK
    <3> QED
      BY <3>1, <3>2 DEF LaunchInv
  <2> QED
    BY <2>1, <2>2
<1>2. CASE Checker \/ CheckerQuits
  BY <1>2, CheckerFrame DEF LaunchInv, checkerKeeps
<1>3. CASE \E g \in Lifecycles : Life(g) \/ External(g)
  BY <1>3, LifeFrame DEF LaunchInv, lifeKeeps, flags
<1>4. CASE UNCHANGED vars
  BY <1>4 DEF LaunchInv, vars, flags, life
<1> QED
  BY <1>1, <1>2, <1>3, <1>4 DEF Next, Ended

LEMMA ShutdownStep == TypeOK /\ LaunchInv /\ ShutdownInv /\ [Next]_vars => ShutdownInv'
<1> SUFFICES ASSUME TypeOK, LaunchInv, ShutdownInv, [Next]_vars PROVE ShutdownInv'
  OBVIOUS
<1> USE DEF ShutdownInv, Won
<1>1. CASE StartAgent
  BY <1>1 DEF StartAgent, RunGoes, group
<1>2. CASE Launch \/ RunReturns
  BY <1>2 DEF Launch, RunReturns, RunGoes, flags, group
<1>3. CASE Stop \/ ShutdownBegins \/ ShutdownSignals
  BY <1>3 DEF Stop, ShutdownBegins, ShutdownSignals, StopGoes, flags, group, LaunchInv
<1>4. CASE ShutdownTakes \/ ShutdownAsks \/ StopMovesOn
  BY <1>4 DEF ShutdownTakes, ShutdownAsks, StopMovesOn, StopGoes, flags, group
<1>5. CASE WaitGroupWait
  BY <1>5 DEF WaitGroupWait, flags
<1>6. CASE Checker \/ CheckerQuits
  BY <1>6, CheckerFrame DEF checkerKeeps, flags
<1>7. CASE \E g \in Lifecycles : Life(g) \/ External(g)
  BY <1>7, LifeFrame DEF lifeKeeps, flags
<1>8. CASE UNCHANGED vars
  BY <1>8 DEF vars, flags, group
<1> QED
  BY <1>1, <1>2, <1>3, <1>4, <1>5, <1>6, <1>7, <1>8 DEF Next, Service, Ended

LEMMA LockStep == TypeOK /\ LaunchInv /\ ShutdownInv /\ LockInv /\ [Next]_vars => LockInv'
<1> SUFFICES ASSUME TypeOK, LaunchInv, ShutdownInv, LockInv, [Next]_vars,
                    NEW h \in Lifecycles
             PROVE  /\ lifePc'[h] \in {"check", "assign"} => collectorMu' = h
                    /\ lifePc'[h] = "assign" => isRunning' \/ stopPc' \in {"close", "take"}
  BY DEF LockInv
<1> DEFINE Mine == /\ lifePc[h] \in {"check", "assign"} => collectorMu = h
                   /\ lifePc[h] = "assign" => isRunning \/ stopPc \in {"close", "take"}
<1>0. Mine
  BY DEF LockInv
<1>1. CASE StartAgent \/ RunReturns \/ WaitGroupWait \/ ShutdownAsks
  BY <1>0, <1>1 DEF StartAgent, RunReturns, WaitGroupWait, ShutdownAsks, AskToStop,
                    StopGoes, flags, reference, life
<1>2. CASE Launch
  <2>1. lifePc' = [lifePc EXCEPT ![First] = "begin"]
    BY <1>2 DEF Launch
  <2>2. lifePc[h] = "none"
    BY <1>2 DEF Launch, RunGoes, LaunchInv
  <2> QED
    BY <2>1, <2>2 DEF TypeOK
<1>3. CASE Stop \/ ShutdownBegins \/ ShutdownSignals \/ StopMovesOn
  BY <1>0, <1>3 DEF Stop, ShutdownBegins, ShutdownSignals, StopMovesOn, StopGoes, flags,
                    reference, life
<1>4. CASE ShutdownTakes
  BY <1>0, <1>4 DEF ShutdownTakes, TakeReference, StopGoes, life
<1>5. CASE Checker \/ CheckerQuits
  <2>1. UNCHANGED collectorMu
    BY <1>5 DEF Checker, CheckerQuits, CheckerMovesOn, ConfigDelivered, UpdateConfig,
       RestartTakes, RestartAsks, RestartSpawns, TakeReference, AskToStop, reference
  <2> QED
    BY <1>0, <1>5, <2>1, CheckerFrame DEF checkerKeeps, flags
<1>6. CASE \E g \in Lifecycles : Life(g) \/ External(g)
  <2> PICK g \in Lifecycles : Life(g) \/ External(g)
    BY <1>6
  <2>1. UNCHANGED <<isRunning, stopPc>>
    BY LifeFrame DEF lifeKeeps, flags
  <2>2. CASE LifecycleLocks(g)
    BY <1>0, <2>1, <2>2 DEF LifecycleLocks, LifeGoes, TypeOK
  <2>3. CASE LifecycleChecks(g)
    BY <1>0, <2>1, <2>3 DEF LifecycleChecks, LifeGoes, TypeOK, LockInv
  <2>4. CASE LifecycleAssigns(g)
    BY <1>0, <2>1, <2>4 DEF LifecycleAssigns, LifeGoes, TypeOK, LockInv
  <2>5. CASE ~LifecycleLocks(g) /\ ~LifecycleChecks(g) /\ ~LifecycleAssigns(g)
    <3>1. UNCHANGED collectorMu
      BY <2>5 DEF Life, LifecycleBegins, EnrichReads, EnrichWrites, EnrichFails,
         CreateFails, CollectorLoads, LoadFails, CollectorStops, LifecycleNotes,
         LifecycleCleans, LifecycleDone, External,
         CollectorDies, CollectorCloses, CollectorHangs
    <3>2. \E from, to \in LifePcs : to \notin {"check", "assign"} /\ LifeGoes(g, from, to)
      BY <2>5 DEF Life, LifecycleBegins, EnrichReads, EnrichWrites, EnrichFails,
         CreateFails, CollectorLoads, LoadFails, CollectorStops, LifecycleNotes,
         LifecycleCleans, LifecycleDone, External,
         CollectorDies, CollectorCloses, CollectorHangs, LifePcs
    <3> QED
      BY <1>0, <2>1, <3>1, <3>2 DEF LifeGoes, TypeOK
  <2> QED
    BY <2>2, <2>3, <2>4, <2>5
<1>7. CASE UNCHANGED vars
  BY <1>0, <1>7 DEF vars, flags, reference, life
<1> QED
  BY <1>1, <1>2, <1>3, <1>4, <1>5, <1>6, <1>7 DEF Next, Service, Ended
\* Shutdown has finished with the reference only when no lifecycle holds the
\* mutex for an assignment, and none that checks isRunning later assigns.
LEMMA AssignmentStep ==
    TypeOK /\ ShutdownInv /\ LockInv /\ NoAssignmentAfterStop /\ [Next]_vars
        => NoAssignmentAfterStop'
<1> SUFFICES ASSUME TypeOK, ShutdownInv, LockInv, NoAssignmentAfterStop, [Next]_vars,
                    shutdownSignal', stopPc' # "take"
             PROVE  collector' = Nobody
  BY DEF NoAssignmentAfterStop
<1> USE DEF NoAssignmentAfterStop
<1>1. CASE StartAgent \/ Launch \/ RunReturns \/ WaitGroupWait
  BY <1>1 DEF StartAgent, Launch, RunReturns, WaitGroupWait, flags, reference
<1>2. CASE Stop \/ ShutdownBegins \/ ShutdownSignals \/ StopMovesOn
  BY <1>2 DEF Stop, ShutdownBegins, ShutdownSignals, StopMovesOn, StopGoes, flags,
              reference, ShutdownInv, Won
<1>3. CASE ShutdownTakes
  BY <1>3 DEF ShutdownTakes, TakeReference
<1>4. CASE ShutdownAsks
  BY <1>4 DEF ShutdownAsks, AskToStop, StopGoes, flags
<1>5. CASE Checker \/ CheckerQuits
  <2>1. collector' \in {collector, Nobody}
    BY <1>5 DEF Checker, CheckerQuits, CheckerMovesOn, ConfigDelivered, UpdateConfig,
       RestartTakes, RestartAsks, RestartSpawns, TakeReference, AskToStop, reference
  <2> QED
    BY <1>5, <2>1, CheckerFrame DEF checkerKeeps, flags
<1>6. CASE \E g \in Lifecycles : Life(g) \/ External(g)
  <2> PICK g \in Lifecycles : Life(g) \/ External(g)
    BY <1>6
  <2>1. UNCHANGED <<isRunning, shutdownSignal, stopPc>>
    BY LifeFrame DEF lifeKeeps, flags
  <2>2. CASE LifecycleAssigns(g)
    <3>1. lifePc[g] = "assign" /\ ~isRunning
      BY <2>1, <2>2 DEF LifecycleAssigns, LifeGoes, ShutdownInv, Won
    <3>2. stopPc \in {"close", "take"}
      BY <3>1 DEF LockInv
    <3> QED
      BY <2>1, <3>2 DEF ShutdownInv
  <2>3. CASE ~LifecycleAssigns(g)
    <3>1. collector' \in {collector, Nobody}
      BY <2>3 DEF Life, LifecycleBegins, EnrichReads, EnrichWrites, EnrichFails,
         CreateFails, LifecycleLocks, LifecycleChecks, CollectorLoads, LoadFails,
         CollectorStops, LifecycleNotes, LifecycleCleans, LifecycleDone,
         External, CollectorDies, CollectorCloses, CollectorHangs
    <3> QED
      BY <2>1, <3>1
  <2> QED
    BY <2>2, <2>3
<1>7. CASE UNCHANGED vars
  BY <1>7 DEF vars, flags, reference
<1> QED
  BY <1>1, <1>2, <1>3, <1>4, <1>5, <1>6, <1>7 DEF Next, Service, Ended

\* wg.Wait returns when no counted goroutine is alive; what is launched after
\* that meets isRunning = FALSE at its first check.
LEMMA WaitStep ==
    TypeOK /\ GroupInv /\ LaunchInv /\ ShutdownInv /\ WaitInv /\ [Next]_vars => WaitInv'
<1> SUFFICES ASSUME TypeOK, GroupInv, LaunchInv, ShutdownInv, WaitInv, [Next]_vars,
                    waitCh' = "closed"
             PROVE  /\ \A g \in Lifecycles :
                            lifePc'[g] \in {"none", "begin", "return", "done"}
                    /\ checkerPc' \notin {"take", "signal", "spawn"}
  BY DEF WaitInv
<1>1. CASE WaitGroupWait
  <2>1. wg = 0 /\ UNCHANGED <<lifePc, checkerPc>>
    BY <1>1 DEF WaitGroupWait, life
  <2>2. IsFiniteSet(LiveLifecycles) /\ Cardinality(LiveLifecycles) \in Nat
    BY FS_CardinalityType DEF GroupInv
  <2>3. ~CheckerLive /\ Cardinality(LiveLifecycles) = 0
    BY <2>1, <2>2 DEF GroupInv, WaitGroupExact, CheckerLive
  <2>4. LiveLifecycles = {}
    BY <2>2, <2>3, FS_EmptySet
  <2> QED
    BY <2>1, <2>3, <2>4 DEF LiveLifecycles, CheckerLive
<1>2. ASSUME ~WaitGroupWait PROVE waitCh = "closed" \/ UNCHANGED vars
  BY <1>2, CheckerFrame, LifeFrame DEF Next, Stop, Service, StartAgent, Launch,
     RunReturns, ShutdownBegins, ShutdownSignals, ShutdownTakes, ShutdownAsks,
     StopMovesOn, group, checkerKeeps, lifeKeeps, Ended
<1>3. ASSUME waitCh = "closed"
      PROVE  /\ ~isRunning
             /\ \A g \in Lifecycles : lifePc[g] \in {"none", "begin", "return", "done"}
             /\ checkerPc \notin {"take", "signal", "spawn"}
  BY <1>3 DEF ShutdownInv, Won, WaitInv
<1>4. CASE (Stop \/ Service) /\ ~WaitGroupWait
  <2>1. CASE Launch
    BY <1>2, <1>3, <1>4, <2>1 DEF Launch, TypeOK, vars
  <2>2. CASE ~Launch
    BY <1>2, <1>3, <1>4, <2>2, ServiceFrame DEF vars, group, WaitInv
  <2> QED
    BY <2>1, <2>2
<1>5. CASE Checker \/ CheckerQuits
  <2>1. waitCh = "closed"
    BY <1>5, CheckerFrame DEF checkerKeeps
  <2>2. checkerPc' \notin {"take", "signal", "spawn"}
    BY <1>3, <1>5, <2>1 DEF Checker, CheckerQuits, CheckerMovesOn, ConfigDelivered,
       UpdateConfig, RestartTakes, RestartAsks, RestartSpawns, CheckerGoes
  <2> QED
    BY <1>3, <1>5, <2>1, <2>2, CheckerFrame
<1>6. CASE \E g \in Lifecycles : Life(g) \/ External(g)
  <2> PICK g \in Lifecycles : Life(g) \/ External(g)
    BY <1>6
  <2>1. UNCHANGED <<waitCh, checkerPc>>
    BY LifeFrame DEF lifeKeeps
  <2>2. lifePc[g] \in {"begin", "return"} /\ ~isRunning
    BY <1>3, <2>1, LifeFrame DEF Life, LifecycleBegins, EnrichReads, EnrichWrites,
       EnrichFails, CreateFails, LifecycleLocks, LifecycleChecks, LifecycleAssigns,
       CollectorLoads, LoadFails, CollectorStops, LifecycleNotes, LifecycleCleans,
       LifecycleDone, External,
       CollectorDies, CollectorCloses, CollectorHangs, LifeGoes
  <2>3. LifeGoes(g, "begin", "return") \/ LifeGoes(g, "return", "done")
    BY <2>2 DEF Life, LifecycleBegins, EnrichReads, EnrichWrites,
       EnrichFails, CreateFails, LifecycleLocks, LifecycleChecks, LifecycleAssigns,
       CollectorLoads, LoadFails, CollectorStops, LifecycleNotes, LifecycleCleans,
       LifecycleDone, External,
       CollectorDies, CollectorCloses, CollectorHangs, LifeGoes
  <2> QED
    BY <1>3, <2>1, <2>3 DEF LifeGoes, TypeOK
<1>7. CASE UNCHANGED vars
  BY <1>3, <1>7 DEF vars, group, life
<1> QED
  BY <1>1, <1>4, <1>5, <1>6, <1>7 DEF Next, Ended
-----------------------------------------------------------------------------
\* The invariant holds in every reachable state.
THEOREM Invariance == Spec => []IInv
<1>1. IInv /\ [Next]_vars => IInv'
  <2> SUFFICES ASSUME IInv, [Next]_vars PROVE IInv'
    OBVIOUS
  <2> USE DEF IInv
  <2>1. GroupInv'
    <3>1. CASE UNCHANGED vars
      BY <3>1, GroupKept DEF vars, group, life, LiveLifecycles, CheckerLive
    <3> QED
      BY <3>1, ServiceGroup, LifeGroup, CheckerGroup DEF Next, Ended
  <2> QED
    BY <2>1, TypeStep, LaunchStep, ShutdownStep, LockStep, WaitStep, AssignmentStep
<1> QED
  BY <1>1, InitIInv, PTL DEF Spec

\* Every variable keeps its type: in particular wg never goes below zero,
\* which would be a panic of the WaitGroup.
THEOREM TypeCorrect == Spec => []TypeOK
  BY Invariance, PTL DEF IInv

\* The WaitGroup counts the live goroutines, for any number of restarts.
THEOREM WaitGroupCounts == Spec => []WaitGroupExact
  BY Invariance, PTL DEF IInv, GroupInv

\* No lifecycle assigns a collector that Shutdown does not see.
THEOREM NothingEscapesShutdown == Spec => []NoAssignmentAfterStop
  BY Invariance, PTL DEF IInv

\* When Shutdown has seen the WaitGroup drained, no collector runs any more.
THEOREM CleanShutdown == Spec => []NoCollectorAfterWait
<1>1. IInv => NoCollectorAfterWait
  BY DEF IInv, WaitInv, NoCollectorAfterWait, InRun
<1> QED
  BY <1>1, Invariance, PTL
=============================================================================
