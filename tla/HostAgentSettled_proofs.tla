------------------------- MODULE HostAgentSettled_proofs -------------------------
(***************************************************************************)
(* What the host agent guarantees if restarts are allowed to settle: no    *)
(* collector is lost, the one in service runs the configuration on disk,   *)
(* and none displaces another.                                             *)
(***************************************************************************)
EXTENDS HostAgentSettled, HostAgentSupervision_proofs

USE LifecyclesAssumption DEF LifecyclesAssumption

\* A lifecycle on its way to the assignment of its collector.
Early(g) == Starting(g) /\ lifePc[g] # "load"

\* One lifecycle starts at a time, none while the checker carries out an answer,
\* and until it assigns its collector no other one is in service.
StartInv ==
    /\ \A g, h \in Lifecycles : Starting(g) /\ Starting(h) => g = h
    /\ checkerPc \in {"update", "recheck", "take", "signal", "spawn"} =>
           \A g \in Lifecycles : ~Starting(g)
    /\ (\E g \in Lifecycles : Early(g)) => collector = Nobody
    /\ checkerPc \in {"signal", "spawn"} => collector = Nobody
    /\ checkerPc = "none" => collector = Nobody /\ \A g \in Lifecycles : lifePc[g] = "none"

\* What the starting lifecycle has read, and has written, is what is on disk.
ReadInv ==
    \A g \in Lifecycles : local[g].path = "enriched" =>
        /\ lifePc[g] \in {"truncate", "write", "create", "check", "assign", "load"}
               => local[g].data = cfgFile
        /\ lifePc[g] \in {"create", "check", "assign", "load"} => enriched = local[g].data

\* The collector in service runs that, or the checker is about to replace it, or
\* the agent shuts down.
ServesInv ==
    \A g \in Lifecycles : collector = g /\ lifePc[g] = "running" =>
        \/ local[g].conf = cfgFile
        \/ checkerPc \in {"recheck", "take"}
        \/ ~isRunning

SettledInv == StartInv /\ NoOrphan /\ ReadInv /\ ServesInv /\ RunsOwnConfig

SettledNext == Next /\ SettledServer
-----------------------------------------------------------------------------
\* In a lifecycle's step only its own counter moves, and only forward.
LEMMA LifeMoves ==
    ASSUME TypeOK, NEW g \in Lifecycles, Life(g) \/ External(g)
    PROVE  /\ \A h \in Lifecycles \ {g} : lifePc'[h] = lifePc[h]
           /\ Starting(g)' => Starting(g)
           /\ Early(g)' => Early(g)
           /\ collector' # collector => collector' = Nobody \/ LifecycleAssigns(g)
<1>1. \E from, to \in LifePcs : LifeGoes(g, from, to)
         /\ (to \in {"read", "truncate", "write", "create", "check", "assign"} =>
                from \in {"begin", "read", "truncate", "write", "create", "check"})
         /\ to # "begin" /\ (to = "load" => from = "assign")
  BY DEF Life, LifecycleBegins, EnrichReads, EnrichWrites, EnrichFails, CreateFails,
     LifecycleLocks, LifecycleChecks, LifecycleAssigns, CollectorLoads, LoadFails,
     CollectorStops, LifecycleNotes, LifecycleCleans, LifecycleDone, External,
     CollectorDies, CollectorCloses, CollectorHangs, LifePcs
<1>2. /\ \A h \in Lifecycles \ {g} : lifePc'[h] = lifePc[h]
      /\ Starting(g)' => Starting(g)
      /\ Early(g)' => Early(g)
  BY <1>1 DEF LifeGoes, TypeOK, Starting, Early
<1>3. collector' # collector => collector' = Nobody \/ LifecycleAssigns(g)
  BY DEF Life, LifecycleBegins, EnrichReads, EnrichWrites, EnrichFails, CreateFails,
     LifecycleLocks, LifecycleChecks, CollectorLoads, LoadFails,
     CollectorStops, LifecycleNotes, LifecycleCleans, LifecycleDone, External,
     CollectorDies, CollectorCloses, CollectorHangs
<1> QED
  BY <1>2, <1>3

\* A step of the checker that spawns nothing leaves the lifecycles alone.
LEMMA CheckerSpawns ==
    ASSUME Checker \/ CheckerQuits, ~RestartSpawns
    PROVE  UNCHANGED lifePc
  BY DEF Checker, CheckerQuits, CheckerMovesOn, ConfigDelivered, UpdateConfig,
     RestartTakes, RestartAsks, TakeReference, AskToStop, life

\* A step of the service may take the reference, and leaves the rest alone.
LEMMA ServiceReference ==
    ASSUME Stop \/ Service
    PROVE  UNCHANGED <<local, serviceKeeps>> /\ collector' \in {collector, Nobody}
  BY DEF Stop, Service, StartAgent, Launch, RunReturns, WaitGroupWait,
     ShutdownBegins, ShutdownSignals, ShutdownTakes, ShutdownAsks, StopMovesOn,
     TakeReference, AskToStop, reference, life

LEMMA InitSettled == Init => SettledInv
<1> SUFFICES ASSUME Init PROVE SettledInv
  OBVIOUS
<1>1. \A g \in Lifecycles : lifePc[g] = "none"
  BY DEF Init
<1> QED
  BY <1>1 DEF Init, SettledInv, StartInv, NoOrphan, ReadInv, ServesInv, RunsOwnConfig,
              Starting, Early
-----------------------------------------------------------------------------
LEMMA StartStep == TypeOK /\ LaunchInv /\ StartInv /\ [SettledNext]_vars => StartInv'
<1> SUFFICES ASSUME TypeOK, LaunchInv, StartInv, [SettledNext]_vars PROVE StartInv'
  OBVIOUS
<1> USE DEF StartInv
<1>1. CASE Launch
  <2>1. \A g \in Lifecycles : lifePc[g] = "none" /\ Starting(g)' => g = First
    BY <1>1 DEF Launch, RunGoes, LaunchInv, TypeOK, Starting
  <2>2. checkerPc = "none" /\ checkerPc' = "begin" /\ collector' = collector
    BY <1>1 DEF Launch, RunGoes, LaunchInv, reference
  <2>3. \A g \in Lifecycles : lifePc[g] = "none"
    BY <1>1 DEF Launch, RunGoes, LaunchInv
  <2> QED
    BY <2>1, <2>2, <2>3 DEF Early
<1>2. CASE (Stop \/ Service) /\ ~Launch
  BY <1>2, ServiceFrame, ServiceReference DEF Starting, Early
<1>3. CASE RestartSpawns
  <2>1. checkerPc = "spawn" /\ checkerPc' = "select" /\ UNCHANGED collector
    BY <1>3 DEF RestartSpawns, CheckerGoes, reference
  <2>2. PICK g \in Lifecycles : LifeGoes(g, "none", "begin")
    BY <1>3 DEF RestartSpawns
  <2>3. \A h \in Lifecycles : Starting(h)' => h = g
    BY <2>1, <2>2 DEF LifeGoes, TypeOK, Starting
  <2> QED
    BY <2>1, <2>3
<1>4. CASE (Checker \/ CheckerQuits) /\ ~RestartSpawns
  <2>1. UNCHANGED lifePc /\ checkerPc # "none" /\ checkerPc' # "none"
    BY <1>4, CheckerSpawns, CheckerFrame DEF Checker, CheckerQuits, CheckerMovesOn,
       ConfigDelivered, UpdateConfig, RestartTakes, RestartAsks, CheckerGoes
  <2>2. checkerPc' = "update" => \A g \in Lifecycles : ~Starting(g)
    BY <1>4, <2>1 DEF SettledNext, SettledServer, vars
  <2>3. /\ checkerPc' \in {"recheck", "take", "signal", "spawn"} =>
               checkerPc \in {"update", "recheck", "take", "signal"}
        /\ collector' \in {collector, Nobody}
        /\ checkerPc' = "signal" => collector' = Nobody
        /\ checkerPc' = "spawn" => checkerPc = "signal"
    BY <1>4 DEF Checker, CheckerQuits, CheckerMovesOn, ConfigDelivered, UpdateConfig,
       RestartTakes, RestartAsks, TakeReference, AskToStop, CheckerGoes, reference
  <2> QED
    BY <2>1, <2>2, <2>3 DEF Starting, Early
<1>5. CASE \E g \in Lifecycles : Life(g) \/ External(g)
  <2> PICK g \in Lifecycles : Life(g) \/ External(g)
    BY <1>5
  <2>1. UNCHANGED checkerPc /\ lifePc[g] # "none"
    BY LifeFrame DEF lifeKeeps
  <2>2. \A h \in Lifecycles : (Starting(h)' => Starting(h)) /\ (Early(h)' => Early(h))
    BY LifeMoves DEF Starting, Early
  <2>3. CASE collector' \in {collector, Nobody}
    BY <2>1, <2>2, <2>3
  <2>4. CASE LifecycleAssigns(g)
    <3>1. Early(g) /\ Starting(g) /\ lifePc'[g] = "load"
      BY <2>4 DEF LifecycleAssigns, LifeGoes, Early, Starting, TypeOK
    <3>2. \A h \in Lifecycles : ~Early(h)'
      BY <2>2, <3>1 DEF Early, Starting
    <3> QED
      BY <2>1, <2>2, <3>1, <3>2
  <2> QED
    BY <2>3, <2>4, LifeMoves
<1>6. CASE UNCHANGED vars
  BY <1>6 DEF vars, life, reference, Starting, Early
<1> QED
  BY <1>1, <1>2, <1>3, <1>4, <1>5, <1>6 DEF SettledNext, Next, Ended

\* Who is displaced would be an orphan, and nobody is displaced.
LEMMA OrphanStep ==
    TypeOK /\ LaunchInv /\ TakerInv /\ StartInv /\ NoOrphan /\ [SettledNext]_vars => NoOrphan'
<1> SUFFICES ASSUME TypeOK, LaunchInv, TakerInv, StartInv, NoOrphan, [SettledNext]_vars,
                    NEW h \in Lifecycles, lifePc'[h] \in {"load", "running"}
             PROVE  h \in asked' \/ collector' = h \/ \E s \in Callers : taken'[s] = h
  BY DEF NoOrphan
<1> DEFINE Held == h \in asked \/ collector = h \/ \E s \in Callers : taken[s] = h
<1>1. lifePc[h] \in {"load", "running"} => Held
  BY DEF NoOrphan
<1>2. ASSUME NEW s \in Callers, lifePc[h] \in {"load", "running"},
             (taken[s] = Nobody /\ TakeReference(s)) \/ AskToStop(s)
      PROVE  h \in asked' \/ collector' = h \/ \E r \in Callers : taken'[r] = h
  <2>1. CASE taken[s] = Nobody /\ TakeReference(s)
    <3>1. \A r \in Callers : taken'[r] = IF r = s THEN collector ELSE taken[r]
      BY <2>1 DEF TakeReference, TypeOK
    <3>2. taken[s] # h /\ UNCHANGED asked
      BY <1>2, <2>1 DEF TakeReference, life
    <3> QED
      BY <1>1, <1>2, <3>1, <3>2
  <2>2. CASE AskToStop(s)
    <3>1. \A r \in Callers : taken'[r] = IF r = s THEN Nobody ELSE taken[r]
      BY <2>2 DEF AskToStop, TypeOK
    <3>2. asked' = asked \cup ({taken[s]} \ {Nobody}) /\ UNCHANGED collector
      BY <2>2 DEF AskToStop
    <3> QED
      BY <1>1, <1>2, <3>1, <3>2
  <2> QED
    BY <1>2, <2>1, <2>2
<1>3. CASE Launch
  BY <1>3 DEF Launch, RunGoes, LaunchInv, TypeOK
<1>4. CASE ShutdownTakes \/ ShutdownAsks
  <2>1. UNCHANGED lifePc
    BY <1>4 DEF ShutdownTakes, ShutdownAsks, TakeReference, AskToStop, life
  <2>2. (taken["stop"] = Nobody /\ TakeReference("stop")) \/ AskToStop("stop")
    BY <1>4 DEF ShutdownTakes, ShutdownAsks, StopGoes, TakerInv
  <2> QED
    BY <1>2, <2>1, <2>2 DEF Callers
<1>5. CASE (Stop \/ Service) /\ ~Launch /\ ~ShutdownTakes /\ ~ShutdownAsks
  BY <1>1, <1>5 DEF Stop, Service, StartAgent, RunReturns, WaitGroupWait, ShutdownBegins,
                    ShutdownSignals, StopMovesOn, reference, life
<1>6. CASE RestartTakes \/ RestartAsks
  <2>1. UNCHANGED lifePc
    BY <1>6 DEF RestartTakes, RestartAsks, TakeReference, AskToStop, life
  <2>2. (taken["checker"] = Nobody /\ TakeReference("checker")) \/ AskToStop("checker")
    BY <1>6 DEF RestartTakes, RestartAsks, CheckerGoes, TakerInv
  <2> QED
    BY <1>2, <2>1, <2>2 DEF Callers
<1>7. CASE (Checker \/ CheckerQuits) /\ ~RestartTakes /\ ~RestartAsks
  <2>1. UNCHANGED <<collector, taken, asked>>
    BY <1>7 DEF Checker, CheckerQuits, CheckerMovesOn, ConfigDelivered, UpdateConfig,
                RestartSpawns, reference
  <2> QED
    BY <1>1, <1>7, <2>1, CheckerFrame
<1>8. CASE \E g \in Lifecycles : Life(g) \/ External(g)
  <2> PICK g \in Lifecycles : Life(g) \/ External(g)
    BY <1>8
  <2>1. UNCHANGED <<taken, asked>>
    BY LifeFrame DEF lifeKeeps
  <2>2. CASE LifecycleAssigns(g)
    <3>1. lifePc[g] = "assign" /\ collector' = g
      BY <2>2 DEF LifecycleAssigns, LifeGoes
    <3>2. collector = Nobody
      BY <3>1 DEF StartInv, Early, Starting
    <3> QED
      BY <1>1, <2>1, <3>1, <3>2, LifeMoves
  <2>3. CASE LifecycleCleans(g)
    <3>1. /\ lifePc' = [lifePc EXCEPT ![g] = "return"]
          /\ collector' = IF collector = g THEN Nobody ELSE collector
      BY <2>3 DEF LifecycleCleans, LifeGoes
    <3>2. h # g
      BY <3>1 DEF TypeOK
    <3> QED
      BY <1>1, <2>1, <3>1, <3>2, LifeMoves
  <2>4. CASE ~LifecycleAssigns(g) /\ ~LifecycleCleans(g)
    <3>1. UNCHANGED collector
      BY <2>4 DEF Life, LifecycleBegins, EnrichReads, EnrichWrites, EnrichFails,
         CreateFails, LifecycleLocks, LifecycleChecks, CollectorLoads, LoadFails,
         CollectorStops, LifecycleNotes, LifecycleDone, External,
         CollectorDies, CollectorCloses, CollectorHangs
    <3>2. lifePc'[g] \in {"load", "running"} => lifePc[g] \in {"load", "running"}
      BY <2>4 DEF Life, LifecycleBegins, EnrichReads, EnrichWrites, EnrichFails,
         CreateFails, LifecycleLocks, LifecycleChecks, CollectorLoads, LoadFails,
         CollectorStops, LifecycleNotes, LifecycleDone, External,
         CollectorDies, CollectorCloses, CollectorHangs, LifeGoes, TypeOK
    <3> QED
      BY <1>1, <2>1, <3>1, <3>2, LifeMoves
  <2> QED
    BY <2>2, <2>3, <2>4
<1>9. CASE UNCHANGED vars
  BY <1>1, <1>9 DEF vars, reference, life
<1> QED
  BY <1>3, <1>4, <1>5, <1>6, <1>7, <1>8, <1>9 DEF SettledNext, Next, Ended

\* Only the starting lifecycle writes the enriched file, and the configuration
\* does not change under it.
LEMMA ReadStep == TypeOK /\ LaunchInv /\ StartInv /\ ReadInv /\ [SettledNext]_vars => ReadInv'
<1> SUFFICES ASSUME TypeOK, LaunchInv, StartInv, ReadInv, [SettledNext]_vars,
                    NEW h \in Lifecycles, local'[h].path = "enriched"
             PROVE  /\ lifePc'[h] \in {"truncate", "write", "create", "check", "assign", "load"}
                           => local'[h].data = cfgFile'
                    /\ lifePc'[h] \in {"create", "check", "assign", "load"}
                           => enriched' = local'[h].data
  BY DEF ReadInv
<1>1. /\ local[h].path = "enriched" =>
            /\ lifePc[h] \in {"truncate", "write", "create", "check", "assign", "load"}
                   => local[h].data = cfgFile
            /\ lifePc[h] \in {"create", "check", "assign", "load"}
                   => enriched = local[h].data
  BY DEF ReadInv
<1>2. CASE Stop \/ Service
  <2>1. UNCHANGED <<local, cfgFile, enriched>>
    BY <1>2, ServiceReference DEF serviceKeeps, files
  <2>2. CASE Launch
    BY <2>2 DEF Launch, RunGoes, LaunchInv, TypeOK
  <2>3. CASE ~Launch
    BY <1>1, <1>2, <2>1, <2>3, ServiceFrame
  <2> QED
    BY <2>2, <2>3
<1>3. CASE Checker \/ CheckerQuits
  <2>1. UNCHANGED <<local, enriched>>
    BY <1>3, CheckerFrame DEF checkerKeeps
  <2>2. cfgFile' = cfgFile \/ checkerPc = "update"
    BY <1>3 DEF Checker, CheckerQuits, CheckerMovesOn, ConfigDelivered, UpdateConfig,
       RestartTakes, RestartAsks, RestartSpawns, CheckerGoes
  <2>3. lifePc'[h] = lifePc[h] \/ lifePc'[h] = "begin"
    BY <1>3, CheckerFrame
  <2> QED
    BY <1>1, <2>1, <2>2, <2>3 DEF StartInv, Starting
<1>4. CASE \E g \in Lifecycles : Life(g) \/ External(g)
  <2> PICK g \in Lifecycles : Life(g) \/ External(g)
    BY <1>4
  <2>1. UNCHANGED cfgFile
    BY LifeFrame DEF lifeKeeps
  <2>2. CASE g # h
    <3>1. lifePc'[h] = lifePc[h]
      BY <2>2, LifeMoves
    <3>2. local'[h] = local[h]
      BY <2>2 DEF TypeOK, Life, LifecycleBegins, EnrichReads, EnrichWrites, EnrichFails,
         CreateFails, LifecycleLocks, LifecycleChecks, LifecycleAssigns, CollectorLoads,
         LoadFails, CollectorStops, LifecycleNotes, LifecycleCleans, LifecycleDone,
         External, CollectorDies, CollectorCloses, CollectorHangs
    <3>3. enriched' = enriched \/ Starting(g)
      BY DEF Life, LifecycleBegins, EnrichReads, EnrichWrites, EnrichFails,
         CreateFails, LifecycleLocks, LifecycleChecks, LifecycleAssigns, CollectorLoads,
         LoadFails, CollectorStops, LifecycleNotes, LifecycleCleans, LifecycleDone,
         External, CollectorDies, CollectorCloses, CollectorHangs, LifeGoes, Starting
    <3> QED
      BY <1>1, <2>1, <2>2, <3>1, <3>2, <3>3 DEF StartInv, Starting
  <2>3. CASE g = h
    <3>1. local[h] \in Locals
      BY DEF TypeOK
    <3>2. CASE EnrichReads(h)
      BY <2>1, <3>1, <3>2 DEF EnrichReads, LifeGoes, TypeOK, Locals
    <3>3. CASE EnrichWrites(h)
      BY <1>1, <2>1, <3>3 DEF EnrichWrites, LifeGoes, TypeOK
    <3>4. CASE EnrichFails(h)
      <4>1. local'[h].path = "original"
        BY <3>1, <3>4 DEF EnrichFails, TypeOK, Locals
      <4> QED
        BY <4>1
    <3>5. CASE LifecycleLocks(h) \/ LifecycleChecks(h) \/ LifecycleAssigns(h)
      BY <1>1, <2>1, <3>5
      DEF LifecycleLocks, LifecycleChecks, LifecycleAssigns, LifeGoes, TypeOK
    <3>6. CASE ~(\/ EnrichReads(h) \/ EnrichWrites(h) \/ EnrichFails(h)
                 \/ LifecycleLocks(h) \/ LifecycleChecks(h) \/ LifecycleAssigns(h))
      <4>1. lifePc'[h] \notin {"truncate", "write", "create", "check", "assign", "load"}
        BY <2>3, <3>6 DEF Life, LifecycleBegins, CreateFails, CollectorLoads,
           LoadFails, CollectorStops, LifecycleNotes, LifecycleCleans, LifecycleDone,
           External, CollectorDies, CollectorCloses, CollectorHangs, LifeGoes, TypeOK
      <4> QED
        BY <4>1
    <3> QED
      BY <3>2, <3>3, <3>4, <3>5, <3>6
  <2> QED
    BY <2>2, <2>3
<1>5. CASE UNCHANGED vars
  BY <1>1, <1>5 DEF vars, life, files
<1> QED
  BY <1>2, <1>3, <1>4, <1>5 DEF SettledNext, Next, Ended

\* A collector that begins to run has loaded what is on disk.
LEMMA LoadsCurrent ==
    ASSUME TypeOK, ReadInv, NEW g \in Lifecycles, CollectorLoads(g)
    PROVE  /\ local'[g].conf = cfgFile'
           /\ local'[g].path = "enriched" => local'[g].conf = local'[g].data
<1>1. lifePc[g] = "load" /\ UNCHANGED cfgFile
  BY DEF CollectorLoads, LifeGoes, lifeKeeps
<1>2. local[g] \in Locals /\ local'[g] = [local[g] EXCEPT !.conf = Source(g)]
  BY DEF CollectorLoads, TypeOK
<1>3. /\ Source(g) = cfgFile
      /\ local[g].path = "enriched" => Source(g) = local[g].data
  BY <1>1 DEF Source, ReadInv
<1> QED
  BY <1>1, <1>2, <1>3 DEF Locals

\* Whoever runs after a lifecycle's step ran before, or has just loaded.
LEMMA LifeRuns ==
    ASSUME TypeOK, NEW g \in Lifecycles, Life(g) \/ External(g),
           NEW h \in Lifecycles, lifePc'[h] = "running"
    PROVE  \/ h = g /\ CollectorLoads(g)
           \/ lifePc[h] = "running" /\ local'[h] = local[h]
<1>1. CASE g = h
  BY <1>1 DEF Life, LifecycleBegins, EnrichReads, EnrichWrites, EnrichFails, CreateFails,
     LifecycleLocks, LifecycleChecks, LifecycleAssigns, LoadFails,
     CollectorStops, LifecycleNotes, LifecycleCleans, LifecycleDone, External,
     CollectorDies, CollectorCloses, CollectorHangs, LifeGoes, TypeOK
<1>2. CASE g # h
  <2>1. lifePc'[h] = lifePc[h]
    BY <1>2, LifeMoves
  <2>2. local'[h] = local[h]
    BY <1>2 DEF TypeOK, Life, LifecycleBegins, EnrichReads, EnrichWrites, EnrichFails,
       CreateFails, LifecycleLocks, LifecycleChecks, LifecycleAssigns, CollectorLoads,
       LoadFails, CollectorStops, LifecycleNotes, LifecycleCleans, LifecycleDone,
       External, CollectorDies, CollectorCloses, CollectorHangs
  <2> QED
    BY <2>1, <2>2
<1> QED
  BY <1>1, <1>2

\* A new configuration on disk is passed on: the collector in service is replaced
\* before the checker is idle again.
LEMMA ServesStep ==
    TypeOK /\ LaunchInv /\ ReadInv /\ ServesInv /\ [SettledNext]_vars => ServesInv'
<1> SUFFICES ASSUME TypeOK, LaunchInv, ReadInv, ServesInv, [SettledNext]_vars,
                    NEW h \in Lifecycles, collector' = h, lifePc'[h] = "running"
             PROVE  \/ local'[h].conf = cfgFile'
                    \/ checkerPc' \in {"recheck", "take"}
                    \/ ~isRunning'
  BY DEF ServesInv
<1>1. collector = h /\ lifePc[h] = "running" =>
          local[h].conf = cfgFile \/ checkerPc \in {"recheck", "take"} \/ ~isRunning
  BY DEF ServesInv
<1>2. CASE StartAgent \/ Launch
  BY <1>2 DEF StartAgent, Launch, RunGoes, LaunchInv, life, TypeOK
<1>3. CASE (Stop \/ Service) /\ ~StartAgent /\ ~Launch
  <2>1. UNCHANGED <<local, cfgFile, lifePc, checkerPc>> /\ collector = h
    BY <1>3, ServiceReference, ServiceFrame DEF serviceKeeps, files
  <2>2. isRunning' => isRunning
    BY <1>3 DEF Stop, Service, RunReturns, WaitGroupWait, ShutdownBegins,
       ShutdownSignals, ShutdownTakes, ShutdownAsks, StopMovesOn, flags
  <2> QED
    BY <1>1, <2>1, <2>2
<1>4. CASE Checker \/ CheckerQuits
  <2>1. UNCHANGED <<local, isRunning>> /\ lifePc[h] = "running"
    BY <1>4, CheckerFrame DEF checkerKeeps, flags
  <2>2. collector = h /\ ~RestartTakes
    BY <1>4 DEF Checker, CheckerQuits, CheckerMovesOn, ConfigDelivered, UpdateConfig,
       RestartTakes, RestartAsks, RestartSpawns, TakeReference, AskToStop, reference
  <2>3. cfgFile' = cfgFile \/ checkerPc' = "recheck"
    BY <1>4 DEF Checker, CheckerQuits, CheckerMovesOn, ConfigDelivered, UpdateConfig,
       RestartTakes, RestartAsks, RestartSpawns, CheckerGoes
  <2>4. checkerPc \in {"recheck", "take"} => checkerPc' = "take" \/ ~isRunning
    BY <1>4, <2>2 DEF Checker, CheckerQuits, CheckerMovesOn, ConfigDelivered, UpdateConfig,
       RestartAsks, RestartSpawns, CheckerGoes
  <2> QED
    BY <1>1, <2>1, <2>2, <2>3, <2>4
<1>5. CASE \E g \in Lifecycles : Life(g) \/ External(g)
  <2> PICK g \in Lifecycles : Life(g) \/ External(g)
    BY <1>5
  <2>1. UNCHANGED <<cfgFile, checkerPc, isRunning>>
    BY LifeFrame DEF lifeKeeps, flags
  <2>2. CASE h = g /\ CollectorLoads(g)
    BY <2>2, LoadsCurrent
  <2>3. CASE lifePc[h] = "running" /\ local'[h] = local[h]
    <3>1. collector = h
      BY <2>3, LifeMoves DEF LifecycleAssigns, LifeGoes, TypeOK
    <3> QED
      BY <1>1, <2>1, <2>3, <3>1
  <2> QED
    BY <2>2, <2>3, LifeRuns
<1>6. CASE UNCHANGED vars
  BY <1>1, <1>6 DEF vars, flags, reference, life, files
<1> QED
  BY <1>2, <1>3, <1>4, <1>5, <1>6 DEF SettledNext, Next, Ended

LEMMA OwnStep ==
    TypeOK /\ LaunchInv /\ ReadInv /\ RunsOwnConfig /\ [SettledNext]_vars => RunsOwnConfig'
<1> SUFFICES ASSUME TypeOK, LaunchInv, ReadInv, RunsOwnConfig, [SettledNext]_vars,
                    NEW h \in Lifecycles, lifePc'[h] = "running",
                    local'[h].path = "enriched"
             PROVE  local'[h].conf = local'[h].data
  BY DEF RunsOwnConfig
<1>1. CASE Stop \/ Service
  <2>1. CASE Launch
    BY <2>1 DEF Launch, RunGoes, LaunchInv, TypeOK
  <2>2. CASE ~Launch
    BY <1>1, <2>2, ServiceReference, ServiceFrame DEF RunsOwnConfig
  <2> QED
    BY <2>1, <2>2
<1>2. CASE Checker \/ CheckerQuits
  BY <1>2, CheckerFrame DEF checkerKeeps, RunsOwnConfig
<1>3. CASE \E g \in Lifecycles : Life(g) \/ External(g)
  BY <1>3, LifeRuns, LoadsCurrent DEF RunsOwnConfig
<1>4. CASE UNCHANGED vars
  BY <1>4 DEF vars, life, RunsOwnConfig
<1> QED
  BY <1>1, <1>2, <1>3, <1>4 DEF SettledNext, Next, Ended
-----------------------------------------------------------------------------
\* What holds of every behaviour holds of the settled ones.
LEMMA SettledIsSpec == SettledSpec => Spec
<1>1. [Next /\ SettledServer]_vars => [Next]_vars
  OBVIOUS
<1> QED
  BY <1>1, PTL DEF SettledSpec, Spec

LEMMA SettledInvariance == SettledSpec => []SettledInv
<1>1. IInv /\ SupInv /\ SettledInv /\ [SettledNext]_vars => SettledInv'
  BY StartStep, OrphanStep, ReadStep, ServesStep, OwnStep DEF IInv, SupInv, SettledInv
<1>2. [Next /\ SettledServer]_vars => [SettledNext]_vars
  BY DEF SettledNext
<1> QED
  BY <1>1, <1>2, InitSettled, SettledIsSpec, Invariance, SupInvariance, PTL DEF SettledSpec

\* No collector is lost: it can still be stopped, over any number of restarts.
THEOREM NoneIsLost == SettledSpec => []NoOrphan
  BY SettledInvariance, PTL DEF SettledInv

\* A delivered configuration is what the collector in service runs.
THEOREM DeliveredRuns == SettledSpec => []RunsCurrentConfig
<1>1. SettledInv => RunsCurrentConfig
  BY DEF SettledInv, ServesInv, RunsCurrentConfig
<1> QED
  BY <1>1, SettledInvariance, PTL

\* Although they share a file, a collector runs what its own lifecycle has read.
THEOREM OwnRuns == SettledSpec => []RunsOwnConfig
  BY SettledInvariance, PTL DEF SettledInv
-----------------------------------------------------------------------------
StrictStep == Strict!Next \/ UNCHANGED Strict!vars

\* A step of the supervision is a strict one unless it displaces a collector.
LEMMA Undisplaced ==
    ASSUME SupervisionStep, \A g \in Lifecycles : Supervision!Enter(g) => collector = Nobody
    PROVE  StrictStep
  BY DEF SupervisionStep, StrictStep, Supervision!Next, Strict!Next, Supervision!vars,
     Strict!vars, Supervision!Advance, Strict!Advance, Supervision!Enter, Strict!Enter,
     Supervision!End, Strict!End, Supervision!Clear, Strict!Clear, Supervision!Withdraw,
     Strict!Withdraw, Supervision!Tell, Strict!Tell, Supervision!Report, Strict!Report

\* A collector that enters has just been assigned, so nobody was in service.
LEMMA EntersAlone ==
    ASSUME TypeOK, LaunchInv, StartInv, [SettledNext]_vars,
           NEW g \in Lifecycles, Supervision!Enter(g)
    PROVE  collector = Nobody
<1>1. ~InRun(g) /\ InRun(g)' /\ collector' = g
  BY DEF Supervision!Enter
<1>2. CASE Stop \/ Service
  BY <1>1, <1>2, ServiceFrame DEF Launch, RunGoes, LaunchInv, TypeOK, InRun
<1>3. CASE Checker \/ CheckerQuits
  BY <1>1, <1>3, CheckerFrame DEF InRun
<1>4. CASE \E h \in Lifecycles : Life(h) \/ External(h)
  <2> PICK h \in Lifecycles : Life(h) \/ External(h)
    BY <1>4
  <2>1. h = g
    BY <1>1, LifeMoves DEF InRun
  <2>2. lifePc[g] = "assign"
    BY <1>1, <2>1 DEF Life, LifecycleBegins, EnrichReads, EnrichWrites, EnrichFails,
       CreateFails, LifecycleLocks, LifecycleChecks, LifecycleAssigns, CollectorLoads,
       LoadFails, CollectorStops, LifecycleNotes, LifecycleCleans, LifecycleDone, External,
       CollectorDies, CollectorCloses, CollectorHangs, LifeGoes, TypeOK, InRun
  <2> QED
    BY <2>2 DEF StartInv, Early, Starting
<1>5. CASE UNCHANGED vars
  BY <1>1, <1>5 DEF vars, life, InRun
<1> QED
  BY <1>2, <1>3, <1>4, <1>5 DEF SettledNext, Next, Ended

LEMMA InitStrict == Init => Strict!Init
  BY InitSupervision DEF Supervision!Init, Strict!Init

\* With settled restarts no collector ever displaces another one.
THEOREM AgentSupervisesStrictly == SettledSpec => SupervisesStrictly
<1>1. IInv /\ SupInv /\ SettledInv /\ [SettledNext]_vars => StrictStep
  <2> SUFFICES ASSUME IInv, SupInv, SettledInv, [SettledNext]_vars PROVE StrictStep
    OBVIOUS
  <2>1. SupervisionStep
    BY StepSupervises DEF SettledNext
  <2>2. \A g \in Lifecycles : Supervision!Enter(g) => collector = Nobody
    BY EntersAlone DEF IInv, SettledInv
  <2> QED
    BY <2>1, <2>2, Undisplaced
<1>2. [Next /\ SettledServer]_vars => [SettledNext]_vars
  BY DEF SettledNext
<1> QED
  BY <1>1, <1>2, InitStrict, SettledIsSpec, Invariance, SupInvariance, SettledInvariance, PTL
  DEF SettledSpec, SupervisesStrictly, Strict!Spec, StrictStep
=============================================================================
