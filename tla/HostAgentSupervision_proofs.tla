---------------------- MODULE HostAgentSupervision_proofs ----------------------
(***************************************************************************)
(* The host agent implements CollectorSupervision: every step of its       *)
(* goroutines is a step of the supervision, or none.                       *)
(***************************************************************************)
EXTENDS HostAgent_proofs

USE LifecyclesAssumption DEF LifecyclesAssumption

\* The lifecycles that have assigned their collector, or never will.
Past == {"load", "running", "closing", "hung", "exited", "cleanup", "return", "done"}

\* Who takes the reference is the only one to have it, until it has called
\* Shutdown(); Shutdown waits after that.
ReferenceInv ==
    /\ collector # Nobody => lifePc[collector] \in Past
    /\ \A s \in Callers : taken[s] # Nobody =>
           lifePc[taken[s]] \in Past /\ taken[s] # collector
    /\ taken["stop"] # Nobody => taken["stop"] # taken["checker"]

TakerInv ==
    /\ taken["stop"] # Nobody => stopPc = "signal"
    /\ taken["checker"] # Nobody => checkerPc = "signal"
    /\ waitCh # "none" => stopPc \in {"wait", "waitRun", "returned"}

SupInv == ReferenceInv /\ TakerInv
-----------------------------------------------------------------------------
\* What is taken is a lifecycle's collector or nothing.
LEMMA TakenType ==
    ASSUME TypeOK
    PROVE  /\ collector \in Lifecycles \cup {Nobody}
           /\ taken["stop"] \in Lifecycles \cup {Nobody}
           /\ taken["checker"] \in Lifecycles \cup {Nobody}
  BY DEF TypeOK, Callers

\* A lifecycle that is past its assignment stays there.
LEMMA PastStays ==
    ASSUME TypeOK, LaunchInv, [Next]_vars, NEW g \in Lifecycles, lifePc[g] \in Past
    PROVE  lifePc'[g] \in Past
<1>1. CASE Stop \/ Service
  <2>1. CASE Launch
    BY <2>1 DEF Launch, RunGoes, LaunchInv, Past
  <2>2. CASE ~Launch
    BY <1>1, <2>2, ServiceFrame
  <2> QED
    BY <2>1, <2>2
<1>2. CASE Checker \/ CheckerQuits
  BY <1>2, CheckerFrame DEF Past
<1>3. CASE \E h \in Lifecycles : Life(h) \/ External(h)
  <2> PICK h \in Lifecycles : Life(h) \/ External(h)
    BY <1>3
  <2>1. \E from, to \in LifePcs : LifeGoes(h, from, to) /\ (from \in Past => to \in Past)
    BY DEF Life, LifecycleBegins, EnrichReads, EnrichWrites, EnrichFails, CreateFails,
       LifecycleLocks, LifecycleChecks, LifecycleAssigns, CollectorLoads, LoadFails,
       CollectorStops, LifecycleNotes, LifecycleCleans, LifecycleDone, External,
       CollectorDies, CollectorCloses, CollectorHangs, LifePcs, Past
  <2> QED
    BY <2>1 DEF LifeGoes, TypeOK
<1>4. CASE UNCHANGED vars
  BY <1>4 DEF vars, life
<1> QED
  BY <1>1, <1>2, <1>3, <1>4 DEF Next, Ended

\* Who may change the reference and who holds what was taken from it.
LEMMA ReferenceFrame ==
    ASSUME TypeOK, [Next]_vars
    PROVE  \/ UNCHANGED <<collector, taken>>
           \/ /\ \E g \in Lifecycles : LifecycleAssigns(g) \/ LifecycleCleans(g)
              /\ UNCHANGED taken /\ collector' \in Lifecycles \cup {Nobody}
           \/ \E s \in Callers :
                 /\ \/ s = "stop" /\ stopPc \in {"take", "signal"}
                    \/ s = "checker" /\ checkerPc \in {"take", "signal"}
                 /\ \/ taken' = [taken EXCEPT ![s] = collector] /\ collector' = Nobody
                    \/ taken' = [taken EXCEPT ![s] = Nobody] /\ UNCHANGED collector
<1>1. CASE Stop \/ Service
  BY <1>1 DEF Stop, Service, StartAgent, Launch, RunReturns, WaitGroupWait,
     ShutdownBegins, ShutdownSignals, ShutdownTakes, ShutdownAsks, StopMovesOn,
     TakeReference, AskToStop, reference, StopGoes, Callers
<1>2. CASE Checker \/ CheckerQuits
  BY <1>2 DEF Checker, CheckerQuits, CheckerMovesOn, ConfigDelivered, UpdateConfig,
     RestartTakes, RestartAsks, RestartSpawns, TakeReference, AskToStop, reference,
     CheckerGoes, Callers
<1>3. CASE \E g \in Lifecycles : Life(g) \/ External(g)
  <2> PICK g \in Lifecycles : Life(g) \/ External(g)
    BY <1>3
  <2>1. UNCHANGED taken
    BY LifeFrame DEF lifeKeeps
  <2>2. CASE LifecycleAssigns(g) \/ LifecycleCleans(g)
    BY <2>1, <2>2 DEF LifecycleAssigns, LifecycleCleans, TypeOK
  <2>3. CASE ~LifecycleAssigns(g) /\ ~LifecycleCleans(g)
    BY <2>1, <2>3 DEF Life, LifecycleBegins, EnrichReads, EnrichWrites, EnrichFails,
       CreateFails, LifecycleLocks, LifecycleChecks, CollectorLoads, LoadFails,
       CollectorStops, LifecycleNotes, LifecycleDone, External,
       CollectorDies, CollectorCloses, CollectorHangs
  <2> QED
    BY <2>2, <2>3
<1>4. CASE UNCHANGED vars
  BY <1>4 DEF vars, reference
<1> QED
  BY <1>1, <1>2, <1>3, <1>4 DEF Next, Ended

LEMMA InitSupInv == Init => SupInv
  BY DEF Init, SupInv, ReferenceInv, TakerInv, Callers

\* What has been taken is neither in service nor taken by the other caller.
LEMMA ReferenceStep == TypeOK /\ LaunchInv /\ SupInv /\ [Next]_vars => ReferenceInv'
<1> SUFFICES ASSUME TypeOK, LaunchInv, SupInv, [Next]_vars PROVE ReferenceInv'
  OBVIOUS
<1>1. \A g \in Lifecycles : lifePc[g] \in Past => lifePc'[g] \in Past
  BY PastStays
<1>2. \A s \in Callers : taken[s] \in Lifecycles \cup {Nobody}
  BY TakenType DEF Callers
<1>3. CASE UNCHANGED <<collector, taken>>
  BY <1>1, <1>2, <1>3, TakenType DEF SupInv, ReferenceInv
<1>4. ASSUME NEW g \in Lifecycles, LifecycleAssigns(g), UNCHANGED taken
      PROVE  ReferenceInv'
  <2>1. lifePc[g] = "assign" /\ lifePc'[g] = "load" /\ collector' = g
    BY <1>4 DEF LifecycleAssigns, LifeGoes, TypeOK
  <2>2. \A s \in Callers : taken[s] # g
    BY <2>1 DEF SupInv, ReferenceInv, Past
  <2> QED
    BY <1>1, <1>2, <1>4, <2>1, <2>2, TakenType DEF SupInv, ReferenceInv, Past
<1>5. ASSUME NEW g \in Lifecycles, LifecycleCleans(g), UNCHANGED taken
      PROVE  ReferenceInv'
  <2>1. collector' = collector \/ collector' = Nobody
    BY <1>5 DEF LifecycleCleans
  <2> QED
    BY <1>1, <1>2, <1>5, <2>1, TakenType DEF SupInv, ReferenceInv
<1>6. ASSUME NEW s \in Callers,
             taken' = [taken EXCEPT ![s] = collector], collector' = Nobody
      PROVE  ReferenceInv'
  <2>1. \A r \in Callers : taken'[r] = IF r = s THEN collector ELSE taken[r]
    BY <1>6 DEF TypeOK
  <2> QED
    BY <1>1, <1>2, <1>6, <2>1, TakenType DEF SupInv, ReferenceInv, Callers
<1>7. ASSUME NEW s \in Callers,
             taken' = [taken EXCEPT ![s] = Nobody], UNCHANGED collector
      PROVE  ReferenceInv'
  <2>1. \A r \in Callers : taken'[r] = IF r = s THEN Nobody ELSE taken[r]
    BY <1>7 DEF TypeOK
  <2> QED
    BY <1>1, <1>2, <1>7, <2>1, TakenType DEF SupInv, ReferenceInv, Callers
<1> QED
  BY <1>3, <1>4, <1>5, <1>6, <1>7, ReferenceFrame

LEMMA TakerStep ==
    TypeOK /\ LaunchInv /\ ShutdownInv /\ TakerInv /\ [Next]_vars => TakerInv'
<1> SUFFICES ASSUME TypeOK, LaunchInv, ShutdownInv, TakerInv, [Next]_vars PROVE TakerInv'
  OBVIOUS
<1> USE DEF TakerInv
<1>1. CASE StartAgent \/ RunReturns \/ Launch
  <2>1. /\ UNCHANGED <<taken, stopPc, waitCh>>
        /\ checkerPc' = checkerPc \/ (runPc = "detect" /\ Launch)
    BY <1>1 DEF StartAgent, RunReturns, Launch, RunGoes, reference, group
  <2>2. CASE checkerPc' = checkerPc
    BY <2>1, <2>2
  <2>3. CASE Launch
    BY <2>1, <2>3 DEF Launch, RunGoes, LaunchInv
  <2> QED
    BY <2>1, <2>2, <2>3
<1>2. CASE Stop \/ ShutdownBegins \/ ShutdownSignals \/ StopMovesOn \/ WaitGroupWait
  BY <1>2 DEF Stop, ShutdownBegins, ShutdownSignals, StopMovesOn, WaitGroupWait,
              StopGoes, reference, group
<1>3. CASE ShutdownTakes \/ ShutdownAsks
  BY <1>3 DEF ShutdownTakes, ShutdownAsks, TakeReference, AskToStop, StopGoes, group,
              TypeOK, Callers
<1>4. CASE Checker \/ CheckerQuits
  BY <1>4, CheckerFrame DEF Checker, CheckerQuits, CheckerMovesOn, ConfigDelivered,
     UpdateConfig, RestartTakes, RestartAsks, RestartSpawns, TakeReference, AskToStop,
     reference, CheckerGoes, checkerKeeps, TypeOK, Callers
<1>5. CASE \E g \in Lifecycles : Life(g) \/ External(g)
  BY <1>5, LifeFrame DEF lifeKeeps
<1>6. CASE UNCHANGED vars
  BY <1>6 DEF vars, reference, group
<1> QED
  BY <1>1, <1>2, <1>3, <1>4, <1>5, <1>6 DEF Next, Service, Ended
-----------------------------------------------------------------------------
Running == {g \in Lifecycles : InRun(g)}

SupervisionStep == Supervision!Next \/ UNCHANGED Supervision!vars

\* What decides the state of the service, and what the supervision knows of the
\* lifecycles.
LEMMA StateFrame ==
    ASSUME UNCHANGED <<flags, stopPc, waitCh>>
    PROVE  UNCHANGED ServiceState
  BY DEF ServiceState, flags

LEMMA LifeStateFrame ==
    ASSUME UNCHANGED lifePc
    PROVE  UNCHANGED <<Running, Over>>
  BY DEF Running, Over, InRun

LEMMA WithdrawnFrame ==
    ASSUME UNCHANGED taken
    PROVE  UNCHANGED Withdrawn
  BY DEF Withdrawn, HasTaken

\* What a caller withdraws and what is left when it has told.
LEMMA WithdrawnIs ==
    Withdrawn = ({taken["stop"]} \ {Nobody}) \cup ({taken["checker"]} \ {Nobody})
  BY DEF Withdrawn, HasTaken, Callers

LEMMA TakeWithdraws ==
    ASSUME TypeOK, NEW s \in Callers, taken[s] = Nobody, TakeReference(s)
    PROVE  Withdrawn' = Withdrawn \cup ({collector} \ {Nobody}) /\ collector' = Nobody
<1>1. \A r \in Callers : taken'[r] = IF r = s THEN collector ELSE taken[r]
  BY DEF TakeReference, TypeOK
<1>2. Withdrawn' = ({taken'["stop"]} \ {Nobody}) \cup ({taken'["checker"]} \ {Nobody})
  BY DEF Withdrawn, HasTaken, Callers
<1> QED
  BY <1>1, <1>2, WithdrawnIs DEF TakeReference, Callers

LEMMA AskTells ==
    ASSUME TypeOK, ReferenceInv, NEW s \in Callers, AskToStop(s)
    PROVE  \/ UNCHANGED <<Withdrawn, asked>>
           \/ \E g \in Lifecycles : /\ g \in Withdrawn /\ Withdrawn' = Withdrawn \ {g}
                                   /\ asked' = asked \cup {g}
<1>1. \A r \in Callers : taken'[r] = IF r = s THEN Nobody ELSE taken[r]
  BY DEF AskToStop, TypeOK
<1>2. Withdrawn' = ({taken'["stop"]} \ {Nobody}) \cup ({taken'["checker"]} \ {Nobody})
  BY DEF Withdrawn, HasTaken, Callers
<1>3. asked' = asked \cup ({taken[s]} \ {Nobody})
  BY DEF AskToStop
<1>4. CASE taken[s] = Nobody
  BY <1>1, <1>2, <1>3, <1>4, WithdrawnIs DEF Callers
<1>5. CASE taken[s] # Nobody
  <2>1. taken[s] \in Lifecycles /\ taken["stop"] # taken["checker"]
    BY <1>5, TakenType DEF Callers, ReferenceInv
  <2>2. /\ taken[s] \in Withdrawn /\ Withdrawn' = Withdrawn \ {taken[s]}
        /\ asked' = asked \cup {taken[s]}
    BY <1>1, <1>2, <1>3, <1>5, <2>1, WithdrawnIs DEF Callers
  <2> QED
    BY <2>1, <2>2
<1> QED
  BY <1>4, <1>5
-----------------------------------------------------------------------------
LEMMA InitSupervision == Init => Supervision!Init
<1> SUFFICES ASSUME Init PROVE Supervision!Init
  OBVIOUS
<1>1. ServiceState = "new"
  BY DEF Init, ServiceState
<1>2. Running = {} /\ Over = {} /\ Withdrawn = {}
  BY WithdrawnIs DEF Init, Running, Over, InRun, Callers
<1> QED
  BY <1>1, <1>2 DEF Init, Supervision!Init, Running

\* A step of the service: the state advances, Stop withdraws and tells, or the
\* WaitGroup has drained and nothing runs or is withdrawn any more.
LEMMA ServiceSupervises ==
    ASSUME IInv, SupInv, Stop \/ Service
    PROVE  SupervisionStep
<1> USE DEF SupervisionStep, IInv, SupInv
<1>1. CASE StartAgent
  <2>1. UNCHANGED <<collector, asked, Running, Over, Withdrawn>>
    BY <1>1, LifeStateFrame, WithdrawnFrame DEF StartAgent, reference, life
  <2>2. ServiceState = "new" /\ ServiceState' = "up"
    BY <1>1 DEF StartAgent, RunGoes, ServiceState, ShutdownInv, Won, group, TypeOK
  <2> QED
    BY <2>1, <2>2 DEF Supervision!Next, Supervision!Advance, Running
<1>2. CASE Launch
  <2>1. \A g \in Lifecycles : lifePc[g] = "none" /\ lifePc'[g] \in {"none", "begin"}
    BY <1>2 DEF Launch, RunGoes, LaunchInv, TypeOK
  <2>2. UNCHANGED <<Running, Over>>
    BY <2>1 DEF Running, Over, InRun
  <2>3. UNCHANGED <<collector, asked, Withdrawn, ServiceState>>
    BY <1>2, StateFrame, WithdrawnFrame DEF Launch, reference
  <2> QED
    BY <2>2, <2>3 DEF Supervision!vars, Running
<1>3. CASE RunReturns
  BY <1>3, StateFrame, LifeStateFrame, WithdrawnFrame
  DEF RunReturns, reference, life, group, Supervision!vars, Running
<1>4. CASE Stop \/ StopMovesOn \/ ShutdownSignals
  <2>1. UNCHANGED <<collector, asked, Running, Over, Withdrawn>>
    BY <1>4, LifeStateFrame, WithdrawnFrame
    DEF Stop, StopMovesOn, ShutdownSignals, reference, life
  <2>2. UNCHANGED ServiceState
    BY <1>4 DEF Stop, StopMovesOn, ShutdownSignals, StopGoes, ServiceState, ShutdownInv,
                Won, group, flags
  <2> QED
    BY <2>1, <2>2 DEF Supervision!vars, Running
<1>5. CASE ShutdownBegins
  <2>1. UNCHANGED <<collector, asked, Running, Over, Withdrawn>>
    BY <1>5, LifeStateFrame, WithdrawnFrame DEF ShutdownBegins, reference, life
  <2>2. ServiceState = "up" /\ ServiceState' = "stopping"
    BY <1>5 DEF ShutdownBegins, StopGoes, ServiceState, ShutdownInv, Won, group, flags
  <2> QED
    BY <2>1, <2>2 DEF Supervision!Next, Supervision!Advance, Running
<1>6. CASE ShutdownTakes
  <2>1. taken["stop"] = Nobody /\ TakeReference("stop") /\ "stop" \in Callers
    BY <1>6 DEF ShutdownTakes, StopGoes, TakerInv, Callers
  <2>2. Withdrawn' = Withdrawn \cup ({collector} \ {Nobody}) /\ collector' = Nobody
    BY <2>1, TakeWithdraws
  <2>3. UNCHANGED <<asked, Running, Over>>
    BY <2>1, LifeStateFrame DEF TakeReference, life
  <2>4. ServiceState = "stopping" /\ ServiceState' = "closed"
    BY <1>6 DEF ShutdownTakes, StopGoes, ServiceState, ShutdownInv, Won, TakerInv, group,
                flags
  <2> QED
    BY <2>2, <2>3, <2>4 DEF Supervision!Next, Supervision!Withdraw, Running
<1>7. CASE ShutdownAsks
  <2>1. AskToStop("stop") /\ "stop" \in Callers /\ ReferenceInv
    BY <1>7 DEF ShutdownAsks, Callers
  <2>2. \/ UNCHANGED <<Withdrawn, asked>>
        \/ \E g \in Lifecycles : /\ g \in Withdrawn /\ Withdrawn' = Withdrawn \ {g}
                                /\ asked' = asked \cup {g}
    BY <2>1, AskTells
  <2>3. UNCHANGED <<collector, Running, Over>>
    BY <2>1, LifeStateFrame DEF AskToStop
  <2>4. UNCHANGED ServiceState
    BY <1>7 DEF ShutdownAsks, StopGoes, ServiceState, ShutdownInv, TakerInv, flags
  <2> QED
    BY <2>2, <2>3, <2>4 DEF Supervision!Next, Supervision!Tell, Supervision!vars, Running
<1>8. CASE WaitGroupWait
  <2>1. wg = 0 /\ UNCHANGED <<collector, asked, taken, lifePc>>
    BY <1>8 DEF WaitGroupWait, reference, life
  <2>2. IsFiniteSet(LiveLifecycles) /\ Cardinality(LiveLifecycles) \in Nat
    BY FS_CardinalityType DEF GroupInv
  <2>3. ~CheckerLive /\ LiveLifecycles = {}
    BY <2>1, <2>2, FS_EmptySet DEF GroupInv, WaitGroupExact, CheckerLive
  <2>4. Running = {}
    BY <2>3 DEF LiveLifecycles, Running, InRun
  <2>5. Withdrawn = {}
    BY <1>8, <2>3, WithdrawnIs DEF WaitGroupWait, TakerInv, CheckerLive
  <2>6. ServiceState = "closed" /\ ServiceState' = "ended"
    BY <1>8 DEF WaitGroupWait, ServiceState, ShutdownInv, Won, TakerInv, flags
  <2> QED
    BY <2>1, <2>4, <2>5, <2>6, LifeStateFrame, WithdrawnFrame
    DEF Supervision!Next, Supervision!Report, Running
<1> QED
  BY <1>1, <1>2, <1>3, <1>4, <1>5, <1>6, <1>7, <1>8 DEF Service

\* A step of the checker: it withdraws, tells, or changes nothing that counts.
LEMMA CheckerSupervises ==
    ASSUME IInv, SupInv, Checker \/ CheckerQuits
    PROVE  SupervisionStep
<1> USE DEF SupervisionStep, IInv, SupInv
<1>1. UNCHANGED ServiceState
  BY CheckerFrame, StateFrame DEF checkerKeeps
<1>2. UNCHANGED <<Running, Over>>
  <2>1. \A g \in Lifecycles : lifePc'[g] = lifePc[g] \/
                               (lifePc[g] = "none" /\ lifePc'[g] = "begin")
    BY CheckerFrame
  <2> QED
    BY <2>1 DEF Running, Over, InRun
<1>3. CASE RestartTakes
  <2>1. taken["checker"] = Nobody /\ TakeReference("checker") /\ "checker" \in Callers
    BY <1>3 DEF RestartTakes, CheckerGoes, TakerInv, Callers
  <2>2. Withdrawn' = Withdrawn \cup ({collector} \ {Nobody}) /\ collector' = Nobody
    BY <2>1, TakeWithdraws
  <2>3. UNCHANGED asked
    BY <2>1 DEF TakeReference, life
  <2> QED
    BY <1>1, <1>2, <2>2, <2>3 DEF Supervision!Next, Supervision!Withdraw, Running
<1>4. CASE RestartAsks
  <2>1. AskToStop("checker") /\ "checker" \in Callers /\ ReferenceInv
    BY <1>4 DEF RestartAsks, Callers
  <2>2. \/ UNCHANGED <<Withdrawn, asked>>
        \/ \E g \in Lifecycles : /\ g \in Withdrawn /\ Withdrawn' = Withdrawn \ {g}
                                /\ asked' = asked \cup {g}
    BY <2>1, AskTells
  <2>3. UNCHANGED collector
    BY <2>1 DEF AskToStop
  <2> QED
    BY <1>1, <1>2, <2>2, <2>3
    DEF Supervision!Next, Supervision!Tell, Supervision!vars, Running
<1>5. CASE ~RestartTakes /\ ~RestartAsks
  <2>1. UNCHANGED <<collector, taken, asked>>
    BY <1>5 DEF Checker, CheckerQuits, CheckerMovesOn, ConfigDelivered, UpdateConfig,
                RestartSpawns, reference
  <2> QED
    BY <1>1, <1>2, <2>1, WithdrawnFrame DEF Supervision!vars, Running
<1> QED
  BY <1>3, <1>4, <1>5

\* A step of a lifecycle: its collector enters service, ends, or is cleared
\* away after its end; the rest only moves towards that.
LEMMA LifeSupervises ==
    ASSUME IInv, SupInv, NEW g \in Lifecycles, Life(g) \/ External(g)
    PROVE  SupervisionStep
<1> USE DEF SupervisionStep, IInv, SupInv
<1>1. UNCHANGED <<ServiceState, Withdrawn, asked>>
  BY LifeFrame, StateFrame, WithdrawnFrame DEF lifeKeeps
<1>2. CASE LifecycleAssigns(g)
  <2>1. lifePc[g] = "assign" /\ lifePc' = [lifePc EXCEPT ![g] = "load"] /\ collector' = g
    BY <1>2 DEF LifecycleAssigns, LifeGoes
  <2>2. Running' = Running \cup {g} /\ Over' = Over /\ g \notin Running \cup Over
    BY <2>1 DEF Running, Over, InRun, TypeOK
  <2>3. ServiceState \in {"up", "stopping"}
    <3>1. isRunning \/ stopPc \in {"close", "take"}
      BY <2>1 DEF LockInv
    <3>2. waitCh # "closed" /\ (shutdownSignal => stopPc = "take")
      BY <2>1, <3>1 DEF WaitInv, ShutdownInv, Won
    <3> QED
      BY <3>1, <3>2 DEF ServiceState
  <2> QED
    BY <1>1, <2>1, <2>2, <2>3 DEF Supervision!Next, Supervision!Enter, Running
<1>3. CASE LifecycleCleans(g)
  <2>1. lifePc[g] = "cleanup" /\ lifePc' = [lifePc EXCEPT ![g] = "return"]
    BY <1>3 DEF LifecycleCleans, LifeGoes
  <2>2. g \in Over /\ UNCHANGED <<Running, Over>>
    BY <2>1 DEF Running, Over, InRun, TypeOK
  <2>3. collector' = collector \/ (collector = g /\ collector' = Nobody)
    BY <1>3 DEF LifecycleCleans
  <2> QED
    BY <1>1, <2>2, <2>3 DEF Supervision!Next, Supervision!Clear, Supervision!vars, Running
<1>4. CASE ~LifecycleAssigns(g) /\ ~LifecycleCleans(g)
  <2>1. UNCHANGED collector
    BY <1>4 DEF Life, LifecycleBegins, EnrichReads, EnrichWrites, EnrichFails, CreateFails,
       LifecycleLocks, LifecycleChecks, CollectorLoads, LoadFails,
       CollectorStops, LifecycleNotes, LifecycleDone, External,
       CollectorDies, CollectorCloses, CollectorHangs
  <2>2. \E from, to \in LifePcs :
           /\ LifeGoes(g, from, to)
           /\ \/ from \notin Past /\ to \notin Past
              \/ to \in {"exited", "cleanup", "return", "done"}
              \/ from \in {"load", "running", "closing"} /\ to \in {"running", "closing", "hung"}
    BY <1>4 DEF Life, LifecycleBegins, EnrichReads, EnrichWrites, EnrichFails, CreateFails,
       LifecycleLocks, LifecycleChecks, CollectorLoads, LoadFails,
       CollectorStops, LifecycleNotes, LifecycleDone, External,
       CollectorDies, CollectorCloses, CollectorHangs, LifePcs, Past
  <2>3. PICK from, to \in LifePcs :
           /\ LifeGoes(g, from, to)
           /\ \/ from \notin Past /\ to \notin Past
              \/ to \in {"exited", "cleanup", "return", "done"}
              \/ from \in {"load", "running", "closing"} /\ to \in {"running", "closing", "hung"}
    BY <2>2
  <2>4. lifePc[g] = from /\ lifePc' = [lifePc EXCEPT ![g] = to] /\ lifePc'[g] = to
    BY <2>3 DEF LifeGoes, TypeOK
  <2>5. \A h \in Lifecycles \ {g} : lifePc'[h] = lifePc[h]
    BY <2>4 DEF TypeOK
  <2>6. CASE to \in {"exited", "cleanup", "return", "done"} /\ g \notin Over
    <3>1. Over' = Over \cup {g} /\ Running' = Running \ {g}
      BY <2>4, <2>5, <2>6 DEF Running, Over, InRun
    <3> QED
      BY <1>1, <2>1, <2>6, <3>1 DEF Supervision!Next, Supervision!End, Running
  <2>7. CASE to \in {"exited", "cleanup", "return", "done"} /\ g \in Over
    <3>1. UNCHANGED <<Over, Running>>
      BY <2>4, <2>5, <2>7 DEF Running, Over, InRun
    <3> QED
      BY <1>1, <2>1, <3>1 DEF Supervision!vars, Running
  <2>8. CASE to \notin {"exited", "cleanup", "return", "done"}
    <3>1. UNCHANGED <<Over, Running>>
      BY <2>3, <2>4, <2>5, <2>8 DEF Running, Over, InRun, Past
    <3> QED
      BY <1>1, <2>1, <3>1 DEF Supervision!vars, Running
  <2> QED
    BY <2>6, <2>7, <2>8
<1> QED
  BY <1>2, <1>3, <1>4
-----------------------------------------------------------------------------
LEMMA StepSupervises == IInv /\ SupInv /\ [Next]_vars => SupervisionStep
<1> SUFFICES ASSUME IInv, SupInv, [Next]_vars PROVE SupervisionStep
  OBVIOUS
<1>1. CASE UNCHANGED vars
  BY <1>1, StateFrame, LifeStateFrame, WithdrawnFrame
  DEF vars, reference, group, life, SupervisionStep, Supervision!vars, Running
<1> QED
  BY <1>1, ServiceSupervises, CheckerSupervises, LifeSupervises DEF Next, Ended

\* The reference and what was taken from it, in every reachable state.
LEMMA SupInvariance == Spec => []SupInv
<1>1. IInv /\ SupInv /\ [Next]_vars => SupInv'
  BY ReferenceStep, TakerStep DEF IInv, SupInv
<1> QED
  BY <1>1, InitSupInv, Invariance, PTL DEF Spec

\* However its goroutines interleave, the agent supervises its collectors as
\* CollectorSupervision says, for any number of restarts.
THEOREM AgentSupervises == Spec => Supervises
  BY Invariance, SupInvariance, InitSupervision, StepSupervises, PTL
  DEF Spec, Supervises, Supervision!Spec, SupervisionStep
=============================================================================
