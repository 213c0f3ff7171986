--------------------------- MODULE KubeAgent_proofs ---------------------------
(***************************************************************************)
(* Proofs of the safety properties of KubeAgent.  The argument rests on    *)
(* two facts about the threads: the WaitGroup counts the collector's       *)
(* goroutine, and the reference is set only while that goroutine has not   *)
(* cleared it; the mutex makes the select of stopInternalCollector keep it.*)
(***************************************************************************)
EXTENDS KubeAgent, TLAPS

\* Who holds the mutex is where its holder's program counter says.
MutexExact ==
    /\ collectorMu = "main" <=> mainPc \in {"create", "started"}
    /\ collectorMu = "stop" <=> sigPc = "select"

\* wg counts the collector's goroutine, which exists once main has spawned it.
GroupExact ==
    /\ wg = IF colPc \in {"none", "done"} THEN 0 ELSE 1
    /\ mainPc \in {"detect", "create"} => colPc = "none"

\* The reference is cleared before the goroutine ends, and by nobody while
\* stopInternalCollector waits for the call of Shutdown().
ReferenceExact ==
    /\ Collector => colPc \in {"running", "closing", "exited"}
    /\ closerPc = "call" => mainPc \notin {"detect", "create", "started"}
    /\ closerPc = "call" /\ ~starved => sigPc = "select"
    /\ sigPc = "select" => Collector

\* The inductive invariant.
IInv == TypeOK /\ MutexExact /\ GroupExact /\ ReferenceExact /\ ExitIsClean

LEMMA InitIInv == Init => IInv
BY DEF Init, IInv, TypeOK, MutexExact, GroupExact, ReferenceExact, ExitIsClean

\* Each step of a thread preserves the inductive invariant.
LEMMA StepIInv == IInv /\ [Next]_vars => IInv'
<1> SUFFICES ASSUME IInv, [Next]_vars PROVE IInv'
    OBVIOUS
<1> USE DEF IInv, TypeOK, MutexExact, GroupExact, ReferenceExact, ExitIsClean, agent
<1>1. CASE Main
  <2>1. CASE StartLocks
      BY <2>1 DEF StartLocks, MainGoes, Lock
  <2>2. CASE StartSpawns
      BY <2>2 DEF StartSpawns, MainGoes
  <2>3. CASE StartReturns
      BY <2>3 DEF StartReturns, MainGoes, Unlock
  <2>4. CASE MainReturns
      BY <2>4 DEF MainReturns, MainGoes
  <2>5. QED
      BY <1>1, <2>1, <2>2, <2>3, <2>4 DEF Main
<1>2. CASE StartFails
    BY <1>2 DEF StartFails, MainGoes, Unlock
<1>3. CASE Run
  <2>1. CASE CollectorStops \/ CollectorCloses
      BY <2>1 DEF CollectorStops, CollectorCloses, ColGoes, Alive
  <2>2. CASE CollectorClears
      BY <2>2 DEF CollectorClears, ColGoes, Alive
  <2>3. CASE CollectorDone
      BY <2>3 DEF CollectorDone, ColGoes, Alive
  <2>4. QED
      BY <1>3, <2>1, <2>2, <2>3 DEF Run
<1>4. CASE CollectorDies
    BY <1>4 DEF CollectorDies, ColGoes, Alive
<1>5. CASE Signal
    BY <1>5 DEF Signal, SigGoes, Alive
<1>6. CASE Stop
  <2>1. CASE StopWaits
      BY <2>1 DEF StopWaits, SigGoes, Alive
  <2>2. CASE StopFindsNone
      BY <2>2 DEF StopFindsNone, SigGoes, Alive
  <2>3. CASE StopCancels
      BY <2>3 DEF StopCancels, SigGoes, Alive, Lock
  <2>4. CASE StopClears
      BY <2>4 DEF StopClears, StopIsAnswered, SigGoes, Alive, Unlock
  <2>5. QED
      BY <1>6, <2>1, <2>2, <2>3, <2>4 DEF Stop
<1>7. CASE CloserCalls
    BY <1>7 DEF CloserCalls, Alive
<1>8. CASE Ended \/ UNCHANGED vars
    BY <1>8 DEF Ended, vars, threads
<1>9. QED
    BY <1>1, <1>2, <1>3, <1>4, <1>5, <1>6, <1>7, <1>8 DEF Next

\* The inductive invariant holds in every behaviour of the agent.
THEOREM Invariance == Spec => []IInv
BY InitIInv, StepIInv, PTL DEF Spec

\* Every variable keeps its type.
THEOREM TypeCorrect == Spec => []TypeOK
<1>1. IInv => TypeOK
    BY DEF IInv
<1>2. QED
    BY <1>1, Invariance, PTL

\* AwaitShutdown lets main go only when Run has returned and the reference to
\* the collector is cleared, whatever Stop is doing.
THEOREM ExitAfterRun == Spec => []ExitIsClean
<1>1. IInv => ExitIsClean
    BY DEF IInv
<1>2. QED
    BY <1>1, Invariance, PTL

\* Shutdown() is called on a collector unless the call is starved.
THEOREM ReceiverExists == Spec => []ShutdownHasReceiver
<1>1. IInv => ShutdownHasReceiver
    BY DEF IInv, ReferenceExact, ShutdownHasReceiver
<1>2. QED
    BY <1>1, Invariance, PTL
=============================================================================
