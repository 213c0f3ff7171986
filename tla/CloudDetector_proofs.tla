------------------------- MODULE CloudDetector_proofs -------------------------
(***************************************************************************)
(* Proofs about CloudDetector for any callers, any budget and any machine: *)
(* type correctness, that the machine's own provider is not passed over,   *)
(* and that the detector implements DetectOnce.                            *)
(***************************************************************************)
EXTENDS CloudDetector, FiniteSetTheorems, TLAPS

USE CallersAssumption, NoneAssumption, BoundsAssumption, WorldsAssumption
    DEF CallersAssumption, NoneAssumption, BoundsAssumption, WorldsAssumption

Holding == {"ask", "identity", "publish"}

\* Who holds the mutex found the cache empty and is the only one to fill it;
\* who has not got it will ask the first provider first.
LockInv ==
    \A c \in Callers :
        /\ pc[c] \in Holding <=> mu = c
        /\ mu = c => cached = None
        /\ pc[c] = "publish" => env[c] \in CloudEnvironments
        /\ pc[c] \in {"idle", "look", "lock"} => next[c] = 1

\* The cache is empty for a caller that has seen it filled only after a Reset.
RaceInv == \A c \in Callers : pc[c] = "reread" /\ cached = None => c \in raced

\* The time a prober has used is what the slow endpoints behind it can cost...
TimeInv ==
    \A c \in Callers : pc[c] \in {"ask", "identity"} =>
        /\ spent[c] <= waited[c] + Cardinality(Slow(next[c]))
        /\ pc[c] = "identity" => next[c] = 1

\* ... and none of the endpoints behind it should have been found.
Findable(c, i) ==
    ~cancelled[c] /\ net[i] = "prompt" /\ waited[c] + Cardinality(Slow(i)) < Budget

PassInv ==
    \A c \in Callers, i \in Index :
        pc[c] \in Holding /\ Findable(c, i) => next[c] <= i

IInv == TypeOK /\ LockInv /\ RaceInv /\ TimeInv /\ PassInv
-----------------------------------------------------------------------------
\* There are finitely many slow endpoints; one more is counted once.
LEMMA SlowFacts ==
    ASSUME NEW i \in 1 .. OnPrem
    PROVE  /\ IsFiniteSet(Slow(i)) /\ Cardinality(Slow(i)) \in Nat
           /\ i \in Index => /\ Cardinality(Slow(i)) <= Cardinality(Slow(i + 1))
                             /\ net[i] \in {"hangs", "flaky"} =>
                                  Cardinality(Slow(i + 1)) = Cardinality(Slow(i)) + 1
<1>1. IsFiniteSet(Index)
  <2>1. \A n \in Int : IsFiniteSet(1 .. n)
    BY FS_Interval
  <2>2. 7 \in Int
    OBVIOUS
  <2> QED
    BY <2>1, <2>2, Zenon DEF Index
<1>2. \A j \in Int : IsFiniteSet(Slow(j)) /\ Cardinality(Slow(j)) \in Nat
  BY <1>1, FS_Subset, FS_CardinalityType DEF Slow
<1>3. ASSUME i \in Index
      PROVE  Cardinality(Slow(i)) <= Cardinality(Slow(i + 1))
  <2>1. Slow(i) \subseteq Slow(i + 1) /\ i + 1 \in Int
    BY <1>3 DEF Slow, Index
  <2> QED
    BY <1>2, <2>1, FS_Subset
<1>4. ASSUME i \in Index, net[i] \in {"hangs", "flaky"}
      PROVE  Cardinality(Slow(i + 1)) = Cardinality(Slow(i)) + 1
  <2>1. Slow(i + 1) = Slow(i) \cup {i} /\ i \notin Slow(i)
    BY <1>4 DEF Slow, Index
  <2> QED
    BY <1>2, <2>1, FS_AddElement
<1> QED
  BY <1>2, <1>3, <1>4

LEMMA InitIInv == Init => IInv
  BY DEF Init, IInv, TypeOK, LockInv, RaceInv, TimeInv, PassInv, Holding, OnPrem

\* Time passes within the budget, and for nobody who is beyond waiting.
LEMMA PassingTime ==
    ASSUME TypeOK, NEW c \in Callers, Passes(c, 1)
    PROVE  /\ spent' \in [Callers -> 0 .. Budget]
           /\ spent'[c] <= spent[c] + 1
           /\ \A d \in Callers \ {c} : pc[d] \notin {"look", "lock"} => spent'[d] = spent[d]
  BY DEF TypeOK, Passes

Name(i) == IF i = OnPrem THEN "on-prem" ELSE Providers[i]

\* The compute types a provider is classified with are its own.
LEMMA OwnComputes ==
    ASSUME NEW i \in 1 .. OnPrem, NEW compute \in Computes[i]
    PROVE  <<Name(i), compute>> \in Platforms
<1> USE DEF Name
<1>1. CASE i = 1
  <2>1. compute \in {"ec2", "ecs", "fargate", "eks", "lambda", "elastic_beanstalk"}
    BY <1>1 DEF Computes, AWSComputes
  <2> QED
    BY <1>1, <2>1 DEF Platforms, Providers, OnPrem
<1>2. CASE i = 2
  <2>1. compute \in {"gce", "gke", "cloud_run", "cloud_functions", "app_engine"}
    BY <1>2 DEF Computes, GCPComputes
  <2> QED
    BY <1>2, <2>1 DEF Platforms, Providers, OnPrem
<1>3. CASE i = 3
  <2>1. compute \in {"aks", "azure_vm"}
    BY <1>3 DEF Computes, OnKubernetes
  <2> QED
    BY <1>3, <2>1 DEF Platforms, Providers, OnPrem
<1>4. CASE i \in {4, 5, 6, 7}
  BY <1>4 DEF Computes, Platforms, Providers, OnPrem
<1>5. CASE i = OnPrem
  <2>1. compute \in {"kubernetes", "bare_metal"}
    BY <1>5 DEF Computes, OnKubernetes, OnPrem
  <2> QED
    BY <1>5, <2>1 DEF Platforms, OnPrem
<1> QED
  BY <1>1, <1>2, <1>3, <1>4, <1>5 DEF OnPrem

\* The environments the detectors construct are environments.
LEMMA DetectedType ==
    ASSUME TypeOK, NEW c \in Callers, NEW i, NEW s, Detected(c, i, s),
           \A compute \in s : <<Name(i), compute>> \in Platforms
    PROVE  /\ env' \in [Callers -> CloudEnvironments \cup {None}]
           /\ env'[c] \in CloudEnvironments
           /\ \A d \in Callers \ {c} : env'[d] = env[d]
<1>1. PICK compute \in s :
         env' = [env EXCEPT ![c] = [provider |-> Name(i), compute |-> compute,
                                    flags |-> signals \cap CrossCutting]]
  BY DEF Detected, Name
<1>2. [provider |-> Name(i), compute |-> compute, flags |-> signals \cap CrossCutting]
        \in CloudEnvironments
  <2>1. signals \cap CrossCutting \in SUBSET CrossCutting
    OBVIOUS
  <2>2. PICK q \in Platforms : q = <<Name(i), compute>>
    OBVIOUS
  <2>3. q[1] = Name(i) /\ q[2] = compute
    BY <2>2
  <2> QED
    BY <2>1, <2>3 DEF CloudEnvironments
<1> QED
  BY <1>1, <1>2 DEF TypeOK
-----------------------------------------------------------------------------
\* A step of a prober is one of these; it holds the mutex.
LEMMA ProbeFrame ==
    ASSUME TypeOK, LockInv, NEW c \in Callers, Probe(c)
    PROVE  /\ UNCHANGED <<world, mu, cached, raced, resets, result, waited, cancelled>>
           /\ pc[c] \in Holding /\ pc'[c] \in Holding /\ mu = c
           /\ \A d \in Callers \ {c} : pc'[d] = pc[d] /\ next'[d] = next[d]
           /\ pc' \in [Callers -> {"idle", "look", "reread", "lock", "ask", "identity",
                                    "publish", "returned"}]
  BY DEF TypeOK, LockInv, Holding, Probe, AsksNobody, AsksForToken, Asks, GivesUp,
         AsksOn, Finds, Skips, Goes, call, context

LEMMA SpentType ==
    ASSUME TypeOK, LockInv, NEW c \in Callers, Probe(c)
    PROVE  /\ spent' \in [Callers -> 0 .. Budget]
           /\ \A d \in Callers \ {c} : pc[d] \notin {"look", "lock"} => spent'[d] = spent[d]
<1>1. UNCHANGED spent \/ Passes(c, 1)
  BY DEF Probe, AsksNobody, AsksForToken, Asks, GivesUp, AsksOn, Answered, Failed,
         context
<1> QED
  BY <1>1, PassingTime DEF TypeOK

LEMMA NextType ==
    ASSUME TypeOK, LockInv, NEW c \in Callers, Probe(c)
    PROVE  next' \in [Callers -> 1 .. OnPrem]
  BY DEF TypeOK, Probe, AsksNobody, AsksForToken, Asks, GivesUp, AsksOn, Finds, Skips,
         call, Index, OnPrem

LEMMA EnvType ==
    ASSUME TypeOK, LockInv, NEW c \in Callers, Probe(c)
    PROVE  /\ env' \in [Callers -> CloudEnvironments \cup {None}]
           /\ pc'[c] = "publish" => env'[c] \in CloudEnvironments
           /\ \A d \in Callers \ {c} : env'[d] = env[d]
<1>1. next[c] \in 1 .. OnPrem /\ 1 \in 1 .. OnPrem
  BY DEF TypeOK, OnPrem
<1>2. CASE AsksNobody(c)
  <2>1. Detected(c, 1, {"lambda"})
    BY <1>2 DEF AsksNobody
  <2>2. \A x \in {"lambda"} : <<Name(1), x>> \in Platforms
    BY DEF Platforms, Name, Providers, OnPrem
  <2> QED
    BY <2>1, <2>2, DetectedType
<1>3. CASE AsksForToken(c)
  <2>1. CASE Detected(c, 1, {"ecs", "fargate"})
    <3>1. \A x \in {"ecs", "fargate"} : <<Name(1), x>> \in Platforms
      BY DEF Platforms, Name, Providers, OnPrem
    <3> QED
      BY <2>1, <3>1, DetectedType
  <2>2. CASE UNCHANGED env /\ pc'[c] # "publish"
    BY <2>2 DEF TypeOK
  <2> QED
    BY <1>3, <2>1, <2>2 DEF AsksForToken, Goes, Skips, TypeOK
<1>4. CASE Asks(c) \/ GivesUp(c)
  <2>1. CASE Detected(c, next[c], Computes[next[c]])
    <3>1. \A x \in Computes[next[c]] : <<Name(next[c]), x>> \in Platforms
      BY <1>1, OwnComputes
    <3> QED
      BY <2>1, <3>1, DetectedType
  <2>2. CASE \E from : Skips(c, from)
    BY <2>2 DEF TypeOK, Skips, Goes
  <2> QED
    BY <1>4, <2>1, <2>2 DEF Asks, GivesUp, Finds
<1>5. CASE AsksOn(c)
  BY <1>5 DEF TypeOK, AsksOn, call, LockInv
<1> QED
  BY <1>2, <1>3, <1>4, <1>5 DEF Probe

\* Probing keeps the account of time and passes over nothing that answers.
LEMMA ProbeTime ==
    ASSUME IInv, NEW c \in Callers, Probe(c)
    PROVE  TimeInv' /\ PassInv'
<1> USE DEF IInv
<1>0. /\ UNCHANGED <<world, mu, cached, raced, resets, result, waited, cancelled>>
      /\ pc[c] \in Holding /\ pc'[c] \in Holding /\ mu = c
      /\ \A d \in Callers \ {c} : pc'[d] = pc[d] /\ next'[d] = next[d]
      /\ pc' \in [Callers -> {"idle", "look", "reread", "lock", "ask", "identity",
                               "publish", "returned"}]
  BY ProbeFrame
<1>1. ASSUME NEW i \in 1 .. OnPrem
      PROVE  Slow(i)' = Slow(i)
  BY <1>0 DEF Slow, world
<1>2. ASSUME NEW d \in Callers \ {c}, pc[d] \in {"ask", "identity"} \/ pc[d] \in Holding
      PROVE  FALSE
  BY <1>0, <1>2 DEF LockInv, Holding
<1>3. /\ pc'[c] \in {"ask", "identity"} =>
            /\ spent'[c] <= waited[c] + Cardinality(Slow(next'[c]))
            /\ pc'[c] = "identity" => next'[c] = 1
      /\ \A i \in Index : Findable(c, i) => next'[c] <= i
  <2>0. /\ next[c] \in 1 .. OnPrem /\ waited[c] \in 0 .. Budget /\ spent[c] \in 0 .. Budget
        /\ 1 \in Index
    BY DEF TypeOK, Index
  <2>1. CASE UNCHANGED next /\ pc'[c] = "publish"
    BY <1>0, <2>1 DEF PassInv
  <2>2. CASE UNCHANGED next /\ UNCHANGED spent /\ pc[c] = "ask" /\ pc'[c] = "identity"
             /\ next[c] = 1
    BY <1>0, <2>2 DEF PassInv, TimeInv
  <2>3. CASE /\ Failed(c) /\ next[c] \in Index /\ pc[c] \in {"ask", "identity"}
             /\ next'[c] = next[c] + 1 /\ pc'[c] = "ask"
    <3>1. /\ Cardinality(Slow(next[c])) \in Nat
          /\ Cardinality(Slow(next[c] + 1)) \in Nat
          /\ Cardinality(Slow(next[c])) <= Cardinality(Slow(next[c] + 1))
          /\ net[next[c]] \in {"hangs", "flaky"} =>
               Cardinality(Slow(next[c] + 1)) = Cardinality(Slow(next[c])) + 1
      <4>1. next[c] + 1 \in 1 .. OnPrem
        BY <2>3 DEF Index, OnPrem
      <4> QED
        BY <2>0, <2>3, <4>1, SlowFacts
    <3>2. spent[c] <= waited[c] + Cardinality(Slow(next[c]))
      BY <2>3 DEF TimeInv
    <3>3. spent'[c] <= waited[c] + Cardinality(Slow(next[c] + 1))
      <4>1. CASE UNCHANGED spent
        BY <2>0, <3>1, <3>2, <4>1
      <4>2. CASE net[next[c]] \in {"hangs", "flaky"} /\ Passes(c, 1)
        <5>1. spent'[c] <= spent[c] + 1 /\ spent'[c] \in 0 .. Budget
          BY <4>2, PassingTime
        <5> QED
          BY <2>0, <3>1, <3>2, <4>2, <5>1
      <4> QED
        BY <2>3, <4>1, <4>2 DEF Failed
    <3>4. ~Findable(c, next[c])
      BY <2>0, <2>3, <3>1, <3>2 DEF Failed, Findable, InTime
    <3>5. \A i \in Index : Findable(c, i) => next[c] <= i /\ i # next[c]
      BY <1>0, <3>4 DEF PassInv
    <3> QED
      BY <2>0, <2>3, <3>3, <3>5 DEF Index
  <2>4. CASE AsksOn(c)
    BY <1>0, <2>4 DEF AsksOn, call, PassInv
  <2>5. CASE AsksNobody(c)
    BY <1>0, <2>1, <2>5 DEF AsksNobody, Goes, TypeOK
  <2>6. CASE AsksForToken(c)
    BY <1>0, <2>0, <2>1, <2>2, <2>3, <2>6 DEF AsksForToken, Goes, TypeOK, Answered, Skips
  <2>7. CASE Asks(c)
    BY <1>0, <2>0, <2>1, <2>3, <2>7 DEF Asks, Goes, TypeOK, Finds, Skips
  <2>8. CASE GivesUp(c)
    BY <1>0, <2>1, <2>8 DEF GivesUp, Goes, TypeOK, Finds
  <2> QED
    BY <2>4, <2>5, <2>6, <2>7, <2>8 DEF Probe
<1>4. ASSUME NEW d \in Callers, NEW i \in Index
      PROVE  Findable(d, i)' <=> Findable(d, i)
  <2>1. i \in 1 .. OnPrem
    BY DEF Index, OnPrem
  <2> QED
    BY <1>0, <1>1, <2>1 DEF Findable, world
<1>5. TimeInv'
  <2>1. \A i \in 1 .. OnPrem : Slow(i)' = Slow(i)
    BY <1>1
  <2>2. next'[c] \in 1 .. OnPrem
    BY NextType
  <2>3. Slow(next[c])' = Slow(next'[c])
    BY <1>0 DEF Slow, world
  <2> QED
    BY <1>0, <1>2, <1>3, <2>3 DEF TimeInv, Holding
<1>6. PassInv'
  BY <1>0, <1>2, <1>3, <1>4 DEF PassInv
<1> QED
  BY <1>5, <1>6
-----------------------------------------------------------------------------
\* What the other steps leave alone.
Simple(c) == Call(c) \/ Look(c) \/ Reread(c) \/ Lock(c) \/ Publish(c) \/ Cancel(c)

LEMMA TypeStep == IInv /\ [Next]_vars => TypeOK'
<1> SUFFICES ASSUME IInv, [Next]_vars PROVE TypeOK'
  OBVIOUS
<1> USE DEF IInv
<1>1. CASE Reset
  BY <1>1 DEF TypeOK, Reset, world, call, context
<1>2. ASSUME NEW c \in Callers, Call(c) \/ Look(c) \/ Reread(c)
      PROVE  TypeOK'
  BY <1>2 DEF TypeOK, Call, Look, Reread, Goes, Returns, world, context
<1>3. ASSUME NEW c \in Callers, Lock(c)
      PROVE  TypeOK'
  BY <1>3 DEF TypeOK, Lock, Goes, Returns, world, context
<1>4. ASSUME NEW c \in Callers, Publish(c)
      PROVE  TypeOK'
  BY <1>4 DEF TypeOK, Publish, Goes, Returns, world, context, LockInv
<1>5. ASSUME NEW c \in Callers, Cancel(c)
      PROVE  TypeOK'
  BY <1>5 DEF TypeOK, Cancel, world, call
<1>6. ASSUME NEW c \in Callers, Probe(c)
      PROVE  TypeOK'
  BY <1>6, ProbeFrame, SpentType, NextType, EnvType DEF TypeOK, world
<1>7. CASE UNCHANGED vars
  BY <1>7 DEF TypeOK, vars, world, call, context
<1> QED
  BY <1>1, <1>2, <1>3, <1>4, <1>5, <1>6, <1>7 DEF Next, Detect, Ended

\* The mutex has one holder, which filled nothing yet; a cache seen filled and
\* found empty has been reset in between.
LEMMA LockStep == IInv /\ [Next]_vars => LockInv' /\ RaceInv'
<1> SUFFICES ASSUME IInv, [Next]_vars PROVE LockInv' /\ RaceInv'
  OBVIOUS
<1> USE DEF IInv
<1>1. CASE Reset
  BY <1>1 DEF TypeOK, Reset, call, LockInv, RaceInv, Holding, InCall
<1>2. ASSUME NEW c \in Callers, Call(c) \/ Reread(c) \/ Cancel(c)
      PROVE  LockInv' /\ RaceInv'
  BY <1>2 DEF TypeOK, Call, Reread, Cancel, Goes, call, LockInv, RaceInv, Holding
<1>3. ASSUME NEW c \in Callers, Look(c)
      PROVE  LockInv' /\ RaceInv'
  BY <1>3 DEF TypeOK, Look, Goes, LockInv, RaceInv, Holding
<1>4. ASSUME NEW c \in Callers, Lock(c)
      PROVE  LockInv' /\ RaceInv'
  BY <1>4 DEF TypeOK, Lock, Goes, LockInv, RaceInv, Holding
<1>5. ASSUME NEW c \in Callers, Publish(c)
      PROVE  LockInv' /\ RaceInv'
  BY <1>5 DEF TypeOK, Publish, Goes, LockInv, RaceInv, Holding
<1>6. ASSUME NEW c \in Callers, Probe(c)
      PROVE  LockInv' /\ RaceInv'
  <2>1. LockInv'
    BY <1>6, ProbeFrame, EnvType DEF LockInv, Holding
  <2>2. RaceInv'
    BY <1>6, ProbeFrame DEF RaceInv, Holding
  <2> QED
    BY <2>1, <2>2
<1>7. CASE UNCHANGED vars
  BY <1>7 DEF vars, call, LockInv, RaceInv
<1> QED
  BY <1>1, <1>2, <1>3, <1>4, <1>5, <1>6, <1>7 DEF Next, Detect, Ended

\* Only probing changes what the account of time speaks of.
LEMMA TimeStep == IInv /\ [Next]_vars => TimeInv' /\ PassInv'
<1> SUFFICES ASSUME IInv, [Next]_vars PROVE TimeInv' /\ PassInv'
  OBVIOUS
<1> USE DEF IInv
<1>1. CASE Reset \/ UNCHANGED vars \/ \E c \in Callers : Simple(c)
  <2>1. UNCHANGED <<net, next, spent>>
    BY <1>1 DEF Reset, vars, Simple, Call, Look, Reread, Lock, Publish, Cancel, world,
                call, context
  <2>2. /\ \A i : Slow(i)' = Slow(i)
        /\ \A d \in Callers : Slow(next[d])' = Slow(next[d])
    BY <2>1 DEF Slow
  <2>3. ASSUME NEW d \in Callers, pc'[d] \in Holding
        PROVE  /\ cancelled[d] => cancelled'[d]
               /\ \/ pc[d] = pc'[d] /\ waited'[d] = waited[d]
                  \/ pc[d] = "lock" /\ pc'[d] = "ask" /\ waited'[d] = spent[d]
    BY <1>1, <2>3 DEF TypeOK, Reset, vars, Simple, Call, Look, Reread, Lock, Publish,
                      Cancel, Goes, call, context, Holding
  <2>4. ASSUME NEW d \in Callers, pc[d] = "lock"
        PROVE  /\ next[d] = 1 /\ spent[d] \in Nat
               /\ Cardinality(Slow(next[d])) \in Nat
    <3>1. next[d] = 1 /\ 1 \in 1 .. OnPrem
      BY <2>4 DEF LockInv, OnPrem
    <3> QED
      BY <3>1, SlowFacts DEF TypeOK
  <2>5. TimeInv'
    <3> SUFFICES ASSUME NEW d \in Callers, pc'[d] \in {"ask", "identity"}
                 PROVE  /\ spent[d] <= waited'[d] + Cardinality(Slow(next[d]))
                        /\ pc'[d] = "identity" => next[d] = 1
      BY <2>1, <2>2 DEF TimeInv
    <3>1. CASE pc[d] = pc'[d] /\ waited'[d] = waited[d]
      BY <3>1 DEF TimeInv
    <3>2. CASE pc[d] = "lock" /\ pc'[d] = "ask" /\ waited'[d] = spent[d]
      BY <2>4, <3>2
    <3> QED
      BY <2>3, <3>1, <3>2 DEF Holding
  <2>6. PassInv'
    <3> SUFFICES ASSUME NEW d \in Callers, NEW i \in Index, pc'[d] \in Holding,
                        Findable(d, i)'
                 PROVE  next[d] <= i
      BY <2>1 DEF PassInv
    <3>1. CASE pc[d] = pc'[d] /\ waited'[d] = waited[d]
      <4>1. Findable(d, i)
        BY <2>1, <2>2, <2>3, <3>1 DEF Findable
      <4> QED
        BY <3>1, <4>1 DEF PassInv
    <3>2. CASE pc[d] = "lock"
      BY <2>4, <3>2 DEF Index
    <3> QED
      BY <2>3, <3>1, <3>2
  <2> QED
    BY <2>5, <2>6
<1>2. ASSUME NEW c \in Callers, Probe(c)
      PROVE  TimeInv' /\ PassInv'
  BY <1>2, ProbeTime
<1> QED
  BY <1>1, <1>2 DEF Next, Detect, Ended, Simple
-----------------------------------------------------------------------------
\* The invariant holds in every reachable state.
THEOREM Invariance == Spec => []IInv
<1>1. IInv /\ [Next]_vars => IInv'
  BY TypeStep, LockStep, TimeStep DEF IInv
<1> QED
  BY <1>1, InitIInv, PTL DEF Spec

\* Every variable keeps its type: what is cached and returned is an environment
\* whose compute type is one of its provider's, and no context is overdrawn.
THEOREM TypeCorrect == Spec => []TypeOK
  BY Invariance, PTL DEF IInv

\* For any budget, any waiting and any behaviour of the endpoints, a provider
\* that answers is not passed over while there is time to ask it.
THEOREM ProviderFound == Spec => []EarliestFound
<1>1. IInv => EarliestFound
  BY DEF IInv, PassInv, EarliestFound, Findable, Holding
<1> QED
  BY <1>1, Invariance, PTL

Phase == [c \in Callers |-> IF pc[c] = "idle" THEN "idle"
                            ELSE IF pc[c] = "returned" THEN "answered" ELSE "asked"]

\* The detector implements its promise: one decision between two Resets, and
\* no answer without an environment unless a Reset came during the call.
THEOREM OneVerdict == Spec => DecidesOnce
<1> USE DEF IInv
<1>1. Init => Once!Init
  BY DEF Init, Once!Init
<1>2. IInv /\ [Next]_vars => [Once!Next]_Once!vars
  <2> SUFFICES ASSUME IInv, [Next]_vars PROVE [Once!Next]_Once!vars
    OBVIOUS
  <2>1. CASE UNCHANGED <<pc, cached, result, raced>>
    BY <2>1 DEF Once!vars
  <2>2. CASE Reset
    <3>1. {c \in Callers : InCall(c)} = {c \in Callers : Phase[c] = "asked"}
      BY DEF InCall, Phase
    <3> QED
      BY <2>2, <3>1 DEF Reset, call, Once!Next, Once!Forget, Phase
  <2>3. ASSUME NEW c \in Callers, Call(c)
        PROVE  Once!Ask(c)
    BY <2>3 DEF Call, Goes, Once!Ask, TypeOK
  <2>4. ASSUME NEW c \in Callers, Look(c)
        PROVE  UNCHANGED Once!vars
    BY <2>4 DEF Look, Goes, Once!vars, TypeOK
  <2>5. ASSUME NEW c \in Callers, Reread(c)
        PROVE  Once!Tell(c) \/ Once!TellNothing(c)
    BY <2>5 DEF Reread, Goes, Returns, Once!Tell, Once!TellNothing, Once!Answer, TypeOK,
                RaceInv
  <2>6. ASSUME NEW c \in Callers, Lock(c)
        PROVE  Once!Tell(c) \/ UNCHANGED Once!vars
    BY <2>6 DEF Lock, Goes, Returns, Once!Tell, Once!Answer, Once!vars, TypeOK
  <2>7. ASSUME NEW c \in Callers, Publish(c)
        PROVE  Once!Decide(c)
    BY <2>7 DEF Publish, Goes, Returns, Once!Decide, Once!Answer, TypeOK, LockInv, Holding
  <2>8. ASSUME NEW c \in Callers, Probe(c)
        PROVE  UNCHANGED Once!vars
    BY <2>8, ProbeFrame DEF Once!vars, TypeOK, Holding
  <2>9. ASSUME NEW c \in Callers, Cancel(c)
        PROVE  UNCHANGED <<pc, cached, result, raced>>
    BY <2>9 DEF Cancel, call
  <2>10. CASE UNCHANGED vars
    BY <2>1, <2>10 DEF vars, call
  <2> QED
    BY <2>1, <2>2, <2>3, <2>4, <2>5, <2>6, <2>7, <2>8, <2>9, <2>10
       DEF Next, Detect, Ended, Once!Next
<1> QED
  BY <1>1, <1>2, Invariance, PTL DEF Spec, DecidesOnce, Once!Spec
=============================================================================
