--------------------------- MODULE ConfigFile_proofs ---------------------------
(***************************************************************************)
(* Proofs about ConfigFile for any configurations and environments, and    *)
(* any patch that absorbs an earlier one: type correctness, that patches   *)
(* do not pile up, and that the file implements ConfigStore.               *)
(***************************************************************************)
EXTENDS ConfigFile, TLAPS

\* What was read to be patched is still the file until it is truncated.
DataInv ==
    /\ pc \in {"open", "write"} => data \in Configs \cup {Empty}
    /\ pc = "open" => data = file

\* An update runs in an agent that is up; what it renames is whole.
UpdateInv ==
    /\ update # "idle" => pc = "up" /\ newConfig \in Delivered
    /\ update = "rename" => temp = Patch(newConfig, env)

\* What readers are to find; while the file is rewritten, what it held before.
Content == IF pc = "write" THEN data ELSE file

DriftInv == origin # Lost => Content \in Versions(origin)

IInv == TypeOK /\ DataInv /\ UpdateInv /\ DriftInv
-----------------------------------------------------------------------------
\* A file never holds anything but a configuration or one of the marks.
LEMMA Writes ==
    ASSUME NEW c \in Configs, NEW e \in Envs
    PROVE  Patch(c, e) \in Configs /\ Remains(c) \subseteq Contents
BY ConfigsAssumption DEF Remains, Contents

LEMMA PatchedIsConfig ==
    ASSUME NEW c \in Configs \cup {Empty}, NEW e \in Envs
    PROVE  Patched(c, e) \in Configs
BY ConfigsAssumption DEF Patched

\* Patching any version of a configuration gives a version of it.
LEMMA VersionsPatch ==
    ASSUME NEW c \in Configs, NEW e \in Envs, NEW v \in Versions(c)
    PROVE  /\ v \in Configs /\ Patched(v, e) = Patch(c, e)
           /\ Patched(v, e) \in Versions(c)
<1>1. v \in Configs /\ v # Empty
  BY ConfigsAssumption, OthersAssumption DEF Versions
<1>2. Patch(v, e) = Patch(c, e)
  BY AbsorbAssumption DEF Versions
<1> QED
  BY <1>1, <1>2 DEF Patched, Versions

\* The invariant holds at first.
LEMMA InitIInv == Init => IInv
<1> SUFFICES ASSUME Init PROVE IInv
  OBVIOUS
<1> USE ConfigsAssumption, OthersAssumption, BoundsAssumption DEF Init
<1>1. TypeOK
  BY DEF TypeOK, Contents
<1>2. DataInv /\ UpdateInv
  BY DEF DataInv, UpdateInv
<1>3. DriftInv
  BY DEF DriftInv, Content, Versions
<1> QED
  BY <1>1, <1>2, <1>3 DEF IInv

\* Every step keeps it.
LEMMA StepIInv == IInv /\ [Next]_vars => IInv'
<1> SUFFICES ASSUME IInv, [Next]_vars PROVE IInv'
  OBVIOUS
<1> USE ConfigsAssumption, OthersAssumption, BoundsAssumption DEF IInv
<1>1. CASE Start
  <2>1. TypeOK'
    BY <1>1 DEF Start, TypeOK, checker, Contents
  <2>2. DataInv' /\ UpdateInv' /\ DriftInv'
    BY <1>1 DEF Start, DataInv, UpdateInv, DriftInv, Content, Versions, checker
  <2> QED
    BY <2>1, <2>2
<1>2. CASE PatchReads
  <2>1. TypeOK'
    BY <1>2 DEF PatchReads, TypeOK, checker, Contents, Readable
  <2>2. DataInv' /\ UpdateInv'
    BY <1>2 DEF PatchReads, TypeOK, DataInv, UpdateInv, checker, Contents, Readable
  <2>3. DriftInv'
    BY <1>2 DEF PatchReads, DriftInv, Content, Versions
  <2> QED
    BY <2>1, <2>2, <2>3
<1>3. CASE PatchOpens
  <2>1. TypeOK'
    BY <1>3 DEF PatchOpens, TypeOK, checker, Contents
  <2>2. DataInv' /\ UpdateInv'
    BY <1>3 DEF PatchOpens, DataInv, UpdateInv, checker
  <2>3. DriftInv'
    BY <1>3 DEF PatchOpens, DataInv, DriftInv, Content, Versions
  <2> QED
    BY <2>1, <2>2, <2>3
<1>4. CASE PatchWrites
  <2>1. data \in Configs \cup {Empty} /\ env \in Envs
    BY <1>4 DEF PatchWrites, DataInv, TypeOK
  <2>2. Patched(data, env) \in Contents /\ Remains(Patched(data, env)) \subseteq Contents
    BY <2>1, PatchedIsConfig, Writes DEF Contents
  <2>3. TypeOK'
    BY <1>4, <2>1, <2>2 DEF PatchWrites, TypeOK, checker, Contents
  <2>4. DataInv' /\ UpdateInv'
    BY <1>4 DEF PatchWrites, DataInv, UpdateInv, checker
  <2>5. ASSUME origin' # Lost PROVE file' \in Versions(origin')
    <3>1. origin' = origin /\ file' = Patched(data, env) /\ origin \in Configs
      BY <1>4, <2>5 DEF PatchWrites, TypeOK
    <3>2. data \in Versions(origin)
      BY <1>4, <2>5, <3>1 DEF PatchWrites, DriftInv, Content
    <3> QED
      BY <2>1, <3>1, <3>2, VersionsPatch
  <2>6. DriftInv'
    BY <1>4, <2>5 DEF PatchWrites, DriftInv, Content
  <2> QED
    BY <2>3, <2>4, <2>6
<1>5. CASE UpdateBegins
  <2>1. TypeOK'
    BY <1>5 DEF UpdateBegins, TypeOK, startup, Contents
  <2>2. DataInv' /\ UpdateInv'
    BY <1>5 DEF UpdateBegins, DataInv, UpdateInv, startup
  <2>3. DriftInv'
    BY <1>5 DEF UpdateBegins, DriftInv, Content, Versions, startup
  <2> QED
    BY <2>1, <2>2, <2>3
<1>6. CASE UpdateOpens
  <2>1. TypeOK'
    BY <1>6 DEF UpdateOpens, UpdateReturns, TypeOK, startup, Contents
  <2>2. DataInv' /\ UpdateInv'
    BY <1>6 DEF UpdateOpens, UpdateReturns, DataInv, UpdateInv, startup
  <2>3. DriftInv'
    BY <1>6 DEF UpdateOpens, DriftInv, Content, Versions, startup
  <2> QED
    BY <2>1, <2>2, <2>3
<1>7. CASE UpdateWrites
  <2>1. newConfig \in Configs /\ env \in Envs
    BY <1>7 DEF UpdateWrites, UpdateInv, TypeOK
  <2>2. /\ Patch(newConfig, env) \in Contents
        /\ Remains(Patch(newConfig, env)) \subseteq Contents
    BY <2>1, Writes DEF Contents
  <2>3. TypeOK'
    BY <1>7, <2>2 DEF UpdateWrites, UpdateReturns, TypeOK, startup, Contents
  <2>4. DataInv' /\ UpdateInv'
    BY <1>7 DEF UpdateWrites, UpdateReturns, DataInv, UpdateInv, startup
  <2>5. DriftInv'
    BY <1>7 DEF UpdateWrites, DriftInv, Content, Versions, startup
  <2> QED
    BY <2>3, <2>4, <2>5
<1>8. CASE UpdateRenames
  <2>1. /\ newConfig \in Delivered /\ newConfig \in Configs /\ env \in Envs
        /\ temp = Patch(newConfig, env) /\ pc = "up"
    BY <1>8 DEF UpdateRenames, UpdateInv, TypeOK
  <2>2. TypeOK'
    BY <1>8, <2>1 DEF UpdateRenames, UpdateReturns, TypeOK, startup, Contents
  <2>3. DataInv' /\ UpdateInv'
    BY <1>8, <2>1 DEF UpdateRenames, UpdateReturns, DataInv, UpdateInv, startup
  <2>4. DriftInv'
    BY <1>8, <2>1 DEF UpdateRenames, DriftInv, Content, Versions, startup
  <2> QED
    BY <2>2, <2>3, <2>4
<1>9. CASE Crash
  <2>1. pc = "write" => Remains(Patched(data, env)) \subseteq Contents
    BY PatchedIsConfig, Writes DEF DataInv, TypeOK
  <2>2. update = "write" => Remains(Patch(newConfig, env)) \subseteq Contents
    BY Writes DEF UpdateInv, TypeOK
  <2>3. TypeOK'
    BY <1>9, <2>1, <2>2 DEF Crash, UpdateReturns, TypeOK, Contents
  <2>4. DataInv' /\ UpdateInv'
    BY <1>9 DEF Crash, UpdateReturns, DataInv, UpdateInv
  <2>5. DriftInv'
    BY <1>9 DEF Crash, DriftInv, Content, Versions
  <2> QED
    BY <2>3, <2>4, <2>5
<1>10. CASE StartFails \/ UNCHANGED vars
  BY <1>10 DEF StartFails, vars, startup, checker, TypeOK, Contents, DataInv, UpdateInv,
               DriftInv, Content, Versions
<1> QED
  BY <1>1, <1>2, <1>3, <1>4, <1>5, <1>6, <1>7, <1>8, <1>9, <1>10 DEF Next, Update

\* IInv is an invariant.
LEMMA Invariance == Spec => []IInv
BY InitIInv, StepIInv, PTL DEF Spec

\* Every variable keeps its type, whatever is delivered and however often the
\* agent is killed.
THEOREM TypeCorrect == Spec => []TypeOK
<1>1. IInv => TypeOK
  BY DEF IInv
<1> QED
  BY <1>1, Invariance, PTL

\* The file is the configuration installed last with at most one patch.
THEOREM PatchesDoNotPileUp == Spec => []NoDrift
<1>1. IInv => NoDrift
  BY DEF IInv, DriftInv, Content, NoDrift
<1> QED
  BY <1>1, Invariance, PTL
-----------------------------------------------------------------------------
\* Whatever was in the file before, what an agent that is up puts there is patched
\* for the environment it has found.
THEOREM VerdictIsReplaced == Spec => FollowsVerdict
<1> DEFINE Follows == pc' = "up" /\ file' # file /\ origin' # Lost => file' = Patch(origin', env)
<1>1. IInv /\ [Next]_vars => [Follows]_vars
  <2> SUFFICES ASSUME IInv, [Next]_vars, pc' = "up", file' # file, origin' # Lost
               PROVE  file' = Patch(origin', env)
    OBVIOUS
  <2>1. PatchWrites \/ UpdateRenames
    BY DEF Next, Update, Start, StartFails, PatchReads, PatchOpens, UpdateBegins, UpdateOpens,
           UpdateWrites, Crash, vars, startup, checker
  <2>2. CASE PatchWrites
    <3>1. origin' = origin /\ file' = Patched(data, env) /\ origin \in Configs /\ env \in Envs
      BY <2>2, ConfigsAssumption DEF PatchWrites, IInv, TypeOK
    <3>2. data \in Versions(origin)
      BY <2>2, <3>1 DEF PatchWrites, IInv, DriftInv, Content
    <3> QED
      BY <3>1, <3>2, VersionsPatch
  <2>3. CASE UpdateRenames
    BY <2>3 DEF UpdateRenames, IInv, UpdateInv
  <2> QED
    BY <2>1, <2>2, <2>3
<1> QED
  BY <1>1, Invariance, PTL DEF Spec, FollowsVerdict
-----------------------------------------------------------------------------
\* A step of the store, or none.
StoreStep == Store!Next \/ UNCHANGED Store!vars

LEMMA InitStore == Init => Store!Init
BY ConfigsAssumption DEF Init, Store!Init

\* Every step of the agent is one of the store, or leaves it as it is.
LEMMA StepStore == IInv /\ [Next]_vars => StoreStep
<1> SUFFICES ASSUME IInv, [Next]_vars PROVE StoreStep
  OBVIOUS
<1> USE DEF StoreStep
<1>1. CASE Start \/ UpdateBegins \/ UpdateOpens \/ UpdateWrites \/ StartFails \/ UNCHANGED vars
  BY <1>1 DEF Start, UpdateBegins, UpdateOpens, UpdateWrites, StartFails, vars, startup,
              checker, Store!vars
<1>2. CASE PatchReads
  BY <1>2 DEF PatchReads, Store!vars, Store!Next, Store!Startup, Store!Keep
<1>3. CASE PatchOpens
  BY <1>3 DEF PatchOpens, IInv, DataInv, Store!vars, Store!Next, Store!Startup, Store!Keep
<1>4. CASE PatchWrites
  <2>1. pc = "write" /\ pc' = "up"
    BY <1>4 DEF PatchWrites
  <2>2. CASE origin' = Lost
    BY <2>1, <2>2 DEF Store!Next, Store!Startup
  <2>3. CASE origin' # Lost
    <3>1. origin' = origin /\ file' = Patched(data, env) /\ origin \in Configs /\ env \in Envs
      BY <1>4, <2>3, ConfigsAssumption DEF PatchWrites, IInv, TypeOK
    <3>2. data \in Versions(origin)
      BY <2>1, <2>3, <3>1 DEF IInv, DriftInv, Content
    <3>3. file' = Patch(origin, env)
      BY <3>1, <3>2, VersionsPatch
    <3> QED
      BY <2>1, <2>3, <3>1, <3>3 DEF Store!Next, Store!Startup, Store!Keep
  <2> QED
    BY <2>2, <2>3
<1>5. CASE UpdateRenames
  <2>1. newConfig \in Delivered /\ env \in Envs /\ temp = Patch(newConfig, env) /\ pc = "up"
    BY <1>5 DEF UpdateRenames, IInv, UpdateInv, TypeOK
  <2> QED
    BY <1>5, <2>1 DEF UpdateRenames, startup, Store!Next, Store!Install, Store!vars
<1>6. CASE Crash
  <2>1. CASE pc = "up"
    BY <1>6, <2>1 DEF Crash, Store!Next, Store!GoDown
  <2>2. CASE pc = "write"
    BY <1>6, <2>2 DEF Crash, Store!Next, Store!Startup
  <2>3. CASE pc \notin {"up", "write"}
    BY <1>6, <2>3 DEF Crash, Store!vars
  <2> QED
    BY <2>1, <2>2, <2>3
<1> QED
  BY <1>1, <1>2, <1>3, <1>4, <1>5, <1>6 DEF Next, Update

\* For its readers the file is a register that only a startup can lose.
THEOREM FileIsRegister == Spec => IsRegister
BY Invariance, InitStore, StepStore, PTL DEF Spec, IsRegister, Store!Spec, StoreStep
=============================================================================
