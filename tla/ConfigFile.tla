------------------------------ MODULE ConfigFile ------------------------------
(***************************************************************************)
(* The host agent's collector configuration file, OtelConfigPath: read by  *)
(* LoadConfig, patched in place at startup (PatchCollectorConfigFile),     *)
(* replaced by UpdateConfig through a temporary file and read by whoever   *)
(* starts a collector, with failing writes and crashes between any two     *)
(* accesses.  The goroutines that make these calls are in HostAgent.       *)
(*                                                                         *)
(* What a file holds is a configuration, Empty (truncated), Broken (cut so *)
(* that it does not parse) or Missing.                                     *)
(***************************************************************************)
EXTENDS Integers

CONSTANTS
    Configs,                   \* parsed configurations
    Initial, Delivered,        \* those installed at first, those the server sends
    Envs,                      \* the environments detection may find
    NoConfig,                  \* the configuration without any key
    Patch(_, _),               \* PatchCollectorConfig
    Enrich(_, _),              \* the merge of EnrichCollectorConfig
    Cuts(_),                   \* configurations a cut file parses to
    Empty, Broken, Missing, Lost, NoEnv,
    MaxDeliveries              \* bound: calls of UpdateConfig

ASSUME ConfigsAssumption ==
    /\ Initial \subseteq Configs /\ Delivered \subseteq Configs /\ NoConfig \in Configs
    /\ \A c \in Configs : Cuts(c) \subseteq Configs
    /\ \A c \in Configs, e \in Envs : Patch(c, e) \in Configs
ASSUME OthersAssumption ==
    /\ {Empty, Broken, Missing, Lost} \cap Configs = {} /\ NoEnv \notin Envs
    /\ Empty \notin {Broken, Missing} /\ Broken # Missing
ASSUME BoundsAssumption == MaxDeliveries \in Nat

\* A patch replaces what another patch has written: the comment on
\* PatchCollectorConfig calls it idempotent.
ASSUME AbsorbAssumption ==
    \A c \in Configs : \A d, e \in Envs : Patch(Patch(c, d), e) = Patch(c, e)

VARIABLES
    pc,           \* LoadConfig and StartAgent up to the patch
    env,          \* a.cloudEnv
    data,         \* PatchCollectorConfigFile's local
    update,       \* UpdateConfig
    newConfig,    \* its argument
    file, temp,   \* OtelConfigPath, the same with ".new"
    origin,       \* history: the configuration installed last, or Lost
    deliveries

startup == <<pc, env, data>>
checker == <<update, newConfig, deliveries>>
vars == <<startup, checker, file, temp, origin>>

Init ==
    /\ pc = "down" /\ env = NoEnv /\ data = Missing
    /\ update = "idle" /\ newConfig = NoConfig /\ deliveries = 0
    /\ temp = Missing
    /\ \/ file \in Initial /\ origin = file
       \/ file = Missing /\ origin = Lost
-----------------------------------------------------------------------------
\* What unmarshalling gives, and the patch of it: an empty file has no map.
Parsed(contents) == IF contents = Empty THEN NoConfig ELSE contents

Patched(contents, e) == IF contents = Empty THEN NoConfig ELSE Patch(contents, e)

Readable(contents) == contents \notin {Broken, Missing}

\* What a write that fails leaves behind it.
Remains(c) == {Empty, Broken} \cup Cuts(c)

\* Mutant: the environment is not detected before the patch.
StartUndetected ==
    /\ pc = "down" /\ file # Broken
    /\ pc' = "read" /\ UNCHANGED env
    /\ UNCHANGED <<data, checker, file, temp, origin>>

\* LoadConfig parses the file, if there is one; then the environment is detected.
Start ==
    /\ pc = "down" /\ file # Broken
    /\ pc' = "read" /\ env' \in Envs
    /\ UNCHANGED <<data, checker, file, temp, origin>>

\* A file that does not parse ends the process, however often it is restarted.
StartFails == pc = "down" /\ file = Broken /\ UNCHANGED vars

\* The error of a patch is only logged: the agent is up either way.
PatchReads ==
    /\ pc = "read"
    /\ \/ pc' = "open" /\ Readable(file) /\ data' = file
       \/ pc' = "up" /\ UNCHANGED data
    /\ UNCHANGED <<env, checker, file, temp, origin>>

PatchOpens ==
    /\ pc = "open"
    /\ \/ pc' = "write" /\ file' = Empty /\ UNCHANGED data
       \/ pc' = "up" /\ data' = Missing /\ UNCHANGED file
    /\ UNCHANGED <<env, checker, temp, origin>>

\* Mutant: a file that was patched before is written back as it was.
PatchWritesOnce ==
    /\ pc = "write" /\ pc' = "up" /\ data' = Missing
    /\ \/ /\ file' = IF \E c \in Configs, e \in Envs : data = Patch(c, e) THEN data
                     ELSE Patched(data, env)
          /\ UNCHANGED origin
       \/ file' \in Remains(Patched(data, env)) /\ origin' = Lost
    /\ UNCHANGED <<env, checker, temp>>

PatchWrites ==
    /\ pc = "write" /\ pc' = "up" /\ data' = Missing
    /\ \/ file' = Patched(data, env) /\ UNCHANGED origin
       \/ file' \in Remains(Patched(data, env)) /\ origin' = Lost
    /\ UNCHANGED <<env, checker, temp>>
-----------------------------------------------------------------------------
\* The server's configuration, patched, goes to a temporary file...
UpdateBegins ==
    /\ pc = "up" /\ update = "idle" /\ update' = "open"
    /\ deliveries < MaxDeliveries /\ deliveries' = deliveries + 1
    /\ newConfig' \in Delivered
    /\ UNCHANGED <<startup, file, temp, origin>>

UpdateReturns == update' = "idle" /\ newConfig' = NoConfig /\ UNCHANGED deliveries

\* Mutant: the configuration file itself is opened.
UpdateOpensFile ==
    /\ update = "open"
    /\ \/ update' = "write" /\ file' = Empty /\ temp' = Empty
          /\ UNCHANGED <<newConfig, deliveries>>
       \/ UpdateReturns /\ UNCHANGED <<file, temp>>
    /\ UNCHANGED <<startup, origin>>

UpdateOpens ==
    /\ update = "open"
    /\ \/ update' = "write" /\ temp' = Empty /\ UNCHANGED <<newConfig, deliveries>>
       \/ UpdateReturns /\ UNCHANGED temp
    /\ UNCHANGED <<startup, file, origin>>

\* Mutant: the error of the write is not looked at.
UpdateWritesOn ==
    /\ update = "write" /\ update' = "rename"
    /\ temp' \in {Patch(newConfig, env)} \cup Remains(Patch(newConfig, env))
    /\ UNCHANGED <<newConfig, deliveries>>
    /\ UNCHANGED <<startup, file, origin>>

UpdateWrites ==
    /\ update = "write"
    /\ \/ /\ update' = "rename" /\ temp' = Patch(newConfig, env)
          /\ UNCHANGED <<newConfig, deliveries>>
       \/ UpdateReturns /\ temp' \in Remains(Patch(newConfig, env))
    /\ UNCHANGED <<startup, file, origin>>

\* ... which is renamed over the configuration; any of the calls may fail.
UpdateRenames ==
    /\ update = "rename" /\ UpdateReturns
    /\ \/ file' = temp /\ temp' = Missing /\ origin' = newConfig
       \/ UNCHANGED <<file, temp, origin>>
    /\ UNCHANGED startup
-----------------------------------------------------------------------------
\* The process stops or is killed, between any two steps or within a write:
\* only the files remain.
Crash ==
    /\ pc # "down" /\ pc' = "down" /\ env' = NoEnv /\ data' = Missing
    /\ UpdateReturns
    /\ IF pc = "write"
       THEN file' \in Remains(Patched(data, env)) /\ origin' = Lost
       ELSE UNCHANGED <<file, origin>>
    /\ IF update = "write" THEN temp' \in Remains(Patch(newConfig, env))
       ELSE UNCHANGED temp

Update == UpdateBegins \/ UpdateOpens \/ UpdateWrites \/ UpdateRenames

Next ==
    \/ Start \/ StartFails \/ PatchReads \/ PatchOpens \/ PatchWrites \/ Update \/ Crash

Spec == Init /\ [][Next]_vars
-----------------------------------------------------------------------------
Contents == Configs \cup {Empty, Broken, Missing}

\* Every variable has its type.
TypeOK ==
    /\ pc \in {"down", "read", "open", "write", "up"}
    /\ env \in IF pc = "down" THEN {NoEnv} ELSE Envs
    /\ data \in Contents \ {Broken}
    /\ update \in {"idle", "open", "write", "rename"} /\ newConfig \in Delivered \cup {NoConfig}
    /\ deliveries \in 0 .. MaxDeliveries
    /\ file \in Contents /\ temp \in Contents
    /\ origin \in Initial \cup Delivered \cup {Lost}

Versions(c) == {c} \cup {Patch(c, e) : e \in Envs}

\* However often the agent is killed, restarted in another environment and sent
\* a configuration, the file is the one installed last with at most one patch:
\* patches do not pile up, and no part of an interrupted update is ever in it.
NoDrift == origin # Lost /\ pc # "write" => file \in Versions(origin)

\* What is put into the file of an agent that is up is patched for the environment
\* this agent has found: a verdict of an earlier run, of another machine or of a
\* detection that was cancelled, is replaced by the first patch that succeeds.
FollowsVerdict ==
    [][pc' = "up" /\ file' # file /\ origin' # Lost => file' = Patch(origin', env)]_vars

Store == INSTANCE ConfigStore WITH
    content <- IF pc = "write" THEN data ELSE file, up <- (pc = "up")

\* For its readers the file is a register that only a startup can lose.
IsRegister == Store!Spec

\* What a collector that is created now may load: the enrichment detects the
\* environment once more and, if it fails, the file is loaded as it is.
Loadable ==
    IF pc = "up" /\ Readable(file)
    THEN {Parsed(file)} \cup {Enrich(Parsed(file), e) : e \in Envs}
    ELSE {}
=============================================================================
