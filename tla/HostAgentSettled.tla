--------------------------- MODULE HostAgentSettled ---------------------------
(***************************************************************************)
(* HostAgent with a server that lets a restart settle: it asks for none    *)
(* while a collector is starting.  The code does not enforce it, and what  *)
(* is stated here is false without it.                                     *)
(***************************************************************************)
EXTENDS HostAgent

\* A lifecycle that has not yet loaded its collector's configuration.
Starting(g) == lifePc[g] \in {"begin", "read", "truncate", "write", "create",
                              "check", "assign", "load"}

\* Assumption on the server: it asks for no restart while a collector starts.
SettledServer ==
    checkerPc' = "update" => \A g \in Lifecycles : ~Starting(g)

SettledSpec == Init /\ [][Next /\ SettledServer]_vars /\ Fairness
-----------------------------------------------------------------------------
Strict == INSTANCE CollectorSupervision WITH
    Collectors <- Lifecycles, MayReplace <- FALSE,
    state <- ServiceState, serving <- collector, running <- {g \in Lifecycles : InRun(g)},
    over <- Over, withdrawn <- Withdrawn, told <- asked

\* No collector displaces another one: each is withdrawn, and told to stop, or
\* has ended before its successor enters service.
SupervisesStrictly == Strict!Spec
=============================================================================
