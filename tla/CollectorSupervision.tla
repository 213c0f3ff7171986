------------------------- MODULE CollectorSupervision -------------------------
(***************************************************************************)
(* What the host agent promises about its collectors, whatever its         *)
(* goroutines do: a collector enters service once, before the agent has    *)
(* closed the entrance; it leaves service by being withdrawn or after it   *)
(* has ended; only a withdrawn one is told to stop; and when the agent     *)
(* reports that all has ended, no collector runs or ever will.             *)
(***************************************************************************)
CONSTANTS
    Collectors, Nobody,
    MayReplace   \* may one enter while another is in service?

VARIABLES
    state,       \* "new", "up", "stopping", "closed" or "ended"
    serving,     \* the collector in service, or Nobody
    running,     \* those in Run
    over,        \* those that have run, or never will
    withdrawn,   \* taken out of service, not told yet
    told         \* told to stop

vars == <<state, serving, running, over, withdrawn, told>>

Init ==
    /\ state = "new" /\ serving = Nobody
    /\ running = {} /\ over = {} /\ withdrawn = {} /\ told = {}

\* The agent starts, is told to stop...
Advance ==
    /\ \/ state = "new" /\ state' = "up"
       \/ state = "up" /\ state' = "stopping"
    /\ UNCHANGED <<serving, running, over, withdrawn, told>>

Enter(c) ==
    /\ state \in {"up", "stopping"} /\ c \notin running \cup over
    /\ MayReplace \/ serving = Nobody
    /\ serving' = c /\ running' = running \cup {c}
    /\ UNCHANGED <<state, over, withdrawn, told>>

\* A collector's Run returns, or a collector is given up before it ran.
End(c) ==
    /\ c \notin over /\ over' = over \cup {c} /\ running' = running \ {c}
    /\ UNCHANGED <<state, serving, withdrawn, told>>

Clear ==
    /\ serving \in over /\ serving' = Nobody
    /\ UNCHANGED <<state, running, over, withdrawn, told>>

\* ... withdraws the collector in service, for another one or to close...
Withdraw ==
    /\ \/ state = "stopping" /\ state' = "closed"
       \/ UNCHANGED state
    /\ withdrawn' = withdrawn \cup ({serving} \ {Nobody}) /\ serving' = Nobody
    /\ UNCHANGED <<running, over, told>>

Tell(c) ==
    /\ c \in withdrawn /\ withdrawn' = withdrawn \ {c} /\ told' = told \cup {c}
    /\ UNCHANGED <<state, serving, running, over>>

\* ... and reports the end when nothing runs.
Report ==
    /\ state = "closed" /\ running = {} /\ withdrawn = {} /\ state' = "ended"
    /\ UNCHANGED <<serving, running, over, withdrawn, told>>

Next ==
    \/ Advance \/ Clear \/ Withdraw \/ Report
    \/ \E c \in Collectors : Enter(c) \/ End(c) \/ Tell(c)

Spec == Init /\ [][Next]_vars
=============================================================================
