------------------------------ MODULE DetectOnce ------------------------------
(***************************************************************************)
(* The contract of the type Detector, were it shared: the environment is   *)
(* decided once, everybody is told that decision until Reset forgets it,   *)
(* and a call ends without an environment only if a Reset came in between. *)
(***************************************************************************)
CONSTANTS Callers, Environments, None

VARIABLES
    decision,   \* the environment decided on, or None
    phase,      \* of each call: "idle", "asked" or "answered"
    answer,     \* what each call returned
    stale       \* calls during which the decision was forgotten

vars == <<decision, phase, answer, stale>>

Init ==
    /\ decision = None
    /\ phase = [c \in Callers |-> "idle"] /\ answer = [c \in Callers |-> None]
    /\ stale = {}

Ask(c) ==
    /\ phase[c] = "idle" /\ phase' = [phase EXCEPT ![c] = "asked"]
    /\ UNCHANGED <<decision, answer, stale>>

Answer(c, e) ==
    /\ phase[c] = "asked" /\ phase' = [phase EXCEPT ![c] = "answered"]
    /\ answer' = [answer EXCEPT ![c] = e]
    /\ UNCHANGED stale

Decide(c) ==
    /\ decision = None
    /\ decision' \in Environments /\ Answer(c, decision')

Tell(c) ==
    /\ decision # None
    /\ UNCHANGED decision /\ Answer(c, decision)

TellNothing(c) ==
    /\ decision = None /\ c \in stale
    /\ UNCHANGED decision /\ Answer(c, None)

Forget ==
    /\ decision' = None
    /\ stale' = stale \cup {c \in Callers : phase[c] = "asked"}
    /\ UNCHANGED <<phase, answer>>

Next ==
    \/ Forget
    \/ \E c \in Callers : Ask(c) \/ Decide(c) \/ Tell(c) \/ TellNothing(c)

Spec == Init /\ [][Next]_vars
=============================================================================
