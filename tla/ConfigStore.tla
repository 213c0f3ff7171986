------------------------------ MODULE ConfigStore ------------------------------
(***************************************************************************)
(* What those who read the collector configuration may rely on: while the  *)
(* agent is up the file is a register that holds one whole configuration,  *)
(* namely the last one installed, patched for some environment; however    *)
(* often the agent restarts, patches do not accumulate.  Only a startup    *)
(* may lose it, and an installation brings the register back.              *)
(***************************************************************************)
CONSTANTS Configs, Delivered, Envs, Patch(_, _), Lost

VARIABLES
    origin,    \* the configuration as it was installed, or Lost
    content,   \* what a reader finds
    up         \* the agent has started

vars == <<origin, content, up>>

Init ==
    /\ ~up
    /\ \/ origin = Lost
       \/ origin \in Configs /\ content = origin

Keep ==
    /\ UNCHANGED origin
    /\ \/ UNCHANGED content
       \/ origin # Lost /\ \E e \in Envs : content' = Patch(origin, e)

Startup ==
    /\ ~up /\ up' \in BOOLEAN
    /\ \/ Keep
       \/ origin' = Lost

Install ==
    /\ up /\ UNCHANGED up
    /\ origin' \in Delivered /\ \E e \in Envs : content' = Patch(origin', e)

GoDown == up /\ up' = FALSE /\ UNCHANGED <<origin, content>>

Next == Startup \/ Install \/ GoDown

Spec == Init /\ [][Next]_vars
=============================================================================
