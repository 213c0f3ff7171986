----------------------------- MODULE HostAgentMC -----------------------------
(***************************************************************************)
(* HostAgent on small instances: one initial collector and one restart per *)
(* configuration the server delivers.                                      *)
(***************************************************************************)
EXTENDS HostAgentSettled, TLC

CONSTANTS l0, l1, l2

\* Restarts are interchangeable until they begin; the first lifecycle is not.
Symmetry == Permutations(Lifecycles \ {First})
=============================================================================
