---------------------------- MODULE KubeUpdaterMC ----------------------------
(***************************************************************************)
(* KubeUpdater on small instances of APMSettings.                          *)
(***************************************************************************)
EXTENDS KubeUpdater

\* Two entries that can be carried out, and a third that may not.
SomeClusters == {<<"owned", "workload", k>> : k \in {"foreign", "pod", "invalid"}}

\* Two ordinary applications.
OneCluster == {<<"workload", "workload">>}
=============================================================================
