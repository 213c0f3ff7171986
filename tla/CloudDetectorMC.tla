---------------------------- MODULE CloudDetectorMC ----------------------------
(***************************************************************************)
(* CloudDetector on machines of which at most one endpoint always answers  *)
(* and at most one is flaky; the others refuse or hang.                    *)
(***************************************************************************)
EXTENDS CloudDetector

CONSTANTS c1, c2

\* Where the machine runs, or nowhere; the flaky endpoint, or none; the ones
\* that hang.
SomeNets ==
    {[i \in Index |-> IF i = home THEN "prompt" ELSE IF i = flaky THEN "flaky"
                      ELSE IF i \in hanging THEN "hangs" ELSE "refuses"] :
        home \in {0, 5, 6}, flaky \in {0, 1},
        hanging \in {{}, 2 .. 5, Index}}

SomeSignals == {{"lambda"}, {"ecs", "docker"}, {"kubernetes"}}
=============================================================================
