---------------------------- MODULE MCScheduler ----------------------------
(***************************************************************************)
(* Small instances of Scheduler for TLC.                                   *)
(***************************************************************************)
EXTENDS Scheduler, TLC

CONSTANTS w1, w2, t1, t2, envA, envB, pkg

OneEndpoint == [w \in WorkerIds |-> "host-1"]
AllEnvA == [t \in Tasks |-> envA]
NoPackages == [t \in Tasks |-> NoPackage]
NoNeeds == [t \in Tasks |-> 0]

\* The prepare instance: t1 wants a packaged environment no worker starts with.
PrepareEnvs == [t \in Tasks |-> IF t = t1 THEN envB ELSE envA]
PreparePackages == [t \in Tasks |-> IF t = t1 THEN pkg ELSE NoPackage]
PrepareNeeds == [t \in Tasks |-> IF t = t1 THEN 1 ELSE 0]

OnlyEnvA == {{envA}}
NoPackageReport == {{}}

WireLoads == {-1, 0, 1}
WireMaxLoads == {0, 1, 2}
LegacyConcurrency == {0}

Interchangeable == Permutations({w1, w2}) \union Permutations({t1, t2})
=============================================================================
