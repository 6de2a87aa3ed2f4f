---------------------------- MODULE MCWorkerLink ----------------------------
(***************************************************************************)
(* A worker with a configured id that crashes and is started again.        *)
(***************************************************************************)
EXTENDS WorkerLink

LinkSpec ==
    /\ LInit /\ [][LNext]_linkVars
    /\ WF_linkVars(HeartbeatTask) /\ WF_linkVars(ReplayTask)
    /\ WF_linkVars(ServerStarts) /\ WF_linkVars(WorkerStarts \/ Serves)
    /\ \A r \in Results : WF_linkVars(DirectTask(r)) /\ WF_linkVars(Deadline(r))

=============================================================================
