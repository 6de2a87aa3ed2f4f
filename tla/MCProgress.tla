------------------------------ MODULE MCProgress ------------------------------
(***************************************************************************)
(* What must happen in the end: jobs complete while agents are lost, and   *)
(* a worker finds its way back to the server.  focus says which of them a  *)
(* behaviour is about; the queue is the one of a server that stays up and  *)
(* of episodes that nobody gives up, and the worker is one that gets its   *)
(* id from the server.                                                     *)
(***************************************************************************)
EXTENDS AgentJobQueue, WorkerLink

VARIABLE focus

vars == <<focus, jobVars, linkVars>>

Steady ==
    \/ \E j \in Jobs : PersistJob(j) \/ enqueue(j) \/ TakeCompletion(j)
    \/ \E a \in Agents :
        \/ register_agent(a) \/ Ages(a) \/ agent_heartbeat(a) \/ poll_agent_job(a)
        \/ Reclaim(a) \/ Poll(a) \/ Complete(a)

Init2 == Init /\ LInit /\ focus \in {"jobs", "auto"}

Next2 ==
    /\ UNCHANGED focus
    /\ \/ focus = "jobs" /\ Steady /\ UNCHANGED linkVars
       \/ focus = "auto" /\ LNext /\ UNCHANGED jobVars

-----------------------------------------------------------------------------
J(A) == focus = "jobs" /\ A /\ UNCHANGED <<focus, linkVars>>
L(A) == focus = "auto" /\ A /\ UNCHANGED <<focus, jobVars>>

\* The runtime schedules the tasks of the server and the store answers.
Handling(a) ==
    Reclaim(a) \/ Poll(a) \/ CompleteUnknown(a) \/ CompleteCommit(a) \/ CompleteDeliver(a) \/ CompleteFails(a)

\* An agent that is not fragile registers, keeps polling and reports what it
\* holds.
Serving(a) ==
    /\ SF_vars(J(register_agent(a)))
    /\ SF_vars(J(poll_agent_job(a)))
    /\ SF_vars(J(CompleteCheck(a)))

\* A fragile one does not keep a job for ever unless its heartbeats stop.
ReportsOrIsLost(a) == SF_vars(J(CompleteCheck(a))) \/ <>[](age[a] = "lost")

JobFairness ==
    /\ \A j \in Jobs : WF_vars(J(PersistJob(j) \/ enqueue(j) \/ TakeCompletion(j)))
    /\ \A a \in Agents : WF_vars(J(Handling(a)))
    /\ \A a \in Agents \ Fragile : Serving(a)
    /\ \A a \in Fragile : ReportsOrIsLost(a)

\* The tasks of the worker, the calls they make and the server's timers go on,
\* and systemd starts again what has ended; nothing is said of dispatches,
\* losses and crashes.
LinkFairness ==
    /\ WF_vars(L(HeartbeatTask))
    /\ WF_vars(L(ReplayTask))
    /\ \A r \in Results : WF_vars(L(DirectTask(r)))
    /\ WF_vars(L(ServerStarts))
    /\ WF_vars(L(WorkerStarts \/ Serves))
    /\ \A r \in Results : WF_vars(L(Deadline(r)))

ProgressSpec == Init2 /\ [][Next2]_vars /\ JobFairness /\ LinkFairness

-----------------------------------------------------------------------------
\* Reconnects of WorkerLink, where a worker is in focus: it comes back to the
\* server and stays, whatever calls and answers are lost and whoever is restarted.
WorkerReconnects == <>[](focus = "auto" => AtHome)

=============================================================================
