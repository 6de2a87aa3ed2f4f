----------------------------- MODULE MCAgentQueue -----------------------------
(***************************************************************************)
(* One job and two agents, in two settings: agents that fall silent while  *)
(* their jobs are taken back, and everything that can happen to a          *)
(* completion.  focus says which of the two a behaviour is about.          *)
(***************************************************************************)
\* Heartbeats stop, jobs are reclaimed up to twice, the server crashes once.
EXTENDS AgentJobQueue, TLC

VARIABLES
    focus,
    xpending, xinflight, xchan, xwaiter, xregistered, xreserved, xreported, xage, xrpc,
    xrows, xepisode, xstoreUp, xheld, xacks, xruns, xcrashes

answerVars == <<xpending, xinflight, xchan, xwaiter, xregistered, xreserved, xreported, xage, xrpc,
                xrows, xepisode, xstoreUp, xheld, xacks, xruns, xcrashes>>

\* Agents also restart, callers disconnect and episodes are cancelled; jobs
\* are reclaimed once.
Answers == INSTANCE AgentJobQueue WITH
            pending <- xpending, inflight <- xinflight, chan <- xchan, waiter <- xwaiter,
            registered <- xregistered, reserved <- xreserved, reported <- xreported, age <- xage,
            rpc <- xrpc, rows <- xrows, episode <- xepisode, storeUp <- xstoreUp, held <- xheld,
            acks <- xacks, runs <- xruns, crashes <- xcrashes,
            Cancels <- TRUE, Restarts <- TRUE, Disconnects <- TRUE, MaxRuns <- 2

QueueInit == Init /\ Answers!Init /\ focus \in {"leases", "answers"}

QueueNext ==
    /\ UNCHANGED focus
    /\ \/ focus = "leases" /\ Next /\ UNCHANGED answerVars
       \/ focus = "answers" /\ Answers!Next /\ UNCHANGED jobVars

QueueSpec == QueueInit /\ [][QueueNext]_<<focus, jobVars, answerVars>>

Symmetry == Permutations(Agents)

-----------------------------------------------------------------------------
\* AcceptedIsRecorded and AcceptedOnce of AgentJobQueue, where agents restart,
\* callers disconnect and episodes are cancelled (complete_agent_job).
AnswersAreRecorded == Answers!AcceptedIsRecorded /\ Answers!AcceptedOnce

=============================================================================
