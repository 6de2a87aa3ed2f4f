------------------------------- MODULE MCServer -------------------------------
(***************************************************************************)
(* Components of the server process that do not share state, the adapter   *)
(* core in front of them included, checked in one run: focus says which    *)
(* of them a behaviour is about, the variables of the others stay          *)
(* untouched.                                                              *)
(***************************************************************************)
EXTENDS Admission, AgentPool, Trajectory, AgentEpisode, Observability, AdapterCore, TLC

CONSTANTS w1, e1, t1, x2

VARIABLES
    focus,
    xcapacity, xdraining, xdrains, xleased, xfree, xspawned, xwaiting, xadmitted, xchanges

drainVars == <<xcapacity, xdraining, xdrains, xleased, xfree, xspawned, xwaiting, xadmitted, xchanges>>
vars == <<focus, admissionVars, agentPoolVars, trajectoryVars, drainVars, agentVars, ovars, coreVars>>

\* What the theorems about these components assume of the constants.
ASSUME ServerInstances == AdmissionConstants /\ PoolConstants /\ AgentConstants /\ ObsConstants /\ CoreConstants

\* Two workers that come, go and change their capacity five times; and one
\* that is drained, which leaves permits for the capacity it has then.
D == INSTANCE Admission WITH
        capacity <- xcapacity, draining <- xdraining, drains <- xdrains, leased <- xleased, free <- xfree,
        spawned <- xspawned, waiting <- xwaiting, admitted <- xadmitted, changes <- xchanges,
        Workers <- {w1}, MaxChanges <- 2, MayDrain <- TRUE

\* Two pools; agents that move between them, with and without a bridge and a
\* label; an episode that names a bridge.
PoolOffers == {[pool |-> 1, max_concurrent |-> 0, bridges |-> {"oh"}, labels |-> {}],
               [pool |-> 2, max_concurrent |-> 2, bridges |-> {"oh"}, labels |-> {"gpu"}],
               [pool |-> 2, max_concurrent |-> 1, bridges |-> {}, labels |-> {"gpu"}]}
PoolRequests == {[pool |-> 0, bridge |-> {"oh"}, variant |-> {}, selector |-> {}]}
ProPool == "pro" :> 1

\* Of the trajectories, two workers that made the same id; and one worker
\* with two, the second of which the server refuses.
RefusedSecond == {<<x, t>> : x \in Sealers \ {x2}, t \in Ids \ {t1}}
SameId == (\A x \in Sealers, t \in Ids \ {t1} : local[x][t] = Unsealed) /\ old \subseteq {t1} /\ lost = {}
Spool == (\A t \in Ids : local[x2][t] = Unsealed) /\ old = {}

\* An episode of a SWE agent that is submitted twice, with failures and either
\* two crashes or one and the sweep of old episodes; and, without a store, two
\* code episodes that share a permit.
Submissions == [t \in Tasks |-> IF t = "other" THEN "two" ELSE "one"]
Asks(env, instance, task) ==
    [env |-> env, mode |-> "agent", instance |-> instance, task |-> "", config_task |-> task]
SweAsks == [e \in AgentEpisodes |-> Asks("swe", "i1", "")]
A == INSTANCE AgentEpisode WITH MaxCrashes <- 2, EpisodesExpire <- FALSE
C == INSTANCE AgentEpisode WITH
        AgentRequests <- [e \in AgentEpisodes |-> Asks("code", "", "t1")],
        HasStore <- FALSE, Slots <- 0, MayFail <- FALSE, EpisodesExpire <- FALSE

\* What the trainer posts about the run, in every order of delivery.
Posts == {<<"RUN_HEARTBEAT">>, <<"RUN_COMPLETED">>, <<"RUN_FAILED", "RUN_CLOSED">>, <<"RUN_CLOSED", "RUN_STARTED">>,
          <<"RUN_CLOSED_FAILED">>, <<"RUN_STOPPED">>, <<"RUN_TERMINATED", "RUN_STARTED">>}

\* Samples of two batches; sc has to be refused for its mode, sd for its package.
Sample(id, batch, position) ==
    [request_id |-> id, batch_id |-> batch, sample_index |-> position, framework |-> "verl",
     env_type |-> "math", parallel_mode |-> "none", env |-> {"response_text"}, endpoint |-> TRUE,
     reward |-> "ground_truth", context |-> {"extra_info", "enqueue_ts"},
     correlation_id |-> batch, package |-> "p", env_package |-> "none", timeout |-> 0]
sa == Sample("a", "x", 0)
sb == [Sample("b", "x", 1) EXCEPT !.env_type = "swe", !.env = {"instance_id", "execution_mode", "other"}, !.parallel_mode = "fully_async"]
sbOther == [Sample("b", "y", 0) EXCEPT !.env_type = "code", !.reward = "rule_reward", !.timeout = 5]
sc == [Sample("c", "y", 1) EXCEPT !.parallel_mode = "other"]
sd == [Sample("d", "x", 2) EXCEPT !.env_package = "q"]

\* Batches that share episodes with each other and with a stream, and calls
\* with samples that are not valid: the batches, or the streams, are called.
CallScripts == [k1 |-> [kind |-> "batch", batch |-> "x", samples |-> <<sa, sb>>],
                k2 |-> [kind |-> "batch", batch |-> "y", samples |-> <<sbOther, sa>>],
                k3 |-> [kind |-> "batch", batch |-> "x", samples |-> <<sd>>],
                t1 |-> [kind |-> "stream", batch |-> "none", samples |-> <<sa, sc, sb>>],
                t2 |-> [kind |-> "stream", batch |-> "none", samples |-> <<sbOther, sa>>]]
Ends == {[status |-> "completed", trajectory |-> "steps"], [status |-> "cancelled", trajectory |-> "id"]}

S == INSTANCE AdapterCore WITH Outcomes <- {[status |-> "completed", trajectory |-> "empty"]}, Stops <- FALSE

ASSUME StreamInstance == S!CoreConstants

Called(kind) == \A c \in Calls : Scripts[c].kind # kind => call'[c] = call[c]

ServerInit ==
    /\ Init /\ PoolInit /\ TrajectoryInit /\ D!Init /\ AgentInit /\ OInit /\ CoreInit
    /\ focus \in {"admission", "drain", "pool", "same_id", "spool", "agents", "crashes", "code", "obs", "batch", "stream"}
    /\ focus # "obs" => progress[e1] = "new"

ServerNext ==
    /\ UNCHANGED focus
    /\ \/ focus = "admission" /\ Next
          /\ UNCHANGED <<agentPoolVars, trajectoryVars, drainVars, agentVars, ovars, coreVars>>
       \/ focus = "drain" /\ D!Next
          /\ UNCHANGED <<admissionVars, agentPoolVars, trajectoryVars, agentVars, ovars, coreVars>>
       \/ focus = "pool" /\ PoolNext
          /\ UNCHANGED <<admissionVars, trajectoryVars, drainVars, agentVars, ovars, coreVars>>
       \/ ((focus = "same_id" /\ TrajectoryNext /\ SameId') \/ (focus = "spool" /\ TrajectoryNext /\ Spool'))
          /\ UNCHANGED <<admissionVars, agentPoolVars, drainVars, agentVars, ovars, coreVars>>
       \/ ((((focus = "agents" /\ AgentNext) \/ (focus = "crashes" /\ A!AgentNext)) /\ pc'["other"] = "new") \/ (focus = "code" /\ C!AgentNext /\ pc'["again"] = "new"))
          /\ UNCHANGED <<admissionVars, agentPoolVars, trajectoryVars, drainVars, ovars, coreVars>>
       \/ focus = "obs" /\ ONext
          /\ UNCHANGED <<admissionVars, agentPoolVars, trajectoryVars, drainVars, agentVars, coreVars>>
       \/ ((focus = "batch" /\ CoreNext /\ Called("batch")) \/ (focus = "stream" /\ S!CoreNext /\ Called("stream")))
          /\ UNCHANGED <<admissionVars, agentPoolVars, trajectoryVars, drainVars, agentVars, ovars>>

ServerSpec == ServerInit /\ [][ServerNext]_vars

-----------------------------------------------------------------------------
\* The properties are those of the components' modules.

=============================================================================
