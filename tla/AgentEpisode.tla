----------------------------- MODULE AgentEpisode -----------------------------
(***************************************************************************)
(* Episodes that agents execute (service/episode.rs:                       *)
(* submit_swe_agent_episode, submit_code_agent_episode) with what they     *)
(* hold: a permit of the agent pool, a reservation of a worker, an entry   *)
(* among the active episodes, a session of the worker's gateway and its    *)
(* row; and with those who free it: the guards of the task, the clean-up   *)
(* that runs every 30 seconds, and recovery after a crash.                 *)
(*                                                                         *)
(* Several submissions (Tasks) may be of one episode.  The queue of agent  *)
(* jobs is reduced to the life of one job; AgentJobQueue has the rest.     *)
(* Admission, which comes first, is in Admission.  The session belongs to  *)
(* a worker and survives a crash of the server.                            *)
(***************************************************************************)
EXTENDS Integers, FiniteSets

CONSTANTS
    AgentEpisodes, Tasks, EpisodeOf,
    AgentRequests, \* the request of each episode: see Backend
    HasStore,     \* persistence is on
    PoolPermits,  \* permits of the agent pool
    Slots,        \* worker reservations that fit
    MayFail,      \* gateway, scheduler and store may fail in this instance
    EpisodesExpire, \* terminal episodes pass their TTL in this instance
    MaxSessions,  \* bound: sessions created for an episode
    MaxCrashes    \* bound: crashes of the server

Sessions == AgentEpisodes \X (1..MaxSessions)
NoTask == "no task"
NoSession == <<"no session", 0>>

\* Every submission is of an episode, and there are no other episodes.
AgentConstants ==
    /\ EpisodeOf \in [Tasks -> AgentEpisodes]
    /\ \A e \in AgentEpisodes : \E t \in Tasks : EpisodeOf[t] = e
    /\ NoTask \notin Tasks /\ HasStore \in BOOLEAN /\ MaxSessions \in Nat

VARIABLES
    \* memory of the server
    up,          \* "up", "down", or "refused": recovery gave up
    pc,          \* where each submission is
    sid,         \* the session it has, if any
    holds,       \* what it has to give back: "permit", "worker"
    cancelled,   \* tasks whose cancel token is set
    own,         \* tasks that return a result of their own, not the agent's
    active,      \* active_episodes
    handles,     \* active_episode_handles: the task of the handle
    owner,       \* the coordinator's entries
    job,         \* the agent job of an episode in the queue
    todo,        \* sessions a clean-up has read and not yet handled
    cache,       \* completed_async
    \* the store
    storeUp,     \* a command that fails clears it until the restart
    ep, rows, grow, outbox,
    \* the gateways of the workers
    live, made,
    crashes

taskVars == <<pc, sid, holds, cancelled, own>>
tableVars == <<active, handles, owner>>
storeVars == <<storeUp, ep, rows, grow, outbox>>
gatewayVars == <<live, made>>
agentVars == <<up, taskVars, tableVars, job, todo, cache, storeVars, gatewayVars, crashes>>

Of(s) == s[1]
SessionsOf(e) == {s \in Sessions : Of(s) = e}

\* select_execution_backend with SweAgentSpec and CodeAgentSpec::from_payload.
\* The rest, and every payload that lacks its id, is native.
SweAgentSpec(q) == q.mode = "agent" /\ q.instance # ""
CodeAgentSpec(q) == q.mode = "agent" /\ (q.task # "" \/ q.config_task # "")
Backend(q) ==
    CASE q.env = "swe" /\ SweAgentSpec(q) -> "swe"
      [] q.env = "code" /\ CodeAgentSpec(q) -> "code"
      [] OTHER -> "native"

IsSwe(t) == Backend(AgentRequests[EpisodeOf[t]]) = "swe"

AgentInit ==
    /\ up = "up"
    /\ pc = [t \in Tasks |-> "new"]
    /\ sid = [t \in Tasks |-> NoSession]
    /\ holds = [t \in Tasks |-> {}]
    /\ cancelled = {}
    /\ own = {}
    /\ active = {}
    /\ handles = [e \in AgentEpisodes |-> NoTask]
    /\ owner = [e \in AgentEpisodes |-> NoTask]
    /\ job = [e \in AgentEpisodes |-> "none"]
    /\ todo = {}
    /\ cache = {}
    /\ storeUp = TRUE
    /\ ep = [e \in AgentEpisodes |-> "none"]
    /\ rows = [e \in AgentEpisodes |-> "none"]
    /\ grow = [s \in Sessions |-> "none"]
    /\ outbox = [e \in AgentEpisodes |-> "none"]
    /\ live = {}
    /\ made = [e \in AgentEpisodes |-> 0]
    /\ crashes = 0

Goto(t, p) == pc' = [pc EXCEPT ![t] = p]
Held(what) == Cardinality({t \in Tasks : what \in holds[t]})

-----------------------------------------------------------------------------
(* The way in.                                                             *)

\* execute_episode_inner: the entry and the handle of the task, unless the
\* episode is active already.
Begins(t) ==
    LET e == EpisodeOf[t] IN
    IF e \in active
    THEN /\ Goto(t, "returned")
         /\ UNCHANGED <<active, handles>>
    ELSE /\ Goto(t, "acquire")
         /\ active' = active \union {e}
         /\ handles' = [handles EXCEPT ![e] = t]

EveryoneOwnsMutant(e) == TRUE

\* get_or_insert: the first one executes, the others wait for its result.
Owns(e) == owner[e] = NoTask

submit_episode(t) ==
    LET e == EpisodeOf[t] IN
    /\ up = "up"
    /\ pc[t] = "new"
    /\ own' = own \union {t}
    /\ IF ~HasStore
       THEN Begins(t) /\ UNCHANGED <<owner, ep>>
       ELSE IF storeUp /\ ep[e] # "terminal" /\ Owns(e)
       THEN /\ ep' = [ep EXCEPT ![e] = IF @ = "none" THEN "queued" ELSE @]
            /\ owner' = [owner EXCEPT ![e] = t]
            /\ Begins(t)
       ELSE /\ Goto(t, "over")
            /\ UNCHANGED <<owner, ep, active, handles>>
    /\ UNCHANGED <<up, sid, holds, cancelled, job, todo, cache, storeUp, rows, grow, outbox,
                   gatewayVars, crashes>>

\* submit_episode_async answers with the id alone when the result is cached
\* or a handle is there; else it submits.
submit_episode_async(t) ==
    /\ up = "up"
    /\ pc[t] = "new"
    /\ EpisodeOf[t] \in cache \/ handles[EpisodeOf[t]] # NoTask
    /\ Goto(t, "over")
    /\ UNCHANGED <<up, sid, holds, cancelled, own, tableVars, job, todo, cache, storeVars, gatewayVars,
                   crashes>>

\* Permit first, then the worker; both or none is kept over a wait.  A worker
\* without a gateway URL and a missing API key end the episode.
Acquire(t) ==
    /\ up = "up"
    /\ pc[t] = "acquire"
    /\ IsSwe(t)
    /\ t \notin cancelled
    /\ Held("permit") < PoolPermits
    /\ Held("worker") < Slots
    /\ holds' = [holds EXCEPT ![t] = {"permit", "worker"}]
    /\ active' = active \union {EpisodeOf[t]}
    /\ Goto(t, "creating") \/ (MayFail /\ Goto(t, "leaving"))
    /\ UNCHANGED <<up, sid, cancelled, own, handles, owner, job, todo, cache, storeVars, gatewayVars,
                   crashes>>

\* A code job needs no worker, no session and no row.
AcquireCode(t) ==
    LET e == EpisodeOf[t] IN
    /\ up = "up"
    /\ pc[t] = "acquire"
    /\ ~IsSwe(t)
    /\ t \notin cancelled
    /\ Held("permit") < PoolPermits
    /\ holds' = [holds EXCEPT ![t] = {"permit"}]
    /\ active' = active \union {e}
    /\ job' = [job EXCEPT ![e] = "pending"]
    /\ Goto(t, "waiting")
    /\ UNCHANGED <<up, sid, cancelled, own, handles, owner, todo, cache, storeVars, gatewayVars,
                   crashes>>

\* cleanup_episode, in the exits: the reservation goes back once, the entry
\* of the active episodes goes before the session is closed.
cleanup_episode(t) ==
    /\ holds' = [holds EXCEPT ![t] = @ \ {"worker"}]
    /\ active' = active \ {EpisodeOf[t]}

\* Cancelled, past the deadline or refused before anything was created.
AcquireEnds(t) ==
    /\ up = "up"
    /\ pc[t] = "acquire"
    /\ Goto(t, "leaving")
    /\ UNCHANGED <<up, sid, holds, cancelled, own, tableVars, job, todo, cache, storeVars, gatewayVars,
                   crashes>>

\* The gateway makes a session with a new id for every request.
Fresh(e) == <<e, made[e] + 1>>
Makes(e) ==
    /\ made[e] < MaxSessions
    /\ live' = live \union {Fresh(e)}
    /\ made' = [made EXCEPT ![e] = @ + 1]

create_session_for_episode(t) ==
    LET e == EpisodeOf[t] IN
    /\ up = "up"
    /\ pc[t] = "creating"
    /\ Makes(e)
    /\ sid' = [sid EXCEPT ![t] = Fresh(e)]
    /\ Goto(t, "created")
    /\ UNCHANGED <<up, holds, cancelled, own, tableVars, job, todo, cache, storeVars, crashes>>

\* Refused, cancelled or past the deadline: the request is dropped, and the
\* gateway may have made a session whose id nobody learns.
CreateEnds(t) ==
    /\ up = "up"
    /\ pc[t] = "creating"
    /\ cleanup_episode(t)
    /\ Goto(t, "leaving")
    /\ Makes(EpisodeOf[t]) \/ UNCHANGED gatewayVars
    /\ UNCHANGED <<up, sid, cancelled, own, handles, owner, job, todo, cache, storeVars, crashes>>

\* The row comes before the guard; without a store there is only the guard.
upsert_gateway_session(t) ==
    /\ up = "up"
    /\ pc[t] = "created"
    /\ IF HasStore => storeUp
       THEN /\ grow' = IF HasStore THEN [grow EXCEPT ![sid[t]] = "active"] ELSE grow
            /\ Goto(t, "recorded")
            /\ UNCHANGED <<holds, active>>
       ELSE /\ cleanup_episode(t)
            /\ Goto(t, "closing")
            /\ UNCHANGED grow
    /\ UNCHANGED <<up, sid, cancelled, own, handles, owner, job, todo, cache, storeUp, ep, rows,
                   outbox, gatewayVars, crashes>>

\* enqueue_agent_job and the queue's enqueue.  A row that is there already
\* stays as it is.
enqueue_agent_job(t) ==
    LET e == EpisodeOf[t] IN
    /\ up = "up"
    /\ pc[t] = "recorded"
    /\ IF HasStore /\ ~storeUp
       THEN /\ cleanup_episode(t)
            /\ Goto(t, "closing")
            /\ UNCHANGED <<rows, ep, job>>
       ELSE /\ IF HasStore
               THEN /\ rows' = [rows EXCEPT ![e] = IF @ = "none" THEN "pending" ELSE @]
                    /\ ep' = [ep EXCEPT ![e] = IF @ = "terminal" THEN @ ELSE "dispatched"]
               ELSE UNCHANGED <<rows, ep>>
            /\ job' = [job EXCEPT ![e] = "pending"]
            /\ Goto(t, "waiting")
            /\ UNCHANGED <<holds, active>>
    /\ UNCHANGED <<up, sid, cancelled, own, handles, owner, todo, cache, storeUp, grow, outbox,
                   gatewayVars, crashes>>

-----------------------------------------------------------------------------
(* The job, as AgentJobQueue hands it out and completes it.  With a row,   *)
(* each step is one of the store first.                                    *)

AgentTakes(e) ==
    /\ up = "up"
    /\ job[e] = "pending"
    /\ rows[e] = "none" \/ (rows[e] = "pending" /\ storeUp)
    /\ job' = [job EXCEPT ![e] = "taken"]
    /\ rows' = [rows EXCEPT ![e] = IF @ = "pending" THEN "leased" ELSE @]
    /\ UNCHANGED <<up, taskVars, tableVars, todo, cache, storeUp, ep, grow, outbox, gatewayVars,
                   crashes>>

\* The terminal result is stored, with its event, before the task is told.
AgentCompletes(e) ==
    /\ up = "up"
    /\ job[e] = "taken"
    /\ rows[e] = "none" \/ (rows[e] = "leased" /\ storeUp)
    /\ job' = [job EXCEPT ![e] = "done"]
    /\ IF rows[e] = "leased"
       THEN /\ rows' = [rows EXCEPT ![e] = "completed"]
            /\ ep' = [ep EXCEPT ![e] = "terminal"]
            /\ outbox' = [outbox EXCEPT ![e] = IF @ = "none" THEN "waiting" ELSE @]
       ELSE UNCHANGED <<rows, ep, outbox>>
    /\ UNCHANGED <<up, taskVars, tableVars, todo, cache, storeUp, grow, gatewayVars, crashes>>

\* CancelEpisode finds the task by the handle and abandons its job.
CancelEpisode(e) ==
    /\ up = "up"
    /\ handles[e] # NoTask
    /\ handles[e] \notin cancelled
    /\ cancelled' = cancelled \union {handles[e]}
    /\ job' = [job EXCEPT ![e] = IF @ \in {"pending", "taken"} THEN "closed" ELSE @]
    /\ UNCHANGED <<up, pc, sid, holds, own, tableVars, todo, cache, storeVars, gatewayVars, crashes>>

-----------------------------------------------------------------------------
(* The ways out.                                                           *)

AfterWait(t) == IF IsSwe(t) THEN "closing" ELSE "leaving"

\* The channel of the job has its result, or was closed.
WaitDone(t) ==
    /\ up = "up"
    /\ pc[t] = "waiting"
    /\ job[EpisodeOf[t]] \in {"done", "closed"}
    /\ cleanup_episode(t)
    /\ own' = IF job[EpisodeOf[t]] = "done" THEN own \ {t} ELSE own
    /\ Goto(t, AfterWait(t))
    /\ UNCHANGED <<up, sid, cancelled, handles, owner, job, todo, cache, storeVars, gatewayVars,
                   crashes>>

\* Deadline, cancellation, or still pending when the pickup timeout passes.
WaitEnds(t) ==
    LET e == EpisodeOf[t] IN
    /\ up = "up"
    /\ pc[t] = "waiting"
    /\ cleanup_episode(t)
    /\ job' = [job EXCEPT ![e] = "none"]
    /\ Goto(t, IF HasStore /\ IsSwe(t) THEN "abandoned" ELSE AfterWait(t))
    /\ UNCHANGED <<up, sid, cancelled, own, handles, owner, todo, cache, storeVars, gatewayVars, crashes>>

GaveUp(phase) == IF phase \in {"pending", "leased"} THEN "timed_out" ELSE phase
mark_agent_job_terminal(t) ==
    LET e == EpisodeOf[t] IN
    /\ up = "up"
    /\ pc[t] = "abandoned"
    /\ rows' = IF storeUp THEN [rows EXCEPT ![e] = GaveUp(@)] ELSE rows
    /\ Goto(t, "closing")
    /\ UNCHANGED <<up, sid, holds, cancelled, own, tableVars, job, todo, cache, storeUp, ep, grow, outbox,
                   gatewayVars, crashes>>

\* destroy_session: refused, or done.  An answer lost on the way is an error
\* although the session is gone.
Destroys(s, ok) ==
    \/ ok /\ live' = live \ {s}
    \/ MayFail /\ ~ok /\ live' \in {live, live \ {s}}

DestroyedAnywayMutant(g, ok) == IF g = "none" THEN g ELSE "destroyed"

\* mark_gateway_destroyed: what the row says after a destroy.
Marked(g, ok) == IF g = "none" THEN g ELSE IF ok THEN "destroyed" ELSE "cleanup_pending"

\* close_now of the session guard.
close_now(t) ==
    /\ up = "up"
    /\ pc[t] = "closing"
    /\ \E ok \in BOOLEAN : Destroys(sid[t], ok) /\ Goto(t, IF ok THEN "destroyed" ELSE "kept")
    /\ UNCHANGED <<up, sid, holds, cancelled, own, tableVars, job, todo, cache, storeVars, made, crashes>>

CloseMarks(t) ==
    /\ up = "up"
    /\ pc[t] \in {"destroyed", "kept"}
    /\ grow' = IF storeUp THEN [grow EXCEPT ![sid[t]] = Marked(@, pc[t] = "destroyed")] ELSE grow
    /\ sid' = [sid EXCEPT ![t] = NoSession]
    /\ Goto(t, "leaving")
    /\ UNCHANGED <<up, holds, cancelled, own, tableVars, job, todo, cache, storeUp, ep, rows, outbox,
                   gatewayVars, crashes>>

\* The guards of the task go: the permit, and the entry and the handle that
\* are in the tables under the episode's id, whoever put them there.
Leave(t) ==
    LET e == EpisodeOf[t] IN
    /\ up = "up"
    /\ pc[t] = "leaving"
    /\ holds' = [holds EXCEPT ![t] = {}]
    /\ active' = active \ {e}
    /\ handles' = [handles EXCEPT ![e] = NoTask]
    /\ Goto(t, "returned")
    /\ UNCHANGED <<up, sid, cancelled, own, owner, job, todo, cache, storeVars, gatewayVars, crashes>>

\* submit_episode_async keeps the result for get_result; with TTL and maximum
\* the cache forgets it at any time.
store_completed_async(e) == cache' \in {cache, cache \union {e}}
sweep_completed_async(e) ==
    /\ EpisodesExpire
    /\ up = "up"
    /\ e \in cache
    /\ cache' = cache \ {e}
    /\ UNCHANGED <<up, taskVars, tableVars, job, todo, storeVars, gatewayVars, crashes>>

\* The coordinator's task commits what it was returned and lets the others
\* go.  An episode that is gone, or has another result by now, is a failed
\* command.
commit_terminal(t) ==
    LET e == EpisodeOf[t]
        fails == ep[e] = "none" \/ (ep[e] = "terminal" /\ t \in own)
    IN  /\ up = "up"
        /\ pc[t] = "returned"
        /\ IF HasStore
           THEN /\ storeUp' = (storeUp /\ ~fails)
                /\ owner' = [owner EXCEPT ![e] = NoTask]
                /\ IF storeUp /\ ~fails
                   THEN /\ ep' = [ep EXCEPT ![e] = "terminal"]
                        /\ outbox' = [outbox EXCEPT ![e] = IF @ = "none" THEN "waiting" ELSE @]
                   ELSE UNCHANGED <<ep, outbox>>
           ELSE UNCHANGED <<storeUp, ep, outbox, owner>>
        /\ store_completed_async(e)
        /\ Goto(t, "over")
        /\ UNCHANGED <<up, sid, holds, cancelled, own, active, handles, job, todo, rows, grow,
                       gatewayVars, crashes>>

-----------------------------------------------------------------------------
(* Clean-up and recovery.                                                  *)

\* load_gateway_cleanup.
NeedsCleanup(s) ==
    \/ grow[s] = "cleanup_pending"
    \/ grow[s] = "active" /\ ep[Of(s)] = "terminal"

SweepReads ==
    /\ up = "up"
    /\ HasStore /\ storeUp
    /\ todo = {}
    /\ todo' = {s \in Sessions : NeedsCleanup(s)}
    /\ todo' # {}
    /\ UNCHANGED <<up, taskVars, tableVars, job, cache, storeVars, gatewayVars, crashes>>

SweepOne ==
    /\ up = "up"
    /\ \E s \in todo, ok \in BOOLEAN :
        /\ Destroys(s, ok)
        /\ grow' = IF storeUp THEN [grow EXCEPT ![s] = Marked(@, ok)] ELSE grow
        /\ todo' = IF storeUp THEN todo \ {s} ELSE {}
    /\ UNCHANGED <<up, taskVars, tableVars, job, cache, storeUp, ep, rows, outbox, made, crashes>>

\* replay_outbox, one event.
replay_outbox(e) ==
    /\ up = "up"
    /\ storeUp
    /\ outbox[e] = "waiting"
    /\ outbox' = [outbox EXCEPT ![e] = "delivered"]
    /\ cache' = cache \union {e}
    /\ UNCHANGED <<up, taskVars, tableVars, job, todo, storeUp, ep, rows, grow, gatewayVars, crashes>>

\* The sweep of the store: the rows of an episode go with it.
Expire(e) ==
    /\ EpisodesExpire
    /\ up = "up"
    /\ storeUp
    /\ ep[e] = "terminal"
    /\ ep' = [ep EXCEPT ![e] = "none"]
    /\ rows' = [rows EXCEPT ![e] = "none"]
    /\ grow' = [s \in Sessions |-> IF Of(s) = e THEN "none" ELSE grow[s]]
    /\ outbox' = [outbox EXCEPT ![e] = IF @ = "delivered" THEN "none" ELSE @]
    /\ UNCHANGED <<up, taskVars, tableVars, job, todo, cache, storeUp, gatewayVars, crashes>>

\* A command fails and the store refuses all later ones.
StoreFails ==
    /\ MayFail /\ HasStore
    /\ up = "up"
    /\ storeUp
    /\ storeUp' = FALSE
    /\ UNCHANGED <<up, taskVars, tableVars, job, todo, cache, ep, rows, grow, outbox, gatewayVars, crashes>>

Crash ==
    /\ HasStore
    /\ up = "up"
    /\ crashes < MaxCrashes
    /\ crashes' = crashes + 1
    /\ up' = "down"
    /\ pc' = [t \in Tasks |-> IF pc[t] = "new" THEN "new" ELSE "over"]
    /\ sid' = [t \in Tasks |-> NoSession]
    /\ holds' = [t \in Tasks |-> {}]
    /\ cancelled' = {}
    /\ own' = {}
    /\ active' = {}
    /\ handles' = [e \in AgentEpisodes |-> NoTask]
    /\ owner' = [e \in AgentEpisodes |-> NoTask]
    /\ job' = [e \in AgentEpisodes |-> "none"]
    /\ todo' = {}
    /\ cache' = {}
    /\ storeUp' = TRUE
    /\ UNCHANGED <<ep, rows, grow, outbox, gatewayVars>>

\* load_agent_recovery joins the job with the open sessions of its episode:
\* one record per session, or one without.
OpenSessions(e) == {s \in SessionsOf(e) : grow[s] \in {"active", "cleanup_pending"}}
OpenJob(e) == rows[e] \in {"pending", "leased"}
Resubmits(e) == ep[e] = "queued"
TaskFor(e) == CHOOSE t \in Tasks : EpisodeOf[t] = e

\* A second record of a job finds the coordinator's entry of the first, and
\* recovery ends with an error.
Recover ==
    /\ up = "down"
    /\ IF \E e \in AgentEpisodes : OpenJob(e) /\ Cardinality(OpenSessions(e)) > 1
       THEN /\ up' = "refused"
            /\ UNCHANGED <<pc, sid, tableVars, job>>
       ELSE /\ up' = "up"
            /\ pc' = [t \in Tasks |->
                        IF t # TaskFor(EpisodeOf[t]) THEN pc[t]
                        ELSE IF OpenJob(EpisodeOf[t]) THEN "recovered"
                        ELSE IF Resubmits(EpisodeOf[t]) THEN "acquire" ELSE pc[t]]
            /\ sid' = [t \in Tasks |->
                        IF t = TaskFor(EpisodeOf[t]) /\ OpenJob(EpisodeOf[t])
                             /\ OpenSessions(EpisodeOf[t]) # {}
                        THEN CHOOSE s \in OpenSessions(EpisodeOf[t]) : TRUE ELSE sid[t]]
            /\ job' = [e \in AgentEpisodes |-> CASE rows[e] = "pending" -> "pending"
                                            [] rows[e] = "leased" -> "taken"
                                            [] OTHER -> "none"]
            /\ active' = {e \in AgentEpisodes : Resubmits(e)}
            /\ handles' = [e \in AgentEpisodes |-> IF Resubmits(e) THEN TaskFor(e) ELSE NoTask]
            /\ owner' = [e \in AgentEpisodes |-> IF Resubmits(e) \/ OpenJob(e) THEN TaskFor(e) ELSE NoTask]
    /\ own' = Tasks
    /\ UNCHANGED <<holds, cancelled, todo, cache, storeVars, gatewayVars, crashes>>

\* The task of a recovered job: its completion, or its deadline, which is
\* stored before the session is destroyed.
RecoveredDone(t) ==
    /\ up = "up"
    /\ pc[t] = "recovered"
    /\ job[EpisodeOf[t]] = "done"
    /\ Goto(t, "recovered_close")
    /\ UNCHANGED <<up, sid, holds, cancelled, own, tableVars, job, todo, cache, storeVars, gatewayVars,
                   crashes>>

RecoveredTimesOut(t) ==
    LET e == EpisodeOf[t] IN
    /\ up = "up"
    /\ pc[t] = "recovered"
    /\ job' = [job EXCEPT ![e] = "none"]
    /\ rows' = IF storeUp THEN [rows EXCEPT ![e] = GaveUp(@)] ELSE rows
    /\ Goto(t, IF storeUp THEN "recovered_ends" ELSE "recovered_close")
    /\ UNCHANGED <<up, sid, holds, cancelled, own, tableVars, todo, cache, storeUp, ep, grow, outbox,
                   gatewayVars, crashes>>

RecoveredCommits(t) ==
    LET e == EpisodeOf[t]
        fails == ep[e] # "dispatched"
    IN  /\ up = "up"
        /\ pc[t] = "recovered_ends"
        /\ storeUp' = (storeUp /\ ~fails)
        /\ IF storeUp /\ ~fails
           THEN /\ ep' = [ep EXCEPT ![e] = "terminal"]
                /\ outbox' = [outbox EXCEPT ![e] = IF @ = "none" THEN "waiting" ELSE @]
           ELSE UNCHANGED <<ep, outbox>>
        /\ Goto(t, "recovered_close")
        /\ UNCHANGED <<up, sid, holds, cancelled, own, tableVars, job, todo, cache, rows, grow,
                       gatewayVars, crashes>>

RecoveredCloses(t) ==
    LET e == EpisodeOf[t] IN
    /\ up = "up"
    /\ pc[t] = "recovered_close"
    /\ IF sid[t] = NoSession
       THEN UNCHANGED <<live, grow>>
       ELSE \E ok \in BOOLEAN :
                /\ Destroys(sid[t], ok)
                /\ grow' = IF storeUp THEN [grow EXCEPT ![sid[t]] = Marked(@, ok)] ELSE grow
    /\ owner' = [owner EXCEPT ![e] = NoTask]
    /\ sid' = [sid EXCEPT ![t] = NoSession]
    /\ Goto(t, "over")
    /\ UNCHANGED <<up, holds, cancelled, own, active, handles, job, todo, cache, storeUp, ep, rows, outbox,
                   made, crashes>>

AgentNext ==
    \/ \E t \in Tasks :
        \/ submit_episode(t) \/ submit_episode_async(t)
        \/ Acquire(t) \/ AcquireCode(t) \/ AcquireEnds(t)
        \/ create_session_for_episode(t) \/ CreateEnds(t)
        \/ upsert_gateway_session(t) \/ enqueue_agent_job(t)
        \/ WaitDone(t) \/ WaitEnds(t) \/ mark_agent_job_terminal(t)
        \/ close_now(t) \/ CloseMarks(t) \/ Leave(t) \/ commit_terminal(t)
        \/ RecoveredDone(t) \/ RecoveredTimesOut(t) \/ RecoveredCommits(t) \/ RecoveredCloses(t)
    \/ \E e \in AgentEpisodes :
        \/ AgentTakes(e) \/ AgentCompletes(e) \/ CancelEpisode(e)
        \/ replay_outbox(e) \/ Expire(e) \/ sweep_completed_async(e)
    \/ SweepReads \/ SweepOne
    \/ StoreFails \/ Crash \/ Recover

AgentSpec == AgentInit /\ [][AgentNext]_agentVars

-----------------------------------------------------------------------------
Executes(t) ==
    pc[t] \in {"acquire", "creating", "created", "recorded", "waiting", "abandoned", "closing",
               "destroyed", "kept", "leaving"}

\* CancelEpisode reaches whatever executes: the handle under an episode's id
\* is that of the task that executes it.  The guard of a task removes the
\* entry and the handle by id, and cleanup_episode frees the entry while the
\* task still closes its session, so this rests on the coordinator keeping a
\* second submission of the same id from executing until the first is over.
RunningIsKnown == \A t \in Tasks : Executes(t) => handles[EpisodeOf[t]] = t

\* A session that lives and has a row is not lost, whatever memory is lost:
\* its row or that of its episode or of its job is one that the clean-up or
\* recovery reads.  Left out is the one way the code has to lose it: an
\* episode whose job was given up and which a crash kept from being committed
\* is neither resubmitted nor cleaned up.
GivenUp(e) == ep[e] = "dispatched" /\ rows[e] = "timed_out"
SessionsAreAccounted ==
    \A s \in live : grow[s] # "none" =>
        NeedsCleanup(s) \/ (grow[s] = "active" /\ (Resubmits(Of(s)) \/ OpenJob(Of(s)))) \/ GivenUp(Of(s))

=============================================================================
