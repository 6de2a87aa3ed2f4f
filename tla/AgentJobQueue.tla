---------------------------- MODULE AgentJobQueue ----------------------------
(***************************************************************************)
(* The queue of agent jobs of uenv-server (agent_job.rs) with what shares  *)
(* its state: the agents that register, send heartbeats, poll and complete *)
(* over RPC, the task of the episode that waits for the job, the rows of   *)
(* agent_jobs and episodes in the store, CancelEpisode, and recovery after *)
(* a crash.                                                                *)
(*                                                                         *)
(* One pool and one bridge version: the choice of a pool and the match of  *)
(* bridges are in AgentPool.  A handler is split where it awaits the store *)
(* and where it lets go of a map entry it has read.  An agent has one call *)
(* under way at a time; the calls of different agents interleave freely.   *)
(* A run_id is the number of the lease generation of its job: reclaiming   *)
(* makes a new one and nothing else does.                                  *)
(***************************************************************************)
EXTENDS Queues

CONSTANTS
    Jobs,       \* one job per episode (job_id is "job-" + episode_id)
    CodeJobs,   \* those of submit_code_agent_episode; the rest are SWE jobs
    Agents,
    Capacity,   \* max_concurrent of every agent
    HasStore,   \* a persistence store is attached
    GivesUp,    \* whether deadlines pass in this instance
    Cancels,    \* whether CancelEpisode is called in this instance
    Restarts,   \* whether agent processes restart in this instance
    Disconnects,\* whether callers disconnect in the middle of a call
    Fragile,    \* agents whose heartbeats may stop
    MaxRuns,    \* bound: lease generations of a job
    MaxCrashes  \* bound: crashes of the server

NoAgent == "no agent"

ASSUME QueueConstants ==
    /\ IsFiniteSet(Jobs)
    /\ IsFiniteSet(Agents)
    /\ NoAgent \notin Agents
    /\ CodeJobs \subseteq Jobs
    /\ Fragile \subseteq Agents
    /\ Capacity \in Nat \ {0}
    /\ MaxRuns \in Nat \ {0}
    /\ MaxCrashes \in Nat
    /\ {HasStore, GivesUp, Cancels, Restarts, Disconnects} \subseteq BOOLEAN

VARIABLES
    \* memory of the server
    pending,    \* the VecDeque of the pool: entries [job, run]
    inflight,   \* in_flight: [agent, run] of each job, or NoEntry
    chan,       \* the oneshot of each job, seen by its waiter
    waiter,     \* the task of the episode
    registered, reserved, reported, age,    \* AgentRegistry
    rpc,        \* the call each agent has under way
    \* the store
    rows,       \* agent_jobs
    episode,    \* who wrote the terminal result of the episode, if any
    storeUp,    \* healthy: a failed command clears it until the restart
    \* the agents
    held,       \* leases [job, run] an agent process works on
    \* history and bounds
    acks,       \* leases [agent, run] whose completion was answered ACCEPTED
    runs,       \* run_ids made for each job so far
    crashes

queueVars == <<pending, inflight, chan>>
registryVars == <<registered, reserved, reported, age>>
storeVars == <<rows, episode, storeUp>>
jobVars == <<queueVars, waiter, registryVars, rpc, storeVars, held, acks, runs, crashes>>

NoEntry == [agent |-> NoAgent, run |-> 0]
NoRow == [phase |-> "none", agent |-> NoAgent, run |-> 0]
Idle == [pc |-> "idle", job |-> NoAgent, run |-> 0, holder |-> NoAgent, new |-> 0,
         todo |-> {}, polls |-> FALSE]
AtEnd == {"completed", "cancelled", "timed_out"}
Lease(j, r) == [job |-> j, run |-> r]
Leases == [job : Jobs, run : Nat]

\* Jobs that have a row in agent_jobs once submitted: the SWE path calls
\* enqueue_agent_job of the store, the code path does not.
Recorded(j) == HasStore /\ j \notin CodeJobs

-----------------------------------------------------------------------------
(* AgentRegistry, as the queue uses it.                                    *)

EffectiveLoad(a) == IF reserved[a] > reported[a] THEN reserved[a] ELSE reported[a]

can_agent_run(a) ==
    /\ a \in registered
    /\ age[a] = "fresh"
    /\ EffectiveLoad(a) < Capacity

StaleUnknownOnlyMutant(a) == a \notin registered

\* An agent the registry does not know counts as lost.
is_agent_stale_for_reclaim(a) == a \notin registered \/ age[a] = "lost"

increment_load(a) == reserved' = [reserved EXCEPT ![a] = @ + 1]
\* saturating_sub; an unknown agent is left alone.
decrement_load(a) ==
    reserved' = IF a \in registered /\ reserved[a] > 0
                THEN [reserved EXCEPT ![a] = @ - 1]
                ELSE reserved

-----------------------------------------------------------------------------
(* The episode's side: enqueue, wait, give up.                             *)

\* The row is written before the job is queued (submit_swe_agent_episode).
PersistJob(j) ==
    /\ waiter[j] = "new"
    /\ Recorded(j) => storeUp
    /\ rows' = IF Recorded(j) /\ rows[j].phase = "none"
               THEN [rows EXCEPT ![j] = [phase |-> "pending", agent |-> NoAgent, run |-> 1]]
               ELSE rows
    /\ waiter' = [waiter EXCEPT ![j] = "persisted"]
    /\ UNCHANGED <<queueVars, registryVars, rpc, episode, storeUp, held, acks, runs, crashes>>

enqueue(j) ==
    /\ waiter[j] = "persisted"
    /\ inflight' = [inflight EXCEPT ![j] = [agent |-> NoAgent, run |-> 1]]
    /\ pending' = Append(pending, Lease(j, 1))
    /\ chan' = [chan EXCEPT ![j] = "empty"]
    /\ waiter' = [waiter EXCEPT ![j] = "waiting"]
    /\ UNCHANGED <<registryVars, rpc, storeVars, held, acks, runs, crashes>>

abandon(j) ==
    /\ inflight' = [inflight EXCEPT ![j] = NoEntry]
    /\ chan' = [chan EXCEPT ![j] = IF inflight[j] # NoEntry THEN "closed" ELSE @]
    /\ decrement_load(inflight[j].agent)
    /\ pending' = Keep(pending, {e \in Leases : e.job # j})

Waits(j) == waiter[j] \in {"waiting", "recovered"}
\* deadline, pickup timeout or cancellation seen by the select of the task:
\* the abandoned job is marked in the store by a step of its own.
GiveUp(j) ==
    /\ GivesUp \/ (Cancels /\ chan[j] = "closed")
    /\ Waits(j)
    /\ abandon(j)
    /\ waiter' = [waiter EXCEPT ![j] = IF Recorded(j) THEN "abandoned" ELSE "ending"]
    /\ UNCHANGED <<registered, reported, age, rpc, storeVars, held, acks, runs, crashes>>

mark_agent_job_terminal(j) ==
    /\ waiter[j] = "abandoned"
    /\ rows' = IF storeUp /\ rows[j].phase \notin AtEnd
               THEN [rows EXCEPT ![j].phase = "timed_out"] ELSE rows
    /\ waiter' = [waiter EXCEPT ![j] = "ending"]
    /\ UNCHANGED <<queueVars, registryVars, rpc, episode, storeUp, held, acks, runs, crashes>>

\* The other end of the select: the sender was used or dropped.  A dropped
\* one is an error that does not mark the row.
TakeCompletion(j) ==
    /\ Waits(j)
    /\ chan[j] \in {"sent", "closed"}
    /\ waiter' = [waiter EXCEPT ![j] = IF chan[j] = "sent" THEN "done" ELSE "ending"]
    /\ UNCHANGED <<queueVars, registryVars, rpc, storeVars, held, acks, runs, crashes>>

\* The owner task commits the result it built itself.  A different terminal
\* result in the row is a failed command.
CommitLocal(j) ==
    /\ waiter[j] = "ending"
    /\ waiter' = [waiter EXCEPT ![j] = "done"]
    /\ storeUp' = (storeUp /\ (HasStore => episode[j] # "agent"))
    /\ episode' = IF HasStore /\ storeUp /\ episode[j] = "none"
                  THEN [episode EXCEPT ![j] = "server"] ELSE episode
    /\ UNCHANGED <<queueVars, registryVars, rpc, rows, held, acks, runs, crashes>>

\* CancelEpisode abandons the job itself; recovered tasks have no handle.
CancelEpisode(j) ==
    /\ Cancels
    /\ waiter[j] = "waiting"
    /\ abandon(j)
    /\ UNCHANGED <<waiter, registered, reported, age, rpc, storeVars, held, acks, runs, crashes>>

-----------------------------------------------------------------------------
(* The agents' side.  reclaim_stale_jobs runs first in a heartbeat and in  *)
(* a poll; its candidates are read at once and handled one by one.         *)

register_agent(a) ==
    /\ rpc[a] = Idle
    /\ a \notin registered \/ Restarts
    /\ registered' = registered \union {a}
    /\ reserved' = [reserved EXCEPT ![a] = 0]
    /\ reported' = [reported EXCEPT ![a] = 0]
    /\ age' = [age EXCEPT ![a] = "fresh"]
    /\ held' = IF Restarts /\ a \in registered THEN [held EXCEPT ![a] = {}] ELSE held
    /\ UNCHANGED <<queueVars, waiter, rpc, storeVars, acks, runs, crashes>>

\* Time passes without a heartbeat: heartbeat_timeout, then the grace.  An
\* agent is lost only while the bound leaves a generation for its jobs.
Ages(a) ==
    /\ a \in registered \intersect Fragile
    /\ age[a] # "lost"
    /\ age[a] = "stale" => \A j \in Jobs : runs[j] < MaxRuns
    /\ age' = [age EXCEPT ![a] = IF @ = "fresh" THEN "stale" ELSE "lost"]
    /\ UNCHANGED <<queueVars, waiter, registered, reserved, reported, rpc, storeVars,
                   held, acks, runs, crashes>>

Candidates ==
    {[job |-> j, holder |-> inflight[j].agent, run |-> inflight[j].run] : j \in {k \in Jobs :
        /\ inflight[k].agent # NoAgent
        /\ is_agent_stale_for_reclaim(inflight[k].agent)}}

agent_heartbeat(a) ==
    /\ rpc[a] = Idle
    /\ age' = IF a \in registered THEN [age EXCEPT ![a] = "fresh"] ELSE age
    /\ reported' = IF a \in registered
                   THEN [reported EXCEPT ![a] = Cardinality(held[a])] ELSE reported
    /\ rpc' = [rpc EXCEPT ![a] = [Idle EXCEPT !.pc = "heartbeat"]]
    /\ UNCHANGED <<queueVars, waiter, registered, reserved, storeVars, held, acks, runs, crashes>>

StartReclaim(a, polls) ==
    /\ rpc' = [rpc EXCEPT ![a] = [Idle EXCEPT !.pc = "reclaim", !.todo = Candidates,
                                              !.polls = polls]]
    /\ UNCHANGED <<queueVars, waiter, registryVars, storeVars, held, acks, runs, crashes>>

HeartbeatReclaims(a) == rpc[a].pc = "heartbeat" /\ StartReclaim(a, FALSE)
poll_agent_job(a) == rpc[a] = Idle /\ StartReclaim(a, TRUE)

RequeuesCompletedMutant(c) ==
    HasStore => /\ storeUp
                /\ rows[c.job].phase \in {"leased", "completed"}
                /\ rows[c.job].agent = c.holder

RequeuesAnyLeaseMutant(c) == HasStore => storeUp /\ rows[c.job].phase = "leased"

\* requeue_agent_job: compare and swap of the row of candidate c.
Requeues(c) ==
    HasStore => /\ storeUp
                /\ rows[c.job] = [phase |-> "leased", agent |-> c.holder, run |-> c.run]

Requeue(a, c) ==
    /\ runs' = [runs EXCEPT ![c.job] = @ + 1]
    /\ rows' = IF HasStore
               THEN [rows EXCEPT ![c.job] = [phase |-> "pending", agent |-> NoAgent,
                                             run |-> runs[c.job] + 1]]
               ELSE rows
    /\ rpc' = [rpc EXCEPT ![a] = [rpc[a] EXCEPT !.pc = "requeued", !.todo = @ \ {c},
                                     !.job = c.job, !.run = c.run, !.holder = c.holder,
                                     !.new = runs[c.job] + 1]]

ReclaimCas(a) ==
    /\ rpc[a].pc = "reclaim"
    /\ \E c \in rpc[a].todo :
        IF Requeues(c) /\ runs[c.job] < MaxRuns
        THEN Requeue(a, c)
        ELSE /\ rpc' = [rpc EXCEPT ![a] = [rpc[a] EXCEPT !.todo = @ \ {c}]]
             /\ UNCHANGED <<runs, rows>>
    /\ UNCHANGED <<queueVars, waiter, registryVars, episode, storeUp, held, acks, crashes>>

\* The in-memory half: only if the entry is still the lease that was read.
StillHeld(a) == inflight[rpc[a].job] = [agent |-> rpc[a].holder, run |-> rpc[a].run]

ReclaimReplace(a) ==
    LET j == rpc[a].job IN
    /\ rpc[a].pc = "requeued"
    /\ rpc' = [rpc EXCEPT ![a] = [Idle EXCEPT !.pc = "reclaim", !.todo = rpc[a].todo,
                                              !.polls = rpc[a].polls]]
    /\ IF StillHeld(a)
       THEN /\ inflight' = [inflight EXCEPT ![j] = [agent |-> NoAgent, run |-> rpc[a].new]]
            /\ pending' = Append(pending, Lease(j, rpc[a].new))
            /\ decrement_load(rpc[a].holder)
       ELSE UNCHANGED <<inflight, pending, reserved>>
    /\ UNCHANGED <<chan, waiter, registered, reported, age, storeVars, held, acks, runs, crashes>>

ReclaimDone(a) ==
    /\ rpc[a].pc = "reclaim"
    /\ rpc[a].todo = {}
    /\ ~rpc[a].polls
    /\ rpc' = [rpc EXCEPT ![a] = Idle]
    /\ UNCHANGED <<queueVars, waiter, registryVars, storeVars, held, acks, runs, crashes>>

\* poll_agent_job: the first job the agent can run leaves the queue and a
\* slot of the agent is taken, under the lock of the queue.
PollPop(a) ==
    /\ rpc[a].pc = "reclaim"
    /\ rpc[a].todo = {}
    /\ rpc[a].polls
    /\ IF can_agent_run(a) /\ pending # <<>>
       THEN /\ pending' = Tail(pending)
            /\ increment_load(a)
            /\ rpc' = [rpc EXCEPT ![a] = [Idle EXCEPT !.pc = "popped", !.job = Head(pending).job,
                                                      !.run = Head(pending).run]]
       ELSE /\ rpc' = [rpc EXCEPT ![a] = Idle]
            /\ UNCHANGED <<pending, reserved>>
    /\ UNCHANGED <<inflight, chan, waiter, registered, reported, age, storeVars, held, acks,
                   runs, crashes>>

\* lease_agent_job; refused or failed, the job goes back to the front.
PollLease(a) ==
    LET j == rpc[a].job
        granted == HasStore => /\ storeUp
                               /\ rows[j].phase = "pending"
                               /\ rows[j].run = rpc[a].run
    IN  /\ rpc[a].pc = "popped"
        /\ IF granted
           THEN /\ rows' = IF HasStore THEN [rows EXCEPT ![j].phase = "leased", ![j].agent = a]
                           ELSE rows
                /\ rpc' = [rpc EXCEPT ![a].pc = "granted"]
                /\ UNCHANGED <<pending, reserved>>
           ELSE /\ pending' = <<Lease(j, rpc[a].run)>> \o pending
                /\ decrement_load(a)
                /\ rpc' = [rpc EXCEPT ![a] = Idle]
                /\ UNCHANGED rows
        /\ UNCHANGED <<inflight, chan, waiter, registered, reported, age, episode, storeUp, held,
                       acks, runs, crashes>>

\* The entry gets its agent, unless the job was abandoned meanwhile.
PollHandOut(a) ==
    LET j == rpc[a].job
    IN  /\ rpc[a].pc = "granted"
        /\ rpc' = [rpc EXCEPT ![a] = Idle]
        /\ IF inflight[j] # NoEntry
           THEN /\ inflight' = [inflight EXCEPT ![j].agent = a]
                /\ held' = [held EXCEPT ![a] = @ \union {Lease(j, rpc[a].run)}]
                /\ UNCHANGED reserved
           ELSE /\ decrement_load(a)
                /\ UNCHANGED <<inflight, held>>
        /\ UNCHANGED <<pending, chan, waiter, registered, reported, age, storeVars, acks, runs,
                       crashes>>

\* complete_agent_job, up to its first await.  The agent goes on reporting
\* a lease until it has had an answer.
CompleteCheck(a) ==
    /\ rpc[a] = Idle
    /\ \E l \in held[a] :
        LET e == inflight[l.job] IN
        rpc' = [rpc EXCEPT ![a] =
            [Idle EXCEPT !.job = l.job, !.run = l.run,
                !.pc = CASE e = NoEntry /\ HasStore -> "unknown"
                         [] e = [agent |-> a, run |-> l.run] -> "checked"
                         [] OTHER -> "refused"]]
    /\ UNCHANGED <<queueVars, waiter, registryVars, storeVars, held, acks, runs, crashes>>

\* commit_agent_completion of the store for the lease (j, a, r):
\*   missing   no row           conflict  another lease, or not leased
\*   replay    already completed by this lease
\*   commit    still leased to it
CommitDecision(j, a, r) ==
    CASE rows[j].phase = "none" -> "missing"
      [] rows[j] = [phase |-> "completed", agent |-> a, run |-> r] -> "replay"
      [] rows[j] = [phase |-> "leased", agent |-> a, run |-> r] -> "commit"
      [] OTHER -> "conflict"

\* No entry in memory: only a recorded completion is recognised.  The call
\* passes an empty result, so a row still leased to the caller makes the
\* command fail: it names no episode.
CompleteUnknown(a) ==
    LET d == CommitDecision(rpc[a].job, a, rpc[a].run)
    IN  /\ rpc[a].pc = "unknown"
        /\ storeUp' = (storeUp /\ d # "commit")
        /\ rpc' = [rpc EXCEPT ![a].pc = IF storeUp /\ d # "commit" THEN "refused" ELSE "error"]
        /\ UNCHANGED <<queueVars, waiter, registryVars, rows, episode, held, acks, runs, crashes>>

\* The terminal result of the episode and the row in one transaction.
CompleteCommit(a) ==
    LET j == rpc[a].job
        d == CommitDecision(j, a, rpc[a].run)
        clash == d = "commit" /\ episode[j] = "server"
        ok == HasStore => storeUp /\ ~clash
    IN  /\ rpc[a].pc = "checked"
        /\ storeUp' = (storeUp /\ (HasStore => ~clash))
        /\ IF HasStore /\ ok /\ d = "commit"
           THEN /\ rows' = [rows EXCEPT ![j].phase = "completed", ![j].agent = a, ![j].run = rpc[a].run]
                /\ episode' = [episode EXCEPT ![j] = "agent"]
           ELSE UNCHANGED <<rows, episode>>
        /\ rpc' = [rpc EXCEPT ![a].pc =
                     IF ~ok THEN "error"
                     ELSE IF HasStore /\ d \in {"missing", "conflict"} THEN "refused"
                     ELSE "recorded"]
        /\ UNCHANGED <<queueVars, waiter, registryVars, held, acks, runs, crashes>>

\* in_flight.remove: whoever's entry it is by now.
CompleteDeliver(a) ==
    LET j == rpc[a].job
        e == inflight[j]
    IN  /\ rpc[a].pc = "recorded"
        /\ rpc' = [rpc EXCEPT ![a].pc = "refused"]
        /\ inflight' = [inflight EXCEPT ![j] = NoEntry]
        /\ chan' = [chan EXCEPT ![j] = IF e # NoEntry THEN "sent" ELSE @]
        /\ decrement_load(e.agent)
        /\ acks' = IF e # NoEntry
                   THEN [acks EXCEPT ![j] = @ \union {[agent |-> a, run |-> rpc[a].run]}]
                   ELSE acks
        /\ UNCHANGED <<pending, waiter, registered, reported, age, storeVars, held, runs, crashes>>

\* Any answer but an error ends the report; a lost answer ends nothing.
CompleteAnswer(a) ==
    /\ rpc[a].pc = "refused"
    /\ rpc' = [rpc EXCEPT ![a] = Idle]
    /\ held' = [held EXCEPT ![a] = @ \ {Lease(rpc[a].job, rpc[a].run)}]
    /\ UNCHANGED <<queueVars, waiter, registryVars, storeVars, acks, runs, crashes>>

CompleteFails(a) ==
    /\ rpc[a].pc \in {"refused", "error"}
    /\ rpc' = [rpc EXCEPT ![a] = Idle]
    /\ UNCHANGED <<queueVars, waiter, registryVars, storeVars, held, acks, runs, crashes>>

\* The caller disconnects and the handler is dropped where it awaits the
\* store; what the store was asked to do is done all the same.
Disconnect(a) ==
    /\ Disconnects
    /\ rpc[a].pc \in {"reclaim", "requeued", "popped", "granted", "unknown", "checked", "recorded"}
    /\ rpc' = [rpc EXCEPT ![a] = Idle]
    /\ UNCHANGED <<queueVars, waiter, registryVars, storeVars, held, acks, runs, crashes>>

-----------------------------------------------------------------------------
(* Crash and recovery.  restore_persisted rebuilds the queue from the rows *)
(* that are pending or leased; the agents have to register again.          *)
Restored(j) == rows[j].phase \in {"pending", "leased"}

RestoredQueueNoneMutant == {}

RestoredQueue == {Lease(j, rows[j].run) : j \in {k \in Jobs : rows[k].phase = "pending"}}

AfterRestart(j) ==
    IF Restored(j) THEN "recovered"
    ELSE IF waiter[j] \in {"new", "done"} \/ episode[j] # "none" THEN waiter[j]
    ELSE IF Recorded(j) /\ rows[j].phase # "none" THEN "lost"
    ELSE "new"

CrashAndRecover ==
    /\ HasStore
    /\ crashes < MaxCrashes
    /\ crashes' = crashes + 1
    /\ inflight' = [j \in Jobs |-> IF Restored(j)
                                   THEN [agent |-> rows[j].agent, run |-> rows[j].run]
                                   ELSE NoEntry]
    /\ pending' \in SetToSeqs(RestoredQueue)
    /\ chan' = [j \in Jobs |-> "empty"]
    /\ waiter' = [j \in Jobs |-> AfterRestart(j)]
    /\ registered' = {}
    /\ reserved' = [a \in Agents |-> 0]
    /\ reported' = [a \in Agents |-> 0]
    /\ age' = [a \in Agents |-> "fresh"]
    /\ rpc' = [a \in Agents |-> Idle]
    /\ storeUp' = TRUE
    /\ UNCHANGED <<rows, episode, held, acks, runs>>

-----------------------------------------------------------------------------
Init ==
    /\ pending = <<>>
    /\ inflight = [j \in Jobs |-> NoEntry]
    /\ chan = [j \in Jobs |-> "empty"]
    /\ waiter = [j \in Jobs |-> "new"]
    /\ registered = {}
    /\ reserved = [a \in Agents |-> 0]
    /\ reported = [a \in Agents |-> 0]
    /\ age = [a \in Agents |-> "fresh"]
    /\ rpc = [a \in Agents |-> Idle]
    /\ rows = [j \in Jobs |-> NoRow]
    /\ episode = [j \in Jobs |-> "none"]
    /\ storeUp = TRUE
    /\ held = [a \in Agents |-> {}]
    /\ acks = [j \in Jobs |-> {}]
    /\ runs = [j \in Jobs |-> 1]
    /\ crashes = 0

Poll(a) == PollPop(a) \/ PollLease(a) \/ PollHandOut(a)
Reclaim(a) == HeartbeatReclaims(a) \/ ReclaimCas(a) \/ ReclaimReplace(a) \/ ReclaimDone(a)
Complete(a) ==
    \/ CompleteCheck(a) \/ CompleteUnknown(a) \/ CompleteCommit(a)
    \/ CompleteDeliver(a) \/ CompleteAnswer(a) \/ CompleteFails(a)
EpisodeTask(j) ==
    \/ PersistJob(j) \/ enqueue(j) \/ GiveUp(j) \/ mark_agent_job_terminal(j)
    \/ TakeCompletion(j) \/ CommitLocal(j)

Next ==
    \/ \E j \in Jobs : EpisodeTask(j) \/ CancelEpisode(j)
    \/ \E a \in Agents :
        \/ register_agent(a) \/ Ages(a) \/ agent_heartbeat(a) \/ poll_agent_job(a)
        \/ Reclaim(a) \/ Poll(a) \/ Complete(a) \/ Disconnect(a)
    \/ CrashAndRecover

Spec == Init /\ [][Next]_jobVars

-----------------------------------------------------------------------------
(* Properties.                                                             *)

\* At most one completion of a job is ever answered ACCEPTED, whatever was
\* reclaimed, delayed or restarted in between: a job that a second agent took
\* over is not also accepted from the first (complete_agent_job).
AcceptedOnce == \A j \in Jobs : Cardinality(acks[j]) <= 1

\* ACCEPTED is only answered for the completion that is in the store: the row
\* is completed by that agent under that run, and the episode has the agent's
\* result.
AcceptedIsRecorded ==
    \A j \in Jobs : \A l \in acks[j] :
        HasStore => /\ rows[j] = [phase |-> "completed", agent |-> l.agent, run |-> l.run]
                    /\ episode[j] = "agent"

\* A job nobody holds is somewhere: an entry of in_flight without an agent is
\* in the queue, under its current run and once, or in the hands of one poll.
\* reclaim_stale_jobs, poll_agent_job and recovery never drop a waiting job
\* between the two maps.
InHands(j) == {a \in Agents : rpc[a].pc \in {"popped", "granted"} /\ rpc[a].job = j
                              /\ rpc[a].run = inflight[j].run}
Queued(j) == {i \in DOMAIN pending : pending[i] = Lease(j, inflight[j].run)}
UnheldIsReachable ==
    \A j \in Jobs : (inflight[j] # NoEntry /\ inflight[j].agent = NoAgent) =>
        Cardinality(InHands(j)) + Cardinality(Queued(j)) = 1

\* Memory and store agree on the holder: an entry with an agent has a row that
\* is leased to that agent under that run, has been finished, or is being
\* requeued by a reclaim that has not come to the entry yet.
LeaseAgrees ==
    \A j \in Jobs : (Recorded(j) /\ inflight[j].agent # NoAgent) =>
        \/ rows[j] = [phase |-> "leased", agent |-> inflight[j].agent, run |-> inflight[j].run]
        \/ rows[j].phase \in AtEnd
        \/ \E a \in Agents : rpc[a].pc = "requeued" /\ rpc[a].job = j
                             /\ rpc[a].run = inflight[j].run

\* No episode waits for its job for ever: while nobody gives a job up, every
\* job that is queued is completed by some agent.
JobsComplete == \A j \in Jobs : []<>(waiter[j] # "waiting")

=============================================================================
