# TLA+ development for uenv

This directory holds TLA+ modules that model **uenv**: the server, the worker, the
Hub and the bridge's adapter core; the
TLC configurations that check them on small instances, and TLAPS proofs of the
properties that matter most for every value of the constants. `PROJECT.json`
lists components, runs, mutants, the map from definitions to source lines,
findings, hazards and theorems.

Run a model with `tlc -config MCScheduler_registry.cfg MCScheduler`, a proof with
`tlapm SchedulerProofs.tla`.

## 1. The system

uenv runs *episodes*: a training framework submits a request ("run this
environment with this agent or policy"), the server finds a worker that offers
the environment, dispatches the episode and returns one result.

| part | state it keeps | operations | hard behaviour |
|---|---|---|---|
| Worker registry and scheduler (`uenv-server/src/scheduler/mod.rs`) | list of `WorkerInfo` (capacity, reserved, reported load, draining, time stamps, env types, packages), round-robin counter | `register_worker`, `update_worker_load`, `reserve`, `release`, `set_worker_draining`, `unregister_worker`, `mark_environment_prepared` | registrations, drains and releases in any order on one id; stale load reports |
| Control plane (`control_plane.rs`) | none of its own; changes registry, admission, `pending_results`, store | RegisterWorker, Heartbeat, ReportResult | superseding in two locks; ReportResult awaits the store between taking a pending entry and using it; handlers dropped at an await |
| Episode service, native path (`service/episode.rs`) | the owner task of each episode | `submit_episode`, `execute_episode_inner`, `submit_native_worker_episode` | a select over deadline, cancellation, result and dispatch stream; retries under new leases |
| Episode coordinator (`episode_coordinator.rs`) | map `episode_id` -> entry with a watch channel | `get_or_insert`, `finish`, `wait`, `remove_if_same` | one owner, many waiters without a time-out of their own |
| Server state (`state.rs`) | `pending_results`, `episodes`, TTL caches, readiness | insert, remove, mark unhealthy | shared by all handlers |
| Persistence store (`persistence/`) | SQLite: episodes, dispatches, report_idempotency, agent jobs, gateway sessions, outbox; health of the single writer | `find_or_create_episode`, `put_dispatch_intent`, `commit_terminal`, `commit_report_result`, ... | commit conflicts; failing closed |
| Recovery (`persistence/recovery.rs`) | - | rebuilds queued episodes, native waits, agent jobs, outbox | a crash between any two steps of the above |
| Admin service (`service/admin.rs`) | - | `cancel_episode`, `drain_worker`, views | acts on tasks that are in the middle of something; grace-period timers |
| Admission control (`admission.rs`) | semaphore permits, dynamic capacity | acquire, follow registrations and drains | capacity follows the registry by deltas |
| Agent job queue, agent pool (`agent_job.rs`, `agent_pool/`) | jobs with lease and heartbeat, pool capacity | enqueue, poll, heartbeat, complete, reclaim | reclaiming races completion |
| Gateway sessions, outbox | session rows, outbox rows | create, destroy, clean up, replay | crash between remote effect and row |
| Worker (`uenv-worker`) | result log (WAL), tables of active and completed leases, warm-up pool | dispatch, report, replay, cancel | direct report and replay concurrently; death before or after the log is written |
| Worker execution (`episode/`, `pool/`, `plugin/`) | executions, warm instances, plugin processes, rollout data | acquire, reset, step, model turn, reward, release, evict | futures dropped at an await; eviction against use |
| Worker SWE runtime (`swe/`, `runtime_gateway/`) | sessions, reservations, containers, catalog rows | create, exec, submit, delete, recycle, grade | provisioning outside the lock; repeated submits; one host file shared by threads |
| Trajectory storage (`trajectory/` of the server, `swe/trajectory*.rs` of the worker) | spool and markers; bodies and index rows | seal, upload, insert, reconcile, retention | lost answers, kills, a sweep that races an upload |
| Observability (`obs/`) | event queue, merged state of a run, event log | emit, ingest, merge, append, replay | late and repeated events; merge before append |
| Adapter core of the bridge (`uenv-bridge/core`) | pending slots, calls, lifecycle | submit_batch, stream, shutdown | executions end in any order; clients leave |
| Hub registry, packages, seeding (`uenv-hub-core`, `-server`) | SQLite rows, artifact files | publish, yank, delete, stack, sync, seed | checks before a transaction; files and rows in two places; kills |
| Hub command line (`uenv-hub-client`) | destinations, link and state file, manifests | import, align, pin, gate, publish, sync, activate | concurrent commands on one host, kills |
| Frontend, integrations, plugins, scripts | UI; adapters | - | - |

How they interact. A client's SubmitEpisode looks the episode up in the store,
then in the coordinator; the first caller spawns the *owner task*. The owner is
admitted, reserves a worker in the scheduler, puts an entry into
`pending_results` under a new *lease*, records the dispatch, and opens the
dispatch stream to the worker. The worker executes, writes the result into its
log and calls ReportResult, once directly and again from the replay loop until
it is answered. ReportResult takes the pending entry, commits the result and
the idempotency record in one transaction, sends the result to the owner and
acknowledges. The owner commits its result too (the same one, or a timeout, a
cancellation, a failure), finishes the coordinator entry, and all attached
callers return. Registration of a second id at the same endpoint *supersedes*
the first: it is drained and its pending entries are answered with a failure.
After a crash the recovery either schedules the episode anew (never dispatched)
or rebuilds a wait for its latest dispatch.

What makes each part correct:

* scheduler: the reservation ledger is exact under every order of
  registration, drain, superseding and release; a record is not dropped or
  revived under a lease; grants stay within capacity; one live id per endpoint;
  drained workers leave;
* episode path: an episode has at most one outcome, it never changes, everyone
  is told that one; what a worker is told was accepted is durable; no entry of
  `pending_results` outlives its wait; recovery waits for the right dispatch;
  every caller gets an answer;
* admission: the server never admits fewer episodes than the capacity of the
  registered workers allows; pools grant what their registered agents offer;
* agent jobs: a job nobody holds can be polled, memory and store agree on who
  holds it, one completion is accepted and it is the one in the store;
* agent episodes: what runs is known, and every session, reservation and permit
  belongs to a task or to a row that somebody will clean up;
* trajectories: what the worker was told it may delete can be read;
* observability: a restart changes nothing a reader sees, a final status stays;
* bridge: every sample of a call is answered, with its own result;
* worker: an instance serves one execution, capacity is kept, a session is
  evaluated once, rollout data stay aligned, the gold patch resolves its
  instance and nobody is rewarded for nothing;
* Hub: `latest` is what a consumer may use; published bytes are the described
  ones; what is installed is complete; imports agree with the gate; rules that
  are fetched are those that were measured; the standard names resolve.

## 2. Modules

| module | models |
|---|---|
| `Scheduler` | registry, reservation ledger, registration and superseding, heartbeats, drain, environment preparation |
| `MCScheduler` | values for its constants |
| `SchedulerProofs` | theorems about `Scheduler` |
| `EpisodeOutcome` | the promise of the episode path, in three variables |
| `NativeEpisode` | one episode on the persistent native-worker path: callers, owner task, ReportResult handlers, store, crash and recovery, workers |
| `MCNativeEpisode` | its symmetry set |
| `NativeEpisodeProofs` | theorems about `NativeEpisode`, the refinement included |
| `Queues`, `QueueProofs` | operations on queues and counts (`Keep` is `VecDeque::retain`), and what is proved of them |
| `ServerProofs` | theorems about `Admission`, `AgentPool`, `Trajectory`, `Observability` and `AdapterCore` |
| `AgentJobQueueProofs`, `AgentEpisodeProofs` | theorems about `AgentJobQueue` and `AgentEpisode` |
| `WorkerProofs` | theorems about `WorkerEpisode`, `SweSessions`, `ModelTurn` and `SweGrading` |
| `HubProofs` | theorems about `PackageActivation`, `HubRegistry`, `EnvRelease`, `PackagePublish` and `HubSeed` |
| `AgentJobQueue` | `agent_job.rs`: queue, leases, heartbeats, reclaiming, completion, rows in the store, the waiting task |
| `AgentPool` | `agent_pool/registry.rs`: routing to a pool, permits that follow the live agents |
| `AgentEpisode` | the SWE and code agent paths of `service/episode.rs`, gateway sessions, clean-up, outbox, recovery, `GetResult` |
| `Admission` | `admission.rs`: dynamic permits, waiting, background decreases |
| `Observability` | `obs/`: queue, HTTP ingest, merge engine, event log, replay, worker status |
| `Trajectory` | spool and uploader of the worker, trajectory store and its HTTP front on the server |
| `AdapterCore` | `uenv-bridge/core`: batches, streams, conversions, limits, shutdown |
| `WorkerLink` | registration, heartbeat, result log and replay, seen from the worker, with losses and restarts |
| `WorkerEpisode` | executor, warm-up pool, plugin host and process backend |
| `ModelTurn` | model client, payload, rollout data, reward of a turn |
| `SweSessions` | instance pool, runtime gateway and the native SWE path |
| `SweGrading` | catalog, packages, contracts, provisioning, recycling, patches, graders |
| `HubRegistry` | environments, versions, stacks, yank, delete, audit, mirror |
| `PackagePublish` | `publish-plugin` and `publish_inline_package`: files, row, registry version |
| `PackageActivation` | `env sync --activate`: download, rename, lock, link, state file, rollback |
| `EnvImport` | pure: importers (Dockerfile, image, compose, OpenEnv), labels, conformance gate |
| `EnvRelease` | the commands around them: import, label, build, align, pin, gate, publish, fetch |
| `HubSeed` | `seed.rs` and `build_state`: what a Hub publishes at each start |
| `MCAgentQueue`, `MCProgress`, `MCServer`, `MCWorker`, `MCHub`, `MCWorkerLink`, `MCSweWrites` | the instances of the runs |

`MCServer`, `MCWorker`, `MCHub`, `MCAgentQueue` and `MCProgress` put the instances of
several modules into one run. A variable `focus`, chosen at the start, says which
of them a behaviour is about; a property is about its own focus. The components that have
theorems are extended, so that the assumptions of the theorems are evaluated for the
constants of the run, and so that the properties of the run are those the theorems state: in
the other foci they stay in an initial state. A component that appears in several foci with
different constants is there also an instance, on the same variables or on its own.

Definitions named `...Mutant` stand before the definition they alter; they are
plausible bugs that the property named with them in `PROJECT.json` finds. No
specification uses them.

### Scheduler

The scheduler is behind one `RwLock`, so each of its methods is one step, and a
handler that takes the lock several times is several steps.

* `registered`, `info` are `RoundRobinScheduler.workers`; `lease` is the set of
  `WorkerLease` guards; `prep` a `PrepareEnvironment` call under way; `toScan`
  and `stale` the two halves of `supersede_same_endpoint_workers` (the ids are
  collected under the read lock, then removed one by one); `drains` the
  background tasks of `drain_worker` with a grace period, with the capacity
  they captured.
* `RegisterAccepted`/`RegisterRejected` are the RegisterWorker handler up to the
  scan; `Heartbeat` the heartbeat handler including the conversion of the
  signed wire fields (its two writes of the scheduler, of the load and of the
  runtime state, are one step: no property relates the two); `Reserve`, `Release`, `DrainNow`, `DrainGraceful`,
  `DrainExpire`, `PrepareStart`, `PrepareReady`, `PrepareFailed`, `TouchReport`
  are the methods and handlers of those names.
* `HeartbeatOverdue` and `ReportOverdue` are the passing of time: an age is 0
  while a time stamp is within the configured timeout, 1 beyond it, 2 beyond the
  24 hours of `worker_can_prepare`.
* Round robin is a free choice among the eligible workers; cpu, memory, gpu and
  disk are one number. Admission calls made by the handlers are not here (see
  the plan).

### NativeEpisode

One `episode_id`. Handlers and tasks are cut at their awaits.

* Callers: `ClientLookup` is `find_or_create_episode`, `ClientAttach` is
  `get_or_insert`; they are two steps because the handler awaits the store in
  between. `ClientGone` is a disconnect.
* Owner: `owner.phase` is where the spawned task is; the comment above
  `OwnerPhases` names the phases. `OwnerReserve` makes lease and pending entry,
  `PutDispatchIntent` the row in `dispatches`. In the select loop
  `OwnerDeadline`, `OwnerSeesCancel`, `OwnerReceives`, `OwnerChannelClosed`,
  `OwnerDispatchError`, `OwnerDispatchFatal`, `OwnerSlotFull`,
  `OwnerDispatchDone` are its branches. `OwnerCommit` and `OwnerFinish` are the
  publication of the result.
* ReportResult: `ReportBegin`, `ReportCheck`, `ReportRemove`, then
  `ReportAbsent` or `ReportCommit`, `ReportSend`. `ReportAborted` drops the
  handler at an await when the connection breaks: its pending entry dies with
  it, a commit already sent to the writer still runs (`OrphanCommit`).
* Store: `created`, `terminal`, `dispatch`, `idem`. Commands are serialised by
  the writer and transactional, so each is one step; after a failed one
  (`healthy` = FALSE) all later ones are refused until a restart.
  `Commits` is `commit_terminal_tx`: a first result, or the very same again.
* `CancelEpisode` and `Supersede` come from other handlers.
* `Crash` forgets all memory; `Restart` is `recover_state`;
  `RecoveredReceives`, `RecoveredClosed`, `RecoveredDeadline`,
  `RecoveredCommit`, `RecoveredFinish` are the task of `recover_native_wait`.
* Workers: `WorkerStart` may come after the server has given the lease up;
  `WorkerFinish` (stream closed) and `WorkerLog` (log written) are two steps;
  `WorkerLost` is death before the log is written.

What is abstracted: a result is its kind and lease (a result built by the server
carries time stamps, so it equals no other); row phases
`queued`/`dispatch_intent`/`dispatched` are seen only as "has a dispatch"
(the store's transitions into them check nothing more on this path);
reply codes of ReportResult are "ack" (accepted), "duplicate" (the worker deletes its
record either way) or no usable reply (stale epoch, mismatch, malformed,
connection lost: the worker tries again). The caches `terminal_outcomes`,
`result_outcomes`, `cancel_outcomes` only choose between codes of the second
kind. Not modelled: the retention sweep, `cancel_episode` with an explicit
`attempt_id`, the refusal of oversized results, and the server without a store.

### EpisodeOutcome

Three variables: `outcome` (the durable result), `answer` (what each caller's
latest call returned), `accepted` (leases whose worker was told so), three
actions: decide once, answer with the outcome or an error, accept only the
outcome. `NativeEpisode!Outcome` instantiates it with `terminal`, the results of
`client`, and the leases whose log record was dropped on an "ack".

### The server beside the native path

**AgentJobQueue.** `pending`, `inflight` and `chan` are the queue, the map of jobs in
flight and the channel of the episode that waits; `rows` is `agent_jobs`, `rpc`
the call an agent has under way. A handler is split at its awaits and where it lets
go of a map entry: `Poll` takes from the queue, leases in the store, then writes the
entry; `Reclaim` looks at ages, requeues and changes the row; `CompleteCheck`,
`CompleteCommit`, `CompleteDeliver` are completion. A run id is the number of the
lease generation. `UnheldIsReachable` and `LeaseAgrees` are checked without
disconnecting callers: with them a reserved slot or a job may stay behind (section 4).

**AgentPool.** `register` and `pool_semaphore` compute the permits from the live
agents; a decrease is the task that absorbs free permits (`debt`); episodes try,
sleep and try again.

**AgentEpisode.** `pc` is the place of a task in `submit_swe_agent_episode` or
`submit_code_agent_episode`, `holds` what its guards will release, `todo` the work of
the clean-up task that runs every 30 seconds, `rows`/`grow`/`outbox` the tables.
The session of a worker survives a crash of the server. Without a store the same
definitions give the in-memory server. `submit_episode` takes its lookup in the store and
`get_or_insert`, which an await separates, as one step; `NativeEpisode` has them apart.

**Admission.** The registry is the capacity and the draining mark of each worker.
Draining lowers the permits by what it captured at its beginning.

**Observability.** The clock is read, then the event is merged under the lock, then its row
is appended. The clock counts milliseconds of the system's time, so a reading may repeat or go back.
`store` is the order in which `load_all_events` reads the rows: by `ingest_ts`, then by
`seq` whatever source gave it, rows that are alike in both in any order; `append` puts a row
where that order (`Precedes`) allows, and `Replay` merges the rows again. So the order of
reading need not be the order of merging. `ReplayAgrees` says what holds in each case, once
every merged event was appended and no write failed: if the events were merged as they are read, a
restart finds the whole engine, cursors included; if only the trainer's own events
were, it still finds the same outcome of the run (state, status, whether it has ended) and the
same place of the trainer. The views of episodes and the stages may then differ (section 4).

**Trajectory.** A body is the worker that wrote it, so that two workers with the same
id that make the same trajectory id can be told apart. The three parts of `insert`
are one critical section, which `reconcile` and `retention` respect; kills fall
between any two steps. `FileLost` is a file of the data directory that disappears.

**AdapterCore.** A sample is the record of the keys that its conversion looks at; the
server is the table of the episodes it knows. `ChannelSize` is the capacity of the
response channel, at which the loop stops reading its input. `submit_sample` is `submit_episode`
up to the coordinator, with a store that answers; that the store fails, or a result is larger than
it takes, belongs to `NativeEpisode` and section 7.

### The worker

**WorkerLink** has the heartbeat task, the direct report of every result, the replay
task and the log on disk, against a server that is only its records, its epoch and
its leases. Every call may be lost before or after it took effect.

**WorkerEpisode** keeps for each execution the sequence of calls it still has to make,
the innermost first; dropping the future removes the sequence and runs the guards. The
error of `checksum_trajectory` after the release is left out: that function encodes and hashes in
memory and has no way to fail.
**ModelTurn** is the conversation inside an execution: a token is <<turn, position>>,
and each place of a body that speaks of tokens (`logprobs.content`, `token_logprobs`,
`response_ids`) may leave out some of them by itself: nulls and what is no integer are dropped, and
`validate_for_async` compares only the lengths of what is left.

**SweSessions**: requests and native episodes are jobs that keep a reference to their
session; the container ends with the last reference. **SweGrading**: a tree is the set of
changes made to the repository at its base commit; the five places that depend on the
variant (initial state, baseline commit, gold patch, test patch, grader) read the same
contract row, with overlays of packages merged as the code merges them.

### The Hub

**HubRegistry**: a handler is its sequence of store calls; what it read before its
transaction may be out of date. **PackagePublish** and **PackageActivation** cut command
and handler at every file they create or rename. Besides the command, which registers its version
first, `PackagePublish` has other clients of the API only as far as they post what is malformed:
`PackageIsRegistered` is about `uenv publish-plugin`, since the API itself takes a package of a
version nobody registered. **EnvImport** is a set of pure operators
on abstract Dockerfile instructions, image records, compose services and class
statements; **EnvRelease** the state machine that calls them. **HubSeed** runs the fixed
list `Steps` at each of two starts, from an empty database or one of an earlier
release, with kills at every step, changes by users between the starts and sources
that change at any time.

## 3. Runs

| run | instance | distinct states | shows |
|---|---|---|---|
| `registry` | 2 ids at one endpoint, 2 tasks, 1 drain with grace period, loads {-1,0,1}, max_load {0,1,2} | ~350,000 | five scheduler properties under every order of registration, superseding, heartbeat, drain, reserve, release |
| `prepare` | 1 id, 2 tasks (one needs a package and resources), ages to 2 | ~6,300 | preparing an environment on a record that is replaced or removed meanwhile never overcommits it (`GrantsFitCapacity`) |
| `retry` | 1 caller, 1 report call, 2 leases, 2 attempts, 1 crash | ~1.3 million | refinement and invariants over retries, slot-full rescheduling, late reports, cancel, supersede, recovery |
| `returns` | 1 caller, 1 report call, 1 lease, 1 crash, 1 store fault, fairness | ~69,000 | every caller returns |
| `agent_queue` | 1 job, 2 agents, up to 3 leases, 1 crash | 1,165,589 | a job nobody holds can be polled; memory and store agree; one accepted completion, and it is recorded, also where callers leave and episodes are cancelled |
| `progress` | 1 job and 2 agents, one of them fragile; 1 worker with one crash on either side and lost calls; fairness | 176,618 | jobs complete, a worker comes home, its log is emptied |
| `server` | the foci of `MCServer` | ~1.10 million | admission, pools, agent episodes with crashes, observability, bridge, trajectories |
| `worker` | the foci of `MCWorker` | ~1.47 million | executions on warm instances, sessions, model turns, grading |
| `hub` | the foci of `MCHub` | ~1.21 million | registry, mirror, publication, activation, import, rules, seeding |

Why the bounds suffice to meet the interesting cases: two ids are what superseding needs and two
registrations interleave their scans; capacities 1 and 2 with two tasks reach both full and free
workers; -1 and 0 are the edge values of the wire fields. In the episode path two leases are an
old and a new one, two attempts a first and a last one, two callers an owner and a waiter. The
proofs below remove the bounds for safety. In the agent queue two agents are the silent one and
the one that takes over, three leases a reclaimed, a reclaimed again and a live one. Two crashes
are a crash and one during or after the recovery from it. Of the agent episodes, one SWE episode
is submitted twice, which is a caller and the caller that comes after it (with two crashes, or
with one and the sweep of old episodes), and without a store two code episodes compete for one
permit. The pools have two agents and three registrations, so that one of them can change its
pool and its offer while the other lives; the drain of the admission has one worker whose
capacity changes after the drain captured it. In the worker three instances are two in use and
one that is being evicted, four requests meet a pool of one at every stage of a session; tasks
and instances are interchangeable there, as the agents are in the agent queue. The Hub's
commands are two that switch between versions, one of them run again, and three that fetch one
version (one fails, one is killed, one wins); two starts of the Hub are one that is killed and
one that finds what it left.

Deadlock is checked in `registry`, `prepare`, `retry`, `returns` and `agent_queue`, whose systems never
stop; the other specifications may come to rest when their
bounds are used up, and say so in their configuration.

Three more runs are expected to violate a property that a document or a comment of
the repository states (each is a finding in `PROJECT.json`):

| run | statement | what happens |
|---|---|---|
| `healthy` | `Docs/server/260723-Server持久化存储实现总结.md:162`: the writer turns unhealthy when a storage limit is exceeded | report takes the entry; deadline; report commits; the owner's commit of a timeout conflicts, which counts as a store failure |
| `reregisters` | `Docs/worker/260811/SWE-smith最新pytest超时与服务可视化验收总结.md:10`: a worker can register again | a worker with a configured id crashes after it reported load; the record keeps that load, and every registration is refused |
| `writes` | `uenv-worker/src/swe/session.rs:75`: sessions may be used concurrently | two sessions stage the files they write at one path of the host; one copies the other's file |

## 4. Where code and documents disagree

Found with TLC on these modules, beside the three runs above. The ones with a
property name are stated in their module and can be checked by adding the name to a
configuration.

Native path:

* `DrainedIdleIsRemoved`, under `FairSpec` of `Scheduler`. `scheduler/mod.rs:135` says `release`
  or `unregister_worker` removes a drained worker when reservation and load are zero; if the
  last lease is released while the worker still reports load, the heartbeat that reports zero
  later removes nothing.
* `OldLeaseNeverDecides`. The persistence document, line 17, says results of an old lease
  cannot affect the current task; a report takes the entry, the stream breaks, the
  owner retries under lease 2, and the report of lease 1 commits.
* `LogKeptUntilDurable`. Line 15: an unconfirmed result must not be lost; a second report
  is answered duplicate while the commit of the first is under way, the log is deleted, and
  the commit fails.
* `NoDispatchAfterTerminal`. Line 70: with a terminal row no worker is called; the lookup
  says active, the owner finishes, the caller becomes a new owner and dispatches.
* `AnswerIsDurable`, with `SupersedesRecovered`. `control_plane.rs:183`: the waiting task
  persists what superseding sends; a recovered wait passes it on without a commit.
* `SameRequestAttaches`. Line 68: the same request attaches to the same entry; after
  recovery of a second attempt its checksum differs and it is refused.

Agent jobs and episodes:

* `agent_job.rs:178` says abandoning removes a job from the queue; a poll whose lease was
  refused puts it back afterwards, and every later poll takes it in vain.
* `service/episode.rs:1049` says a completion after the deadline changes nothing; a
  completion that was checked before it is stored although the caller gets a timeout.
* A completion for a job that has left memory, while its row is still leased, fails in
  the store, which then refuses everything until a restart (the document, line 383, promises
  a stable answer).
* A cancelled job whose closed channel is seen first is not marked and is restored
  at the next start; a job marked timed out before a crash is neither resubmitted nor
  ended (line 111 promises that every open row is dealt with).
* A code episode has no row in `agent_jobs`, so with a store no agent can lease it.
* A caller that disconnects while `poll_agent_job` awaits the store leaves its slot
  reserved.
* Two crashes may leave two open session rows of an episode; `load_agent_recovery`'s
  join then gives two records, `recover_agent_jobs` refuses the duplicate and the server does
  not start.
* `cleanup_episode` frees the worker before the session is destroyed; a session whose
  creation timed out is never known; without a store the guard of a first execution
  removes the handle of a second; results delivered by the outbox are not in `GetResult` after a
  restart; the sweep of old episodes takes `cleanup_pending` rows with it.
* `agent_pool/registry.rs:13` says the permits are the capacity of the live agents; an
  agent that is heard again adds nothing until somebody registers or submits.

Admission, observability, trajectories, bridge:

* `PermitsFollowCapacity`. A worker that is superseded, or removed by its last release,
  keeps its permits; a drain takes what it captured, out of date when the capacity changed
  in its grace period or when it was drained twice. So the server may admit
  too many, and `NeverUnderAdmits` is what does hold.
* An event that was merged and whose append failed is answered Duplicate when it is
  sent again; `RUN_CLOSED` after `RUN_FAILED` turns a tree to CLOSED; a dropped
  worker snapshot is not sent again; a reader that subscribes after it read the state
  may miss events in between.
* Events of different sources that got one reading of the clock are read back by their sequence
  numbers, which are unrelated; the same happens when the clock is set back between them or two
  handlers overtake each other on the way to the lock. The stages, trees, episode
  views and workers a restart shows may then differ from those shown before; the outcome of the run
  does not (`ReplayAgrees`).
* A trajectory whose marker was never written, or whose upload failed ten times, stays
  on the worker. A duplicate upload restores a lost body only after `reconcile` has noticed the
  loss; before, it is answered Duplicate and the worker deletes its copy.
* An error item ends a stream, so one invalid sample cuts off the results of the others;
  a client that writes everything before it reads may block itself; the same sample under
  another batch id is an EPISODE_ID_CONFLICT result; an episode past
  `is_accepting_episodes` may start after the active count was seen 0.

Worker:

* Heartbeats have no timeout of their own; a lost answer to a registration with a
  lease taken marks the worker draining; temporary files of the log are never removed, and
  the key of a log file is not invertible for ids that contain `__`.
* `merge_overlay` resets the sections an overlay leaves out, so that an overlay with
  only a reward makes Smith sessions start without their bug; a failed recycle leaves the session
  usable; a test patch that does not apply is skipped silently; with Pro, missing test
  ids are matched by parts of their names, also after truncated output.
* `uenv-bridge/docs/周报/2026-08-03-周报.md:154` asks for log-probs aligned token by token with
  the ids, line 94 of `2026-07-05-周报.md` for log-probs aligned with them. Each list drops what it
  cannot read by itself and `validate_for_async` compares lengths: with `token_logprobs`
  `[null, -0.5]` and `response_ids` `[10, "11"]` the log-prob of the second token is paired with the id of
  the first. `RolloutAligned` says how far this can go: never beyond the turn, and
  never where the turn has all its log-probs.
* `evict_idle` lists the idle instances and closes them one after the other; one that an episode
  acquired in between is closed under it, and that episode fails.
* SWE episodes in asynchronous mode always fail `validate_async_completed`;
  `build_reset_config` takes the first non-empty question where `payload_question` skips blank ones.

Hub:

* `SyncMissesNothing`. `uenv-hub-types/src/lib.rs:753` says the returned time is the next
  `since`; rows are read before the time is taken and compared with a strict `>` on seconds.
* `StacksStayLaunchable`. `repository.rs:1551` says a validated stack stays launchable;
  `resolve_stack` fails when its environment is deleted or its last match yanked.
* `MutationsAreAudited`. `service.rs:5` says write paths cannot forget auditing; the
  route of `yank_stack` does not go there.
* `seed.rs:3` says seeding is idempotent and leaves existing environments
  untouched. A Hub killed while it stages a package finds the file at every later start, and
  everything after that package is never seeded until the directory is removed. An
  environment that users changed is patched back, a deleted one returns, a user's own
  1.0.0 of `qa`, `math` or `code` is yanked; a successor that a user set cannot be cleared; and
  the legacy placeholder stays the latest version once 0.2.0 itself was yanked.
* `--force` re-import drops the pinned rules; publication does not require the gate;
  `FROM <stage>` makes the base image a stage name; an image known only by its base-name label
  is not warned of by the importer yet refused by C06.

## 5. Fairness

* `NativeEpisode!Fairness`: weak fairness of the owner's next step and of
  `ClientAttach`. The owner is a spawned tokio task; each of its waits
  (admission, reserve loop, select, notification of a cancelled worker) is
  bounded by the deadline or a time-out of its own, and a call that has looked
  up the episode goes on without waiting for anybody. Nothing is assumed of
  workers, connections, ReportResult calls, or that a crashed server restarts (a
  crash ends the calls).
* `MCProgress!JobFairness`: the server's tasks and handlers go on; an agent that is
  not fragile keeps registering, polling and completing (strong fairness: it does so in a
  loop, and other calls may disable a step in between); a fragile one either does so too or
  its heartbeats stop for good. The server stays up in this focus.
* `MCProgress!LinkFairness`: the loops of the worker and their calls go on, deadlines
  of leases pass, and processes that ended are started again, which
  `deploy/systemd/uenv-worker.service:17` and `uenv-server.service:23` ask for
  (`Restart=on-failure`). Losses and crashes are bounded, not fair. The worker gets its id from
  the server; with a configured id the property fails (run `reregisters`).

## 6. Proofs

Assumptions on the constants. Each is a definition or an assumption of the module that
declares the constants, and holds in the runs:

* `Scheduler`: finitely many tasks, types of the parameters; `NativeEpisode`: types of the
  bounds;
* `AdmissionConstants`: finitely many workers and episodes; `PoolConstants`: finitely many agents,
  an offer names a pool and a number; `AgentConstants`: every submission is of an episode and every
  episode has one, "no task" is not one; `QueueConstants`: finitely many jobs and agents, "no
  agent" is not one;
* `WorkerConstants`: "no instance" is not one; `SessionConstants`: finitely many jobs, a
  capacity of at least one;
  `TurnConstants`: a number of turns, and the default of the retries is not negative;
  `GradingConstants`: the marks of the staged file ("none", "missing", "gone") are not sessions;
* `ActivationConstants`: there is a version, and a package has a number of files;
  `RegistryConstants`: finitely many versions, with numbers above that of "no version";
  `PublishConstants`: a release is a sequence of files, not empty if it is well formed;
  `SeedConstants`: types of what users and sources may change;
* `CoreConstants`: the samples of a call are a sequence, and an end of an episode is not "running";
  `ObsConstants`: the capacity of the event queue is a number.

`Trajectory` and `EnvRelease` need none. The sets of workers, tasks, callers, handlers, jobs, agents, instances,
versions, commands and all bounds are otherwise arbitrary. Some theorems have a hypothesis about
what happens in the instance (`~MayDrain`, `~Disconnects`, `~SupersedesRecovered`, `HasStore \/
SubmittedOnce`, `[]WritesArrive`); each is needed, as the disagreements of section 4 show.

**SchedulerProofs.** None of the properties is inductive alone. The invariant
is `Ledger /\ SupersedePending`:

* `Ledger` = `TypeOK`, `BlankUnlessRegistered` (an id without a record carries
  no load, so registering it anew forgets nothing), `ReservationsMatchLeases`,
  `LeasedStaysRegistered`. A record is removed or replaced only at effective
  load 0, which bounds its reservations, which by exactness count the leases; so
  no lease is on it, and the release of a lease always finds its own record.
* `SupersedePending`: of two live ids at one endpoint, one still has to scan, or
  is on the other's list. The later of two interleaved scans sees the other id,
  because both are in the registry before either scans.

Most actions change neither leases nor reservation counts; lemmas about such
"neutral" steps keep the case analysis short. `GrantsFitCapacity` and
`DrainingIsFinalUnderLease` are action properties derived from the invariant.

**NativeEpisodeProofs.** The invariant is

* `Shape`: types, plus: a task that awaits has a real lease and attempt, a
  handler in progress has a lease;
* `Durable`: `AcceptedIsDurable`, plus: a handler that is about to send, and a
  channel that holds a result, have their record in the store already;
* `Waits`: `PendingIsAwaited`, plus: a server that is down has no memory, leases
  not yet issued have no trace, and an entry is in `pending_results` (its channel
  still open) or taken by
  one handler, not both, so a commit that fails and puts its entry back is the only
  way to an orphan, and then the store is unhealthy;
* `RecoveryWaitsForLatest`;
* `Answered` (if `~SupersedesRecovered`): only durable results are in the
  finishing phases of the owner and in the callers' answers.

`EpisodeImplementsOutcome` proves the refinement: under `~SupersedesRecovered`
every step of `NativeEpisode` is a `Decide`, `Answer` or `Accept` step or a stutter. The
hypothesis is needed: superseding a worker under a recovered wait refutes the
statement without it (section 4).

**QueueProofs.** What `Keep`, `Total` and `SumOver` return, for every sequence and
every finite set. The induction theorems of the library take an operator as a parameter and
cannot be used; `SetInduction` is about a set of numbers instead and follows from the
well-foundedness of strict inclusion between finite sets. `PrimitiveRecursion` shows that
the recursive functions in those definitions exist, `KeepProperties` that `Keep` picks
positions in increasing order, `TotalUpdate`, `SumOverUpdate` and `SumOverMonotone` how a
sum changes with one of its terms.

**ServerProofs.** Five components that share no state.

* Admission. The invariant of `NeverUnderAdmits` is `Covers`: the permits are
  compared with the capacity of all registered workers, those that drain included, because
  only then every step gives the semaphore at least what it gives the registry; and an episode
  waits at most once and never while it holds a permit (`OnePlace`), so that granting a
  permit changes one count. The theorem leaves `DrainWorker` out: its task takes back the
  capacity it captured, and the statement is false when that has changed meanwhile.
* Pools. `Follows` (`GrantsFollowAgents`) adds to the property its types and `Heard`: while no
  agent fell silent no entry is stale, so a pool counts every agent that is registered with it.
  A step is compared by the share each agent has in a pool (`Share`, `SameCapacity`); the sum
  over the agents then changes as the permits do, and `AbsorbBooks`, `OtherBooks` and
  `SyncBooks` are the three ways the books of a pool move.
* Trajectories. `Custody` (`NothingIsLost`): one operation at a time holds the lock, and what it
  is about to write fits the row it found (`OperationsFit`); a row that shows a body has it,
  unless it expired or was lost (`ShownIsThere`); and once a worker was told that the server has
  the trajectory, or acted upon it, the row is its own until it expires (`NothingLost`), which a
  second worker with the same id cannot change.
* Observability. `ObsInv` (`RestartFindsTheSame`, `OutcomeStays`): no event of the server, on the
  queue, with a handler or stored, says how a run ends (`Intake`, `Pipeline`); no row is stored
  before one that is read first (`Ordered`); and the rows merged so far, merged again in their
  order, give the engine and are the stored rows and those still to be appended, which differ from
  the stored ones where the rows were merged as they are read (`Matches`). So an event that is merged
  and not yet stored is accounted for. When every row is stored and the rows were merged as they are
  read, the store is the same sequence (`SortedUnique`). If only the trainer's were, the trainer's rows of both
  are one sequence (`KeptRows`), and they alone decide the outcome (`OutcomeOfTrainer`): an event
  of the server leaves it alone (`ServerKeepsOutcome`), and one of the trainer changes two engines
  with one outcome alike (`TrainerAlike`). `ApplyIsSound` says that no event takes the types or
  the end of a run from the engine.
* The bridge. `CoreInv` (`NoSampleLost`): a sample that waits has its own request at the server,
  and one that is done has the outcome of that request, or the refusal it met (`SlotIsSound`);
  a batch that runs is valid and has a place for every sample, and one that was answered has
  results that do not change any more (`BatchIsSound`); a stream has as many items, in its channel
  and at its client, as it has sent, one for each sample sent (`StreamIsSound`). The server forgets
  no episode and changes none that has ended (`CoreKept`), so the other calls cannot disturb
  what a call has been told. The ids of a valid batch differ, which is why the check of the
  results never refuses them and every result finds its sample (`ContextOf`).

**AgentJobQueueProofs.** Three invariants, one for each theorem, on top of the types.

* `Records` (`CompletedOnce`): with a store, a call that will answer ACCEPTED finds its own
  agent and run in the completed row, and a completed row never changes again; without
  one, the entry of an accepted job is gone for good.
* `Offers` (`WaitingJobsAreOffered`): a token is an offer of a job, in the queue or taken
  out of it by one poll. A job has one token while nobody holds it and none while somebody does.
* `Agreement` (`HoldersAgree`): run ids are given out in order, and what a reclaim has read and
  not acted on is older than every token, so that a reclaim that acts on an old reading
  finds the row or the entry changed.

**AgentEpisodeProofs.** Both theorems stand on `Jobs`: with a store one submission at most is at
work on an episode, the one the coordinator has an entry for (`OneExecutes`); the job row
follows the row of the episode (`RowFollows`), and a task that has not enqueued its job yet
finds no job row, or one that was given up (`TaskFollows`).

* `CancellationReachesTask` (`RunningIsKnown`): the handle under the id of an episode is that of
  the submission that executes it, so that a cancellation reaches it. With a store the lookup
  admits one execution of an episode; without one the guard of an earlier execution removes the
  handle of a later one, which is why the theorem asks for a store or for one submission of each
  episode.
* `SessionsAreKept` (`SessionsAreAccounted`), with `Recorded` (a session belongs to the episode
  of its task, and one recorded as destroyed is): a session that lives and has a row is one that
  the clean-up or the recovery reads, through that row or the rows of its episode and its job,
  so that it is found again whatever memory is lost. The one way the code has to lose it is
  named in the statement (`GivenUp`).

**WorkerProofs**, the executions. What an execution still has to do is a stack of calls.
`Course` describes the stacks that arise: only the innermost call carries an instance, a spawn
is always followed by the call that takes the new instance, the last entry decides how the
execution ends, and an ignored error ("let _ =") is followed by the sealing. `CourseTail`,
`CoursePrefix` and `AbortCourse` say that returning, calling and failing keep that shape; every
action is one of these three.

* `Books` (`OneTrajectoryEach`): the phase of the stack says what has been recorded: nothing
  before the reset, an open trajectory after it, a sealed one before an error is returned.
* `HeldOnce` (`HeldByOne`): an instance is in one hand at most: the warm queue, the call that
  carries it, or the lease of an execution that still runs. Only a spawn makes a new token, with
  an id never used.
* `NoStrayProcess` needs no more than the shape: each step hands the process it knows to the
  host, or stops it. With `HeldByOne` it gives `RunsAlone`, which is `ExclusiveUse`.

The sessions. `Slots` (`PoolWithinCapacity`): the number `pending` is that of the jobs that
provision a session, and together with the table they fit, which the check under the lock keeps.
`Submits` (`EvaluatedOnce`): at most one job evaluates a session that nobody deletes, the
submission says so before it begins, and the count once it has (`OneEvaluation`).

A model turn. `TurnInv` (`RolloutStaysAligned`): the log-probs and the ids gathered so far are as
many, each list has tokens that were said, none twice and in their order, all turns so far are in it
(`Upto`), and place by place the two are of one turn, and of one token unless that turn lacks a
log-prob (`Paired`); in a synchronous mode nothing is gathered (`Gathered`). A call is only made
where the endpoint has its key and while retries are left (`CallsAllowed`). What `parse_logprobs`
and `parse_response_ids` return is a part of the turn's tokens in order (from `KeepProperties`);
where the log-probs are of all tokens, ids of the same number are of all tokens too, which is the
case in which a pair is of one token.

Grading. Two invariants follow a session from its creation to its verdict, one predicate on its
row and its state each; a step of one session leaves the others alone (`SessionMoves`), and one
lemma per action says that it `Keeps` both.

* `UnsolvedIsSound` (`RewardIsEarned`): after the reset to a base commit and until the agent fixes
  something, the bug is in the tree: the setup, the initial patch and the baseline commit bring it
  back whatever was there before, and only the fix takes it out. It needs nothing of the files
  that sessions take from each other: a patch meant for another repository leaves the tree alone,
  and then the baseline commit of a SWE-smith row has nothing to commit and the session is given
  up; the test files of a Pro row come from its setup. From the tree it follows what the tests
  report, and from the report that no grader of the worker says "resolved" (`FailIsNoPass`).
* `CleanIsSound` (`GoldStaysResolved`): where no agent changed anything, the tree is the one that
  the contract asks for, before the gold patch (`IsOriginal`) and after it (`IsSolved`), also after
  recycles to HEAD, because what was committed is part of it too. The step of a patch needs the
  session's own file, which is the hypothesis `[]WritesArrive`. Section 4 shows that two sessions
  of one worker can break it; with one session it always holds (`AloneItArrives`), which gives
  `AloneGoldResolves`.

**HubProofs.** Five components.

* Activation. `Installed` (`HostIsConsistent`): a command that downloads has a staging
  directory of its own, with the files it has fetched so far (`OwnDirectories`), so that a
  directory with a marker is complete; what is needed of a version is checked before the lock is
  taken and stays (`SelectedIsUsable`); and one command at a time switches, knows what was
  selected before it, and finds the state file saying so, whoever was killed before
  (`OneSwitches`).
* Registry. `RegistryInv` (`LatestStaysEligible`): an environment has one row for each version
  (`OneRowPerVersion`), one that is absent has none (`AbsentIsEmpty`), and the latest version
  recorded is the highest that is offered (`LatestIsCurrent`). A handler works with what it
  read before its transaction, but the transaction computes the latest version anew from the rows
  it leaves; `HighestOfFinite` says that this computation finds the highest of any finite set.
* Releases. `ReleaseInv` (`FetchedRulesStayMeasured`): a manifest, the one at work as well as
  the published ones, has one set of rules at most, and what it pins is what its report measured,
  when the report says which (`PinsMeasuredRules`).
* Publication. `PublishInv` (`PublishedStaysAsSent`): a request the Hub works on, or may still
  get, already has its version in the registry, and a command that confirms or reported success
  has its release published (`CommandIsSound`); the files a handler has staged so far are those
  of its release (`HandlerIsSound`). Every step only adds files, rows and registry versions
  (`OnlyAdds`), so that what another command found or left there stays.
* Seeding. `SeedInv` (`SeededStaysOffered`): the files a start has staged so far are what it was
  asked to publish, for a package that has no row yet (`StagingIsSound`); a package has one row at
  most (`OneOfEach`), and the scorer that a seeded version pins is served and on disk
  (`PinsAreServed`). Of each step that the start has finished, what it left of an environment is
  there until a user touches that environment (`EnvsInv`). `StepFacts` is what the proof uses of
  the fixed sequence of steps: which kind of step comes before which.

Only model-checked:

* the liveness properties (`AttachedReturns`, and those of `progress`): fairness and ENABLED are
  outside of the prover's reach;
* `AnswersAreRecorded`, for agents that restart and callers that leave, is the theorem
  `CompletedOnce` for other constants;
* `ImportedAsDeclared` is about what the pure operators of `EnvImport` compute, by recursion over
  the instructions of a file, which the prover cannot do induction on;
* `WritesArrive`, which the code does not keep with two sessions (section 4).

## 7. Not modelled

`PROJECT.json` lists all components. Left out for good: frontend, plugins, scripts, Python
integrations and the Python side of the bridge (no server state); container and Kubernetes
runtimes (external systems, seen only through the answers of their commands); the parsing of
configuration, YAML, JSON and Dockerfile text below the level of an instruction; wire
conversions of fields that no property tells apart; Hub templates, tokens, rate limits
and search. Partly modelled: the tables `completed`, `active_leases` and
`active_cancellations` of the worker's dispatch service (a rescheduled dispatch that is refused
with lease_conflict is a failed attempt here), result field completion, list queries of
the observability and trajectory stores.

## 8. Plan

Done: all modules of section 2, with the proofs of section 6.

Worth proving next: what `EnvImport` makes of instructions of any length, once a prover with
induction over data is at hand.
