--------------------------- MODULE NativeEpisode ---------------------------
(***************************************************************************)
(* One episode on the persistent native-worker path of uenv-server, from   *)
(* SubmitEpisode to its durable outcome:                                   *)
(*   - submit_episode and the EpisodeCoordinator: one owner task per       *)
(*     episode_id, further calls attach to it;                             *)
(*   - submit_native_worker_episode: reserve, record the dispatch intent,  *)
(*     dispatch, and wait for a result, the deadline, a cancellation or a  *)
(*     failed dispatch, with retries under a new lease;                    *)
(*   - ReportResult in control_plane.rs, a handler with an await between   *)
(*     each of its steps, that the worker calls twice concurrently (the    *)
(*     direct call and the replay loop of its log);                        *)
(*   - CancelEpisode and the superseding of a worker;                      *)
(*   - the SQLite store, crash of the server and recovery at start;        *)
(*   - the worker: executes, logs the result, reports it until told to     *)
(*     stop.                                                               *)
(*                                                                         *)
(* The store runs its commands one at a time and each is a transaction, so *)
(* a command is one step.  Once a command has failed the store refuses all *)
(* later ones until the server restarts; a failed command changes nothing, *)
(* so one that was already queued behind it can be taken to run before it. *)
(* Rows are kept as long as the run lasts (the retention sweep is not      *)
(* modelled).  The reply codes of ReportResult are abstracted to what the  *)
(* worker does with them: ack and duplicate both end the replay.  With     *)
(* them go terminal_outcomes, result_outcomes and cancel_outcomes, which   *)
(* only choose the code of a reply that is a duplicate in any case.        *)
(***************************************************************************)
EXTENDS Integers, FiniteSets

CONSTANTS
    Clients,            \* callers of SubmitEpisode, all with the same request
    Handlers,           \* concurrent ReportResult calls
    MaxLeases,          \* bound: dispatch leases issued
    MaxAttempts,        \* max_attempts of the server's configuration
    MaxCrashes,         \* bound: crashes of the server
    MaxFaults,          \* bound: faults of the store (limits exceeded, I/O)
    SupersedesRecovered \* whether a worker may be superseded while a wait
                        \* that recovery rebuilt is pending on it

ASSUME BoundsTypes ==
    /\ MaxLeases \in Nat
    /\ MaxAttempts \in Nat \ {0}
    /\ MaxCrashes \in Nat
    /\ MaxFaults \in Nat
    /\ SupersedesRecovered \in BOOLEAN

VARIABLES
    \* the store, durable
    created,   \* the episode has a row
    terminal,  \* its result_blob once its phase is terminal, else NoResult
    dispatch,  \* attempt_id of each lease's row in dispatches; 0: no row
    idem,      \* leases whose report has a row in report_idempotency
    \* the server process
    up,        \* running
    ready,     \* persistence_ready
    healthy,   \* the store accepts commands
    owner,     \* the coordinator entry and the task behind it
    cancelled, \* the cancel token of the owner's EpisodeHandle
    pending,   \* leases in pending_results
    chan,      \* the oneshot channel of each lease
    handler,   \* ReportResult calls in progress
    client,    \* SubmitEpisode calls; result: what the last one returned,
               \* NoResult for an error
    \* the workers
    worker,    \* the execution of each lease
    wal,       \* leases whose result is in a worker's log
    dropped,   \* why a log record was deleted
    \* bounds
    issued, crashes, faults

storeVars == <<created, terminal, dispatch, idem>>
serviceVars == <<up, ready, healthy>>
waitVars == <<owner, cancelled, pending, chan>>
workerVars == <<worker, wal, dropped>>
boundVars == <<issued, crashes, faults>>
episodeVars == <<storeVars, serviceVars, waitVars, handler, client, workerVars, boundVars>>

-----------------------------------------------------------------------------
Leases == 1..MaxLeases

(***************************************************************************)
(* Results.  A worker's result is the same whenever it is reported; one    *)
(* that the server builds carries its time stamps and equals no other.     *)
(***************************************************************************)
ServerKinds == {"timeout", "cancelled", "failed", "superseded"}
NoResult == [kind |-> "none", lease |-> 0]
WorkerResult(l) == [kind |-> "worker", lease |-> l]
ServerResult(k) == [kind |-> k, lease |-> 0]
Results == [kind : ServerKinds \union {"worker"}, lease : 0..MaxLeases]

(***************************************************************************)
(* Phases of the owner task.  The last three are those of the task that    *)
(* recovery spawns for a dispatch it finds.                                *)
(*   queued      waits for admission                                       *)
(*   scheduling  reserve loop, or pause before a retry                     *)
(*   intent      pending entry made, put_dispatch_intent under way         *)
(*   dispatching outer select: the dispatch stream is open                 *)
(*   waiting     inner select: the stream has ended                        *)
(*   cancelling  notifies the worker of the cancellation                   *)
(*   committing  has its result, commit_terminal under way                 *)
(*   committed   finish and removal of the entry left; NoResult: an error  *)
(***************************************************************************)
OwnerPhases ==
    {"none", "queued", "scheduling", "intent", "dispatching", "waiting",
     "cancelling", "committing", "committed",
     "recovered", "recoveredCommit", "recoveredEnd"}

NoOwner == [phase |-> "none", attempt |-> 0, lease |-> 0, result |-> NoResult]
IdleHandler == [phase |-> "idle", lease |-> 0]
FreshOwner == [phase |-> "queued", attempt |-> 1, lease |-> 0, result |-> NoResult]

\* Phases in which execute_episode_inner runs, so that a handle is listed.
Executing == {"queued", "scheduling", "intent", "dispatching", "waiting", "cancelling"}
Recovering == {"recovered", "recoveredCommit", "recoveredEnd"}

MaybeResult == Results \union {NoResult}

OwnerRecord ==
    [phase : OwnerPhases, attempt : 0..(MaxAttempts + 1), lease : 0..MaxLeases,
     result : MaybeResult]
HandlerRecord ==
    [phase : {"idle", "check", "remove", "lookup", "commit", "send", "orphan"},
     lease : 0..MaxLeases]
ClientRecord == [phase : {"idle", "looked", "waiting"}, result : MaybeResult]

TypeOK ==
    /\ created \in BOOLEAN
    /\ terminal \in MaybeResult
    /\ dispatch \in [Leases -> 0..MaxAttempts]
    /\ idem \subseteq Leases
    /\ up \in BOOLEAN /\ ready \in BOOLEAN /\ healthy \in BOOLEAN
    /\ owner \in OwnerRecord
    /\ cancelled \in BOOLEAN
    /\ pending \subseteq Leases
    /\ chan \in [Leases -> {"open", "result", "superseded", "closed"}]
    /\ handler \in [Handlers -> HandlerRecord]
    /\ client \in [Clients -> ClientRecord]
    /\ worker \in [Leases -> {"none", "running", "finished", "logged", "failed", "ended"}]
    /\ wal \subseteq Leases
    /\ dropped \in [Leases -> {"no", "ack", "duplicate"}]
    /\ issued \in 0..MaxLeases
    /\ crashes \in 0..MaxCrashes
    /\ faults \in 0..MaxFaults

Init ==
    /\ created = FALSE
    /\ terminal = NoResult
    /\ dispatch = [l \in Leases |-> 0]
    /\ idem = {}
    /\ up = TRUE /\ ready = TRUE /\ healthy = TRUE
    /\ owner = NoOwner
    /\ cancelled = FALSE
    /\ pending = {}
    /\ chan = [l \in Leases |-> "closed"]
    /\ handler = [h \in Handlers |-> IdleHandler]
    /\ client = [c \in Clients |-> [phase |-> "idle", result |-> NoResult]]
    /\ worker = [l \in Leases |-> "none"]
    /\ wal = {}
    /\ dropped = [l \in Leases |-> "no"]
    /\ issued = 0 /\ crashes = 0 /\ faults = 0

-----------------------------------------------------------------------------
(***************************************************************************)
(* The store.                                                              *)
(***************************************************************************)

\* commit_terminal_tx goes through when there is no result yet, or the very
\* same one.
Commits(r) ==
    /\ healthy
    /\ terminal = NoResult \/ (r.kind = "worker" /\ terminal = r)

\* An error of the store, noticed by a task that then calls
\* mark_persistence_unhealthy.
Unhealthy ==
    /\ healthy' = FALSE
    /\ ready' = FALSE
    /\ UNCHANGED up

\* The database, its log or the free space is found beyond its limit.
StorageFault ==
    /\ up
    /\ faults < MaxFaults
    /\ faults' = faults + 1
    /\ healthy' = FALSE
    /\ UNCHANGED <<storeVars, up, ready, waitVars, handler, client, workerVars,
                   issued, crashes>>

-----------------------------------------------------------------------------
(***************************************************************************)
(* SubmitEpisode.                                                          *)
(***************************************************************************)
SetClient(c, p, r) == client' = [client EXCEPT ![c] = [phase |-> p, result |-> r]]

\* First half: find_or_create_episode.  A terminal episode is answered from
\* the store.
ClientLookup(c) ==
    /\ up
    /\ client[c].phase = "idle"
    /\ ready /\ healthy
    /\ created' = TRUE
    /\ IF terminal # NoResult THEN SetClient(c, "idle", terminal)
                              ELSE SetClient(c, "looked", NoResult)
    /\ UNCHANGED <<terminal, dispatch, idem, serviceVars, waitVars, handler,
                   workerVars, boundVars>>

\* A server whose store has failed refuses the call.
ClientRefused(c) ==
    /\ up
    /\ client[c].phase = "idle"
    /\ ~(ready /\ healthy)
    /\ SetClient(c, "idle", NoResult)
    /\ UNCHANGED <<storeVars, serviceVars, waitVars, handler, workerVars, boundVars>>

\* The checksum of a rebuilt entry covers the attempt_id of the dispatch, the
\* one of a resubmitted request its own attempt_id, which is 1.
SameChecksum == owner.phase \notin Recovering \/ owner.attempt = 1

\* Second half: get_or_insert.  The first caller spawns the owner task, the
\* others attach to it.
ClientAttach(c) ==
    /\ up
    /\ client[c].phase = "looked"
    /\ \/ /\ owner.phase = "none"
          /\ owner' = FreshOwner
          /\ SetClient(c, "waiting", NoResult)
       \/ /\ owner.phase # "none"
          /\ SameChecksum
          /\ SetClient(c, "waiting", NoResult)
          /\ UNCHANGED owner
       \/ /\ owner.phase # "none"
          /\ ~SameChecksum
          /\ SetClient(c, "idle", NoResult)
          /\ UNCHANGED owner
    /\ UNCHANGED <<storeVars, serviceVars, cancelled, pending, chan, handler, workerVars, boundVars>>

\* The caller disconnects; the owner task goes on.
ClientGone(c) ==
    /\ client[c].phase # "idle"
    /\ SetClient(c, "idle", NoResult)
    /\ UNCHANGED <<storeVars, serviceVars, waitVars, handler, workerVars, boundVars>>

-----------------------------------------------------------------------------
(***************************************************************************)
(* The owner task: execute_episode_inner and submit_native_worker_episode. *)
(***************************************************************************)
OwnerTo(p) == owner' = [owner EXCEPT !.phase = p]
OwnerEnds(k) == owner' = [owner EXCEPT !.phase = "committing", !.result = ServerResult(k)]
\* Mutant: an attempt is counted once more when the loop starts over.
OwnerRetriesMutant(a) == owner' = [owner EXCEPT !.phase = "scheduling", !.attempt = a + 1]

OwnerRetries(a) == owner' = [owner EXCEPT !.phase = "scheduling", !.attempt = a]

\* The cleanup every way out of the select shares.
ForgetLease == pending' = pending \ {owner.lease}

OwnerAdmitted ==
    /\ owner.phase = "queued"
    /\ OwnerTo("scheduling")
    /\ UNCHANGED <<storeVars, serviceVars, cancelled, pending, chan, handler, client,
                   workerVars, boundVars>>

\* Ends before a dispatch: the deadline in the queue, a cancellation, no
\* worker to be had, or the attempts are used up.
OwnerGivesUp ==
    /\ \/ owner.phase = "queued" /\ OwnerEnds("timeout")
       \/ owner.phase = "scheduling" /\ OwnerEnds("failed")
       \/ /\ owner.phase \in {"queued", "scheduling"}
          /\ owner.attempt <= MaxAttempts
          /\ cancelled
          /\ OwnerEnds("cancelled")
    /\ UNCHANGED <<storeVars, serviceVars, cancelled, pending, chan, handler, client,
                   workerVars, boundVars>>

\* A worker is reserved; a new lease and its pending entry are made.
OwnerReserve ==
    /\ owner.phase = "scheduling"
    /\ owner.attempt <= MaxAttempts
    /\ issued < MaxLeases
    /\ issued' = issued + 1
    /\ owner' = [owner EXCEPT !.phase = "intent", !.lease = issued + 1]
    /\ pending' = pending \union {issued + 1}
    /\ chan' = [chan EXCEPT ![issued + 1] = "open"]
    /\ UNCHANGED <<storeVars, serviceVars, cancelled, handler, client, workerVars,
                   crashes, faults>>

\* put_dispatch_intent, whatever the phase of the episode's row.
PutDispatchIntent ==
    /\ owner.phase = "intent"
    /\ \/ /\ healthy
          /\ dispatch' = [dispatch EXCEPT ![owner.lease] = owner.attempt]
          /\ OwnerTo("dispatching")
          /\ UNCHANGED <<serviceVars, pending>>
       \/ /\ ~healthy
          /\ ForgetLease
          /\ Unhealthy
          /\ OwnerEnds("failed")
          /\ UNCHANGED dispatch
    /\ UNCHANGED <<created, terminal, idem, cancelled, chan, handler, client,
                   workerVars, boundVars>>

InSelect == owner.phase \in {"dispatching", "waiting"}

\* Mutant: the deadline is not waited for once the stream has ended.
OwnerDeadlineMutant ==
    /\ owner.phase = "dispatching"
    /\ ForgetLease
    /\ OwnerEnds("timeout")
    /\ UNCHANGED <<storeVars, serviceVars, cancelled, chan, handler, client,
                   workerVars, boundVars>>

\* The episode's deadline passes.
OwnerDeadline ==
    /\ InSelect
    /\ ForgetLease
    /\ OwnerEnds("timeout")
    /\ UNCHANGED <<storeVars, serviceVars, cancelled, chan, handler, client,
                   workerVars, boundVars>>

\* The token is seen; the pending entry stays while the worker is notified.
OwnerSeesCancel ==
    /\ InSelect
    /\ cancelled
    /\ OwnerTo("cancelling")
    /\ UNCHANGED <<storeVars, serviceVars, cancelled, pending, chan, handler, client,
                   workerVars, boundVars>>

OwnerCancelNotified ==
    /\ owner.phase = "cancelling"
    /\ ForgetLease
    /\ OwnerEnds("cancelled")
    /\ UNCHANGED <<storeVars, serviceVars, cancelled, chan, handler, client,
                   workerVars, boundVars>>

\* What came through the channel of the lease.
Received(l) ==
    IF chan[l] = "result" THEN WorkerResult(l) ELSE ServerResult("superseded")

OwnerReceives ==
    /\ InSelect
    /\ chan[owner.lease] \in {"result", "superseded"}
    /\ owner' = [owner EXCEPT !.phase = "committing", !.result = Received(owner.lease)]
    /\ UNCHANGED <<storeVars, serviceVars, cancelled, pending, chan, handler, client,
                   workerVars, boundVars>>

OwnerChannelClosed ==
    /\ InSelect
    /\ chan[owner.lease] = "closed"
    /\ ForgetLease
    /\ \/ cancelled /\ OwnerEnds("cancelled")
       \/ ~cancelled /\ OwnerRetries(owner.attempt + 1)
    /\ UNCHANGED <<storeVars, serviceVars, cancelled, chan, handler, client,
                   workerVars, boundVars>>

\* Mutant: the pending entry of a failed dispatch is left behind.
OwnerDispatchErrorMutant ==
    /\ owner.phase = "dispatching"
    /\ OwnerRetries(owner.attempt + 1)
    /\ UNCHANGED <<storeVars, serviceVars, cancelled, pending, chan, handler, client,
                   workerVars, boundVars>>

\* The stream breaks, wherever the worker is by then: the next attempt.
OwnerDispatchError ==
    /\ owner.phase = "dispatching"
    /\ ForgetLease
    /\ OwnerRetries(owner.attempt + 1)
    /\ UNCHANGED <<storeVars, serviceVars, cancelled, chan, handler, client,
                   workerVars, boundVars>>

\* The worker ran the episode and reports a failure that a retry cannot mend.
OwnerDispatchFatal ==
    /\ owner.phase = "dispatching"
    /\ worker[owner.lease] = "failed"
    /\ ForgetLease
    /\ OwnerEnds("failed")
    /\ UNCHANGED <<storeVars, serviceVars, cancelled, chan, handler, client,
                   workerVars, boundVars>>

\* The worker has no free slot: once more under the same attempt.
OwnerSlotFull ==
    /\ owner.phase = "dispatching"
    /\ worker[owner.lease] = "none"
    /\ worker' = [worker EXCEPT ![owner.lease] = "ended"]
    /\ ForgetLease
    /\ OwnerRetries(owner.attempt)
    /\ UNCHANGED <<storeVars, serviceVars, cancelled, chan, handler, client,
                   wal, dropped, boundVars>>

\* The stream ends without an error.
OwnerDispatchDone ==
    /\ owner.phase = "dispatching"
    /\ worker[owner.lease] \in {"finished", "logged", "ended"}
    /\ OwnerTo("waiting")
    /\ UNCHANGED <<storeVars, serviceVars, cancelled, pending, chan, handler, client,
                   workerVars, boundVars>>

\* Mutant: a commit that is refused is taken for done.
CommitOutcomeMutant(next) ==
    /\ owner' = [owner EXCEPT !.phase = next]
    /\ terminal' = IF Commits(owner.result) THEN owner.result ELSE terminal
    /\ UNCHANGED serviceVars

\* commit_terminal and what its caller makes of the reply.
CommitOutcome(next) ==
    \/ /\ Commits(owner.result)
       /\ terminal' = owner.result
       /\ owner' = [owner EXCEPT !.phase = next]
       /\ UNCHANGED serviceVars
    \/ /\ ~Commits(owner.result)
       /\ owner' = [owner EXCEPT !.phase = next, !.result = NoResult]
       /\ Unhealthy
       /\ UNCHANGED terminal

OwnerCommit ==
    /\ owner.phase = "committing"
    /\ CommitOutcome("committed")
    /\ UNCHANGED <<created, dispatch, idem, cancelled, pending, chan, handler, client,
                   workerVars, boundVars>>

\* The calls attached to an entry return what it is finished with.
AnswerWaiting(r) ==
    client' = [c \in Clients |->
                 IF client[c].phase # "waiting" THEN client[c]
                 ELSE [phase |-> "idle", result |-> r]]

\* finish, then remove_if_same.
OwnerFinish ==
    /\ owner.phase = "committed"
    /\ AnswerWaiting(owner.result)
    /\ owner' = NoOwner
    /\ cancelled' = FALSE
    /\ UNCHANGED <<storeVars, serviceVars, pending, chan, handler, workerVars, boundVars>>

-----------------------------------------------------------------------------
(***************************************************************************)
(* Crash, restart, and the wait that recover_native_wait rebuilds.         *)
(***************************************************************************)
Crash ==
    /\ up
    /\ crashes < MaxCrashes
    /\ crashes' = crashes + 1
    /\ up' = FALSE
    /\ owner' = NoOwner
    /\ pending' = {}
    /\ chan' = [l \in Leases |-> "closed"]
    /\ handler' = [h \in Handlers |-> IdleHandler]
    /\ client' = [c \in Clients |->
                    IF client[c].phase = "idle" THEN client[c]
                    ELSE [phase |-> "idle", result |-> NoResult]]
    /\ cancelled' = FALSE
    /\ UNCHANGED <<storeVars, ready, healthy, workerVars, issued, faults>>

\* load_latest_dispatch: the highest attempt, and its latest lease.
LatestDispatch(l) ==
    /\ dispatch[l] > 0
    /\ \A k \in Leases : dispatch[k] < dispatch[l] \/ (dispatch[k] = dispatch[l] /\ k <= l)

\* Mutant: the wait is rebuilt for the attempt_id of the stored request.
RecoveredOwnerMutant(l) ==
    [phase |-> "recovered", attempt |-> 1, lease |-> l, result |-> NoResult]

RecoveredOwner(l) ==
    [phase |-> "recovered", attempt |-> dispatch[l], lease |-> l, result |-> NoResult]

\* recover_state: an unfinished episode is scheduled anew if it was never
\* dispatched, else its latest dispatch is waited for.
Restart ==
    /\ ~up
    /\ up' = TRUE /\ ready' = TRUE /\ healthy' = TRUE
    /\ \/ /\ ~created \/ terminal # NoResult
          /\ UNCHANGED <<owner, pending, chan>>
       \/ /\ created /\ terminal = NoResult
          /\ \A l \in Leases : dispatch[l] = 0
          /\ owner' = FreshOwner
          /\ UNCHANGED <<pending, chan>>
       \/ /\ created /\ terminal = NoResult
          /\ \E l \in Leases :
                /\ LatestDispatch(l)
                /\ owner' = RecoveredOwner(l)
                /\ pending' = {l}
                /\ chan' = [chan EXCEPT ![l] = "open"]
    /\ UNCHANGED <<storeVars, cancelled, handler, client, workerVars, boundVars>>

\* The channel delivers: the result is passed on, nothing is committed.
RecoveredReceives ==
    /\ owner.phase = "recovered"
    /\ chan[owner.lease] \in {"result", "superseded"}
    /\ owner' = [owner EXCEPT !.phase = "recoveredEnd", !.result = Received(owner.lease)]
    /\ UNCHANGED <<storeVars, serviceVars, cancelled, pending, chan, handler, client,
                   workerVars, boundVars>>

\* The channel is closed: taken for an error of the store.
RecoveredClosed ==
    /\ owner.phase = "recovered"
    /\ chan[owner.lease] = "closed"
    /\ OwnerTo("recoveredEnd")
    /\ ready' = FALSE
    /\ UNCHANGED <<storeVars, up, healthy, cancelled, pending, chan, handler, client,
                   workerVars, boundVars>>

\* The deadline: the timeout is committed while the entry is still pending.
RecoveredDeadline ==
    /\ owner.phase = "recovered"
    /\ owner' = [owner EXCEPT !.phase = "recoveredCommit", !.result = ServerResult("timeout")]
    /\ UNCHANGED <<storeVars, serviceVars, cancelled, pending, chan, handler, client,
                   workerVars, boundVars>>

RecoveredCommit ==
    /\ owner.phase = "recoveredCommit"
    /\ CommitOutcome("recoveredEnd")
    /\ UNCHANGED <<created, dispatch, idem, cancelled, pending, chan, handler, client,
                   workerVars, boundVars>>

RecoveredFinish ==
    /\ owner.phase = "recoveredEnd"
    /\ AnswerWaiting(owner.result)
    /\ ForgetLease
    /\ owner' = NoOwner
    /\ UNCHANGED <<storeVars, serviceVars, cancelled, chan, handler, workerVars, boundVars>>

-----------------------------------------------------------------------------
(***************************************************************************)
(* CancelEpisode and superseding, from other tasks of the server.          *)
(***************************************************************************)

\* The token of the listed handle is set and the pending entries are removed,
\* which closes their channels.
CancelEpisode ==
    /\ up
    /\ owner.phase \in Executing \union Recovering \/ pending # {}
    /\ cancelled' = (cancelled \/ owner.phase \in Executing)
    /\ pending' = {}
    /\ chan' = [l \in Leases |->
                  IF l \in pending /\ chan[l] = "open" THEN "closed" ELSE chan[l]]
    /\ UNCHANGED <<storeVars, serviceVars, owner, handler, client, workerVars, boundVars>>

\* Another id registered at the endpoint of the worker of lease l.
Supersede(l) ==
    /\ up
    /\ l \in pending
    /\ SupersedesRecovered \/ owner.phase \notin Recovering
    /\ pending' = pending \ {l}
    /\ chan' = [chan EXCEPT ![l] = "superseded"]
    /\ UNCHANGED <<storeVars, serviceVars, owner, cancelled, handler, client,
                   workerVars, boundVars>>

-----------------------------------------------------------------------------
(***************************************************************************)
(* ReportResult, and what the worker does with the reply.                  *)
(***************************************************************************)
SetHandler(h, p) == handler' = [handler EXCEPT ![h].phase = p]
HandlerEnds(h) == handler' = [handler EXCEPT ![h] = IdleHandler]

\* The reply arrives and the worker deletes its log record, or it is lost.
Reply(l, why) ==
    \/ /\ wal' = wal \ {l}
       /\ dropped' = [dropped EXCEPT ![l] = IF @ = "no" THEN why ELSE @]
    \/ UNCHANGED <<wal, dropped>>

\* The direct call after the log is written, or the replay loop.
ReportBegin(h, l) ==
    /\ up
    /\ handler[h].phase = "idle"
    /\ l \in wal
    /\ handler' = [handler EXCEPT ![h] = [phase |-> "check", lease |-> l]]
    /\ UNCHANGED <<storeVars, serviceVars, waitVars, client, workerVars, boundVars>>

\* check_idempotency: a report that is already recorded is acknowledged.
ReportCheck(h) ==
    /\ handler[h].phase = "check"
    /\ \/ /\ healthy /\ handler[h].lease \in idem
          /\ HandlerEnds(h)
          /\ Reply(handler[h].lease, "ack")
          /\ UNCHANGED serviceVars
       \/ /\ healthy /\ handler[h].lease \notin idem
          /\ SetHandler(h, "remove")
          /\ UNCHANGED <<serviceVars, wal, dropped>>
       \/ /\ ~healthy
          /\ HandlerEnds(h)
          /\ Unhealthy
          /\ UNCHANGED <<wal, dropped>>
    /\ UNCHANGED <<storeVars, waitVars, client, worker, boundVars>>

\* remove_if on pending_results.
ReportRemove(h) ==
    /\ handler[h].phase = "remove"
    /\ \/ /\ handler[h].lease \in pending
          /\ pending' = pending \ {handler[h].lease}
          /\ SetHandler(h, "commit")
       \/ /\ handler[h].lease \notin pending
          /\ SetHandler(h, "lookup")
          /\ UNCHANGED pending
    /\ UNCHANGED <<storeVars, serviceVars, owner, cancelled, chan, client, workerVars,
                   boundVars>>

\* Mutant: what is not pending is taken for recorded and acknowledged.
ReportAbsentMutant(h) ==
    /\ handler[h].phase = "lookup"
    /\ HandlerEnds(h)
    /\ Reply(handler[h].lease, "ack")
    /\ UNCHANGED <<storeVars, serviceVars, waitVars, client, worker, boundVars>>

\* No entry: get_terminal_outcome, and a duplicate whatever it finds.
ReportAbsent(h) ==
    /\ handler[h].phase = "lookup"
    /\ HandlerEnds(h)
    /\ \/ /\ healthy
          /\ Reply(handler[h].lease, "duplicate")
          /\ UNCHANGED serviceVars
       \/ /\ ~healthy
          /\ Unhealthy
          /\ UNCHANGED <<wal, dropped>>
    /\ UNCHANGED <<storeVars, waitVars, client, worker, boundVars>>

\* commit_report_result: the result and the record that it was accepted, in
\* one transaction.  A refused commit puts the entry back.
ReportCommit(h) ==
    /\ handler[h].phase = "commit"
    /\ LET l == handler[h].lease IN
       \/ /\ Commits(WorkerResult(l))
          /\ terminal' = WorkerResult(l)
          /\ idem' = idem \union {l}
          /\ SetHandler(h, "send")
          /\ UNCHANGED <<serviceVars, pending>>
       \/ /\ ~Commits(WorkerResult(l))
          /\ pending' = pending \union {l}
          /\ HandlerEnds(h)
          /\ Unhealthy
          /\ UNCHANGED <<terminal, idem>>
    /\ UNCHANGED <<created, dispatch, owner, cancelled, chan, client, workerVars, boundVars>>

\* The result is sent to the waiting task and the worker is told.
ReportSend(h) ==
    /\ handler[h].phase = "send"
    /\ HandlerEnds(h)
    /\ chan' = [chan EXCEPT ![handler[h].lease] = "result"]
    /\ Reply(handler[h].lease, "ack")
    /\ UNCHANGED <<storeVars, serviceVars, owner, cancelled, pending, client, worker,
                   boundVars>>

\* The connection breaks and the handler is dropped at its await.  The entry
\* it took out is dropped with it, which closes the channel; a commit it has
\* already sent to the store is still run.
ReportAborted(h) ==
    /\ handler[h].phase \in {"check", "remove", "lookup", "commit", "send"}
    /\ \/ HandlerEnds(h)
       \/ handler[h].phase = "commit" /\ SetHandler(h, "orphan")
    /\ chan' = IF handler[h].phase \in {"commit", "send"}
               THEN [chan EXCEPT ![handler[h].lease] = "closed"] ELSE chan
    /\ UNCHANGED <<storeVars, serviceVars, owner, cancelled, pending, client, workerVars,
                   boundVars>>

OrphanCommit(h) ==
    /\ handler[h].phase = "orphan"
    /\ HandlerEnds(h)
    /\ LET l == handler[h].lease IN
       \/ /\ Commits(WorkerResult(l))
          /\ terminal' = WorkerResult(l)
          /\ idem' = idem \union {l}
          /\ UNCHANGED healthy
       \/ /\ ~Commits(WorkerResult(l))
          /\ healthy' = FALSE
          /\ UNCHANGED <<terminal, idem>>
    /\ UNCHANGED <<created, dispatch, up, ready, waitVars, client, workerVars, boundVars>>

-----------------------------------------------------------------------------
(***************************************************************************)
(* The worker of a lease.                                                  *)
(***************************************************************************)
WorkerTo(l, from, to) ==
    /\ worker[l] \in from
    /\ worker' = [worker EXCEPT ![l] = to]

\* The dispatch reaches it, possibly after the server has given up on it.
WorkerStart(l) ==
    /\ dispatch[l] > 0
    /\ WorkerTo(l, {"none"}, "running")
    /\ UNCHANGED <<storeVars, serviceVars, waitVars, handler, client, wal, dropped, boundVars>>

\* The execution ends well: the stream is closed before the log is written.
WorkerFinish(l) ==
    /\ WorkerTo(l, {"running"}, "finished")
    /\ UNCHANGED <<storeVars, serviceVars, waitVars, handler, client, wal, dropped, boundVars>>

\* persist_pending.
WorkerLog(l) ==
    /\ WorkerTo(l, {"finished"}, "logged")
    /\ wal' = wal \union {l}
    /\ UNCHANGED <<storeVars, serviceVars, waitVars, handler, client, dropped, boundVars>>

\* Failure, time-out or cancellation: an error on the stream, nothing logged.
WorkerFail(l) ==
    /\ WorkerTo(l, {"running"}, "failed")
    /\ UNCHANGED <<storeVars, serviceVars, waitVars, handler, client, wal, dropped, boundVars>>

\* The worker dies before the result is in its log, its log cannot be
\* written, or it ignores a dispatch it has completed before.
WorkerLost(l) ==
    /\ dispatch[l] > 0
    /\ WorkerTo(l, {"none", "running", "finished"}, "ended")
    /\ UNCHANGED <<storeVars, serviceVars, waitVars, handler, client, wal, dropped, boundVars>>

-----------------------------------------------------------------------------
OwnerNext ==
    \/ OwnerAdmitted
    \/ OwnerGivesUp
    \/ OwnerReserve
    \/ PutDispatchIntent
    \/ OwnerDeadline
    \/ OwnerSeesCancel
    \/ OwnerCancelNotified
    \/ OwnerReceives
    \/ OwnerChannelClosed
    \/ OwnerDispatchError
    \/ OwnerDispatchFatal
    \/ OwnerSlotFull
    \/ OwnerDispatchDone
    \/ OwnerCommit
    \/ OwnerFinish
    \/ RecoveredReceives
    \/ RecoveredClosed
    \/ RecoveredDeadline
    \/ RecoveredCommit
    \/ RecoveredFinish

ClientNext ==
    \E c \in Clients :
        \/ ClientLookup(c)
        \/ ClientRefused(c)
        \/ ClientAttach(c)
        \/ ClientGone(c)

ReportNext ==
    \E h \in Handlers :
        \/ \E l \in Leases : ReportBegin(h, l)
        \/ ReportCheck(h)
        \/ ReportRemove(h)
        \/ ReportAbsent(h)
        \/ ReportCommit(h)
        \/ ReportSend(h)
        \/ ReportAborted(h)
        \/ OrphanCommit(h)

WorkerNext ==
    \E l \in Leases :
        \/ WorkerStart(l)
        \/ WorkerFinish(l)
        \/ WorkerLog(l)
        \/ WorkerFail(l)
        \/ WorkerLost(l)
        \/ Supersede(l)

Next ==
    \/ ClientNext
    \/ OwnerNext
    \/ ReportNext
    \/ WorkerNext
    \/ CancelEpisode
    \/ StorageFault
    \/ Crash
    \/ Restart

Spec == Init /\ [][Next]_episodeVars

(***************************************************************************)
(* Fairness: the owner task is a spawned tokio task whose every wait is    *)
(* bounded by the episode's deadline, so while the server runs it keeps    *)
(* taking steps; a submit_episode call that has looked the episode up goes *)
(* on to attach.  Nothing is assumed of the workers, of the connections or *)
(* of a server that is down.                                               *)
(***************************************************************************)
Fairness ==
    /\ WF_episodeVars(OwnerNext)
    /\ \A c \in Clients : WF_episodeVars(ClientAttach(c))

FairSpec == Spec /\ Fairness

-----------------------------------------------------------------------------
(***************************************************************************)
(* Properties.                                                             *)
(***************************************************************************)

\* A client's answer: the result its latest call returned.
Outcome ==
    INSTANCE EpisodeOutcome
        WITH outcome <- terminal,
             answer <- [c \in Clients |-> client[c].result],
             accepted <- {l \in Leases : dropped[l] = "ack"}

\* The whole path implements EpisodeOutcome: commit races, retries, dropped
\* handlers, cancellation and restarts included, all answers given to clients
\* are the one durable result, and a worker is told that its result was
\* accepted only when that result is it.
ImplementsEpisodeOutcome == Outcome!OutcomeSpec

\* A report that report_idempotency records is the durable outcome; so at most
\* one lease is ever accepted, and a worker that was told so and deleted its
\* log lost nothing.
AcceptedIsDurable ==
    /\ \A l \in idem : terminal = WorkerResult(l)
    /\ \A l \in Leases : dropped[l] = "ack" => l \in idem

\* Phases in which the owner task has an entry in pending_results to look
\* after.
Awaiting == {"intent", "dispatching", "waiting", "cancelling"} \union Recovering

\* As long as the store works, pending_results holds no entry but the one of
\* the lease the owner task is on: none is left behind by a retry, a deadline,
\* a cancellation or a report, so a late report never finds a lease that was
\* given up.
PendingIsAwaited ==
    healthy => \A l \in pending : owner.phase \in Awaiting /\ owner.lease = l

\* The wait that recovery rebuilds is for the latest lease of the highest
\* attempt that was dispatched, and stays so: while it lasts nothing is
\* dispatched for the episode, so the report the worker replays is the one
\* that is waited for.
RecoveryWaitsForLatest ==
    owner.phase \in Recovering =>
        /\ dispatch[owner.lease] = owner.attempt
        /\ \A l \in Leases : dispatch[l] = owner.attempt => l <= owner.lease
        /\ \A l \in Leases : dispatch[l] <= owner.attempt

\* Every call attached to an entry returns, whatever the worker does, as long
\* as the server runs or restarts.
AttachedReturns ==
    \A c \in Clients : client[c].phase # "idle" ~> client[c].phase = "idle"

-----------------------------------------------------------------------------
(***************************************************************************)
(* What the repository's documents and comments say and the code does not  *)
(* do; each is checked by a run that is expected to violate it.            *)
(***************************************************************************)

\* The store turns unhealthy when a storage limit is exceeded, not because the
\* deadline or a cancellation came while the owner's result was being accepted.
HealthyWhenAccepted == faults = 0 /\ owner.lease \in idem => healthy

\* A result becomes the outcome only under the lease the episode is on, not
\* under one that was given up for a retry.
OldLeaseNeverDecides ==
    [][\A l \in Leases : terminal = NoResult /\ terminal' = WorkerResult(l)
                            => owner.lease = l]_episodeVars

\* A result in a worker's log that the server still waits for is not deleted
\* before it is durable.
LogKeptUntilDurable ==
    \A l \in pending :
        owner.lease = l /\ InSelect /\ ~cancelled /\ dropped[l] # "no" => terminal # NoResult

\* No worker is called once the episode has a durable outcome.
NoDispatchAfterTerminal ==
    [][terminal # NoResult => dispatch' = dispatch]_episodeVars

\* What a client is answered with is durable, after a restart too.
AnswerIsDurable == \A c \in Clients : client[c].result \in {NoResult, terminal}

\* A call with the same request that finds the episode active can attach to
\* the owner of it.
SameRequestAttaches ==
    \A c \in Clients : client[c].phase = "looked" /\ owner.phase # "none" => SameChecksum

=============================================================================
