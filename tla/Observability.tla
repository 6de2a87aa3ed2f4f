---------------------------- MODULE Observability ----------------------------
(* The event pipeline of uenv-server (obs/): the control plane puts events   *)
(* on a bounded queue that one consumer empties, trainers post theirs over   *)
(* HTTP; each event is deduplicated, merged into the state of its run under  *)
(* a lock, and appended to a store that is replayed when the server starts.  *)
(* One training run; the workers' status belongs to the "_orphan" run and is *)
(* kept here as the fleet.                                                   *)
EXTENDS Integers, Sequences, FiniteSets, SequencesExt

CONSTANTS
    OEpisodes, OWorkers,
    Posters,        \* HTTP requests handled at a time
    QueueSize,      \* cfg.queue_capacity
    MaxEmits,       \* bound: reports and snapshots of the server
    PostScripts,        \* bound: sequences of event types the trainer posts
    MaxClock,       \* bound: readings of the system's clock (now_ms)
    MaxRestarts,    \* bound: restarts
    OStatuses,      \* bound: statuses of workers that are told apart
    nobody          \* no episode, no worker

ObsConstants == QueueSize \in Nat

VARIABLES
    bus,        \* the queue of emit
    engine,     \* MergeEngine
    store,      \* accepted rows, in the order load_all_events reads them
    handler,    \* what each process_one is doing
    progress,   \* how far the server's events of an episode have got
    posted,     \* events the trainer has posted
    known,      \* what spawn_worker_status_sync has told
    count,      \* emits, ids, restarts and server sequence so far
    history     \* rows in the order they were merged, until a write fails; drops

ovars == <<bus, engine, store, handler, progress, posted, known, count, history>>

Stages == {"submit", "dispatch", "execute", "report", "done"}
Consumer == "consumer"
Trainer == <<"trainer", 0>>
Server == <<"server", count.restarts>>     \* server_source_id: the epoch is part of it
Orphan == {"WORKER_STATUS_SNAPSHOT", "WORKER_REGISTERED", "WORKER_HEARTBEAT"}

Event(type, e, w) ==
    [id |-> 0, source |-> Trainer, seq |-> 0, type |-> type, ep |-> e, w |-> w,
     status |-> "", replace |-> FALSE, seen |-> <<>>]

-----------------------------------------------------------------------------
(* The state of a run and how an event changes it (project_event).           *)

ChainEmpty ==
    [state |-> "PENDING", status |-> "pending", heart |-> "unknown",
     flow |-> [s \in Stages |-> "PENDING"], at |-> "submit",
     root |-> "PENDING", crew |-> [w \in OWorkers |-> "none"],
     node |-> [e \in OEpisodes |-> [status |-> "none", parent |-> nobody]],
     step |-> [e \in OEpisodes |-> "none"],
     view |-> [e \in OEpisodes |-> [status |-> "none", stage |-> "none", worker |-> nobody]],
     busy |-> [w \in OWorkers |-> {}],
     counted |-> [s \in Stages |-> {}]]

set_workflow_active(r, stage, s) ==
    [r EXCEPT !.flow[stage] = s, !.at = IF s = "ACTIVE" THEN stage ELSE @]

bump_workflow_stage_count(r, stage, e) == [r EXCEPT !.counted[stage] = @ \cup {e}]

upsert_tree_episode(r, ev, s) ==
    LET onTree == IF ev.w = nobody THEN r ELSE [r EXCEPT !.crew[ev.w] = "ACTIVE"]
    IN [onTree EXCEPT !.node[ev.ep] = [status |-> s, parent |-> ev.w]]

upsert_tree_step(r, ev) ==
    [upsert_tree_episode(r, ev, "ACTIVE") EXCEPT
        !.step[ev.ep] = IF ev.type = "STEP_COMPLETE" THEN "DONE" ELSE "ACTIVE"]

close_tree_steps_for_episode(r, e, s) == [r EXCEPT !.step[e] = IF @ = "ACTIVE" THEN s ELSE @]

\* An episode that is not known gets no view from a later event.
SetView(r, e, s, stage) ==
    IF r.view[e].status = "none" THEN r
    ELSE [r EXCEPT !.view[e].status = s, !.view[e].stage = stage]

Runs(state, status, heart, r, root) ==
    [r EXCEPT !.state = state, !.status = status, !.heart = heart, !.root = root]

RunStarted(r) == set_workflow_active(Runs("RUNNING", "running", "alive", r, "ACTIVE"), "submit", "ACTIVE")
RunHeartbeat(r) == IF r.state = "CLOSED" THEN r ELSE Runs("RUNNING", "running", "alive", r, "ACTIVE")
RunStopped(r) == Runs("STOPPING", "stopping", "alive", r, "ACTIVE")
RunEnded(r, type) ==
    set_workflow_active(
        Runs("CLOSED", CASE type = "RUN_COMPLETED" -> "completed" [] type = "RUN_TERMINATED" -> "terminated"
                         [] OTHER -> "failed", "closed", r, IF type = "RUN_FAILED" THEN "FAILED" ELSE "CLOSED"),
        "done", IF type = "RUN_COMPLETED" THEN "DONE" ELSE "FAILED")

\* The close of a run takes its status from the event unless the run has a final one.
RunClosed(r, ev) ==
    set_workflow_active(
        Runs("CLOSED", IF r.status \in {"pending", "running", "stopping"}
                       THEN IF ev.status = "" THEN "completed" ELSE ev.status
                       ELSE r.status, "closed", r, "CLOSED"), "done", "DONE")

EpisodeSubmitted(r, ev) ==
    LET viewed == [r EXCEPT !.view[ev.ep] = [status |-> "ACTIVE", stage |-> "SUBMIT", worker |-> ev.w]]
        flowing == set_workflow_active(set_workflow_active(viewed, "submit", "DONE"), "dispatch", "ACTIVE")
    IN upsert_tree_episode(bump_workflow_stage_count(flowing, "submit", ev.ep), ev, "ACTIVE")

EpisodeScheduling(r, ev) ==
    LET viewed == SetView(r, ev.ep, "ACTIVE", "DISPATCH")
        flowing == set_workflow_active(set_workflow_active(viewed, "submit", "DONE"), "dispatch", "ACTIVE")
    IN upsert_tree_episode(flowing, ev, "ACTIVE")

EpisodeDispatched(r, ev) ==
    LET viewed == [SetView(r, ev.ep, "ACTIVE", "EXECUTE") EXCEPT
                      !.view[ev.ep].worker = IF r.view[ev.ep].status = "none" THEN @ ELSE ev.w,
                      !.busy[ev.w] = @ \cup {ev.ep}]
        flowing == set_workflow_active(set_workflow_active(viewed, "dispatch", "DONE"), "execute", "ACTIVE")
        counted == bump_workflow_stage_count(bump_workflow_stage_count(flowing, "dispatch", ev.ep), "execute", ev.ep)
    IN upsert_tree_episode(counted, ev, "ACTIVE")

EpisodeStep(r, ev) ==
    LET flowing == set_workflow_active(SetView(r, ev.ep, "ACTIVE", "EXECUTE"), "execute", "ACTIVE")
    IN upsert_tree_step(bump_workflow_stage_count(flowing, "execute", ev.ep), ev)

EpisodeReporting(r, ev) ==
    LET viewed == SetView(r, ev.ep, "ACTIVE", "REPORT")
        flowing == set_workflow_active(set_workflow_active(viewed, "execute", "DONE"), "report", "ACTIVE")
    IN upsert_tree_episode(flowing, ev, "ACTIVE")

\* EPISODE_CLOSED does not turn a failure into a success.
EpisodeEnded(r, ev) ==
    LET s == IF ev.type = "EPISODE_FAILED" \/ (ev.type = "EPISODE_CLOSED" /\ r.view[ev.ep].status = "FAILED")
             THEN "FAILED" ELSE "DONE"
        viewed == SetView(r, ev.ep, s, s)
        freed == IF viewed.view[ev.ep].worker = nobody THEN viewed
                 ELSE [viewed EXCEPT !.busy[viewed.view[ev.ep].worker] = @ \ {ev.ep}]
        flowing == set_workflow_active(set_workflow_active(set_workflow_active(freed, "execute", "DONE"),
                      "report", "DONE"), "done", s)
        counted == bump_workflow_stage_count(bump_workflow_stage_count(flowing, "report", ev.ep), "done", ev.ep)
    IN close_tree_steps_for_episode(upsert_tree_episode(counted, ev, s), ev.ep, s)

project_event(r, ev) ==
    CASE ev.type = "RUN_STARTED" -> RunStarted(r)
      [] ev.type = "RUN_HEARTBEAT" -> RunHeartbeat(r)
      [] ev.type = "RUN_STOPPED" -> RunStopped(r)
      [] ev.type \in {"RUN_COMPLETED", "RUN_TERMINATED", "RUN_FAILED"} -> RunEnded(r, ev.type)
      [] ev.type = "RUN_CLOSED" -> RunClosed(r, ev)
      [] ev.type = "EPISODE_SUBMITTED" -> EpisodeSubmitted(r, ev)
      [] ev.type = "EPISODE_SCHEDULING" -> EpisodeScheduling(r, ev)
      [] ev.type = "EPISODE_DISPATCHED" -> EpisodeDispatched(r, ev)
      [] ev.type \in {"STEP_STARTED", "STEP_COMPLETE"} -> EpisodeStep(r, ev)
      [] ev.type = "EPISODE_REPORTING" -> EpisodeReporting(r, ev)
      [] ev.type \in {"EPISODE_COMPLETED", "EPISODE_FAILED", "EPISODE_CLOSED"} -> EpisodeEnded(r, ev)
      [] OTHER -> r

\* The fleet: a snapshot that replaces forgets the workers it does not name;
\* a registration shows an idle worker, a heartbeat only one not yet shown.
project_worker(fleet, ev) ==
    CASE ev.type = "WORKER_STATUS_SNAPSHOT" ->
            [w \in OWorkers |-> IF w \in DOMAIN ev.seen THEN ev.seen[w]
                                ELSE IF ev.replace THEN "none" ELSE fleet[w]]
      [] ev.type = "WORKER_REGISTERED" -> [fleet EXCEPT ![ev.w] = "IDLE"]
      [] OTHER -> [fleet EXCEPT ![ev.w] = IF @ = "none" THEN "IDLE" ELSE @]

life(was, ev) ==
    CASE ev.type = "RUN_STARTED" -> [closed |-> FALSE, terminal |-> FALSE]
      [] ev.type \in {"RUN_COMPLETED", "RUN_TERMINATED", "RUN_FAILED"} -> [closed |-> TRUE, terminal |-> TRUE]
      [] ev.type = "RUN_CLOSED" -> [was EXCEPT !.closed = TRUE]
      [] OTHER -> was

-----------------------------------------------------------------------------
(* MergeEngine::apply.                                                       *)

EngineEmpty ==
    [cursor |-> <<>>, life |-> [closed |-> FALSE, terminal |-> FALSE],
     run |-> ChainEmpty, fleet |-> [w \in OWorkers |-> "none"]]

RestartsAfterEndMutant(was, ev) ==
    was.closed /\ ev.type \notin {"RUN_STARTED", "RUN_STOPPED", "RUN_CLOSED"}

\* A closed run takes only events that start, stop or close it; a run that
\* has ended only its close.
RejectedClosed(was, ev) ==
    was.closed /\ ev.type \notin IF was.terminal THEN {"RUN_CLOSED"} ELSE {"RUN_STARTED", "RUN_STOPPED", "RUN_CLOSED"}

Disposition(eng, ev) ==
    IF ev.type \notin Orphan /\ RejectedClosed(eng.life, ev) THEN "rejected_closed"
    ELSE IF ev.source \notin DOMAIN eng.cursor \/ ev.seq > eng.cursor[ev.source] THEN "accepted"
    ELSE IF ev.seq = eng.cursor[ev.source] THEN "duplicate" ELSE "seq_stale"

WithCursor(eng, ev) ==
    [eng EXCEPT !.cursor = [s \in DOMAIN @ \cup {ev.source} |-> IF s = ev.source THEN ev.seq ELSE @[s]]]

RejectedAdvancesMutant(eng, ev) ==
    CASE Disposition(eng, ev) = "accepted" ->
            IF ev.type \in Orphan THEN [WithCursor(eng, ev) EXCEPT !.fleet = project_worker(@, ev)]
            ELSE [WithCursor(eng, ev) EXCEPT !.run = project_event(@, ev), !.life = life(@, ev)]
      [] Disposition(eng, ev) = "rejected_closed" -> WithCursor(eng, ev)
      [] OTHER -> eng

apply(eng, ev) ==
    IF Disposition(eng, ev) # "accepted" THEN eng
    ELSE IF ev.type \in Orphan THEN [WithCursor(eng, ev) EXCEPT !.fleet = project_worker(@, ev)]
    ELSE [WithCursor(eng, ev) EXCEPT !.run = project_event(@, ev), !.life = life(@, ev)]

\* Rows are read by their ingest times, those of one time by their sequence
\* numbers, whatever source gave them; two that are alike in both in any order.
Precedes(a, b) == a.ts < b.ts \/ (a.ts = b.ts /\ a.ev.seq < b.ev.seq)

\* The orders in which rows with one more will be read.
append(rows, row) ==
    {InsertAt(rows, i, row) : i \in {k \in 1 .. Len(rows) + 1 :
        /\ \A j \in 1 .. k - 1 : ~Precedes(row, rows[j])
        /\ \A j \in k .. Len(rows) : ~Precedes(rows[j], row)}}

\* The rows merged again, in that order.
Replay(rows) ==
    LET merged[n \in 0 .. Len(rows)] ==
            IF n = 0 THEN EngineEmpty ELSE apply(merged[n - 1], rows[n].ev)
    IN  merged[Len(rows)]

-----------------------------------------------------------------------------
(* process_one, in three steps: look the id up and read the clock; merge     *)
(* under the lock; append and answer.                                        *)

NoHandling == [at |-> "idle", ev |-> Event("", nobody, nobody), ts |-> 0]
Stored(ev) == \E i \in DOMAIN store : store[i].ev.id = ev.id

\* The clock is the system's: it repeats itself within a millisecond, and may
\* be set back.
Begin(h, ev) ==
    IF Stored(ev) THEN handler' = [handler EXCEPT ![h] = NoHandling]
    ELSE \E now \in 1 .. MaxClock : handler' = [handler EXCEPT ![h] = [at |-> "apply", ev |-> ev, ts |-> now]]

\* The consumer gives events of this server a sequence number of its own.
Consume ==
    /\ handler[Consumer].at = "idle" /\ bus # <<>>
    /\ bus' = Tail(bus)
    /\ Begin(Consumer, [Head(bus) EXCEPT !.seq = count.seq + 1])
    /\ count' = [count EXCEPT !.seq = @ + 1]
    /\ UNCHANGED <<engine, store, progress, posted, known, history>>

\* What a trainer says of its run is up to it; RUN_CLOSED may carry a status.
TrainerEvent(t) ==
    IF t = "RUN_CLOSED_FAILED" THEN [Event("RUN_CLOSED", nobody, nobody) EXCEPT !.status = "failed"]
    ELSE Event(t, nobody, nobody)
Said(ev) == IF ev.status = "" THEN ev.type ELSE "RUN_CLOSED_FAILED"
NextOf(said) ==
    {s[Len(said) + 1] : s \in {t \in PostScripts : Len(t) > Len(said) /\ \A i \in DOMAIN said : t[i] = Said(said[i])}}

\* post_event: a new event of the trainer, or one it posts again.
post_event(h) ==
    /\ handler[h].at = "idle"
    /\ \/ /\ \E t \in NextOf(posted) :
               LET ev == [TrainerEvent(t) EXCEPT !.id = count.ids + 1, !.seq = Len(posted) + 1] IN
               /\ posted' = Append(posted, ev)
               /\ Begin(h, ev)
          /\ count' = [count EXCEPT !.ids = @ + 1]
       \/ /\ \E i \in DOMAIN posted : Begin(h, posted[i]) /\ ~Stored(posted[i])
          /\ UNCHANGED <<posted, count>>
    /\ UNCHANGED <<bus, engine, store, progress, known, history>>

RowOf(h) == [ev |-> handler[h].ev, ts |-> handler[h].ts]

Merge(h) ==
    /\ handler[h].at = "apply"
    /\ LET ev == handler[h].ev
           fate == Disposition(engine, ev) IN
       /\ engine' = apply(engine, ev)
       /\ handler' = [handler EXCEPT ![h] = IF fate = "accepted" THEN [@ EXCEPT !.at = "append"] ELSE NoHandling]
       /\ history' = IF fate = "accepted" /\ ~history.failed THEN [history EXCEPT !.merged = Append(@, RowOf(h))] ELSE history
    /\ UNCHANGED <<bus, store, progress, posted, known, count>>

\* The row is written, or the write fails and the caller gets the error.
AppendRow(h) ==
    /\ handler[h].at = "append"
    /\ handler' = [handler EXCEPT ![h] = NoHandling]
    /\ \/ store' \in append(store, RowOf(h)) /\ UNCHANGED history
       \/ history' = [history EXCEPT !.failed = TRUE, !.merged = <<>>] /\ UNCHANGED store
    /\ UNCHANGED <<bus, engine, progress, posted, known, count>>

-----------------------------------------------------------------------------
(* The server's own events: emit drops what does not fit.                    *)

emit(evs) ==
    LET room == QueueSize - Len(bus)
        taken == SubSeq(evs, 1, IF Len(evs) < room THEN Len(evs) ELSE room)
    IN /\ bus' = bus \o [i \in DOMAIN taken |->
                    [taken[i] EXCEPT !.id = count.ids + i, !.source = Server]]
       /\ history' = [history EXCEPT !.dropped = @ \/ Len(taken) < Len(evs)]
       /\ count' = [count EXCEPT !.ids = @ + Len(evs), !.emits = @ + 1]

\* The events of an episode (project.rs); steps come from the worker's reports.
episode_submitted(e) == <<Event("EPISODE_SUBMITTED", e, nobody)>>
episode_scheduling(e) == <<Event("EPISODE_SCHEDULING", e, nobody)>>
episode_dispatched(e, w) == <<Event("EPISODE_DISPATCHED", e, w)>>
from_stream_report(e, w) == {<<Event(t, e, w)>> : t \in {"STEP_STARTED", "STEP_COMPLETE"}}
episode_reporting(e) == <<Event("EPISODE_REPORTING", e, nobody)>>
episode_terminal(e, t) == <<Event(t, e, nobody), Event("EPISODE_CLOSED", e, nobody)>>
attempt_closed(e) == <<Event("ATTEMPT_CLOSED", e, nobody)>>

\* What the episode service reports of an episode, in the order it does.
Reports(from, e, w) ==
    CASE from = "new" -> {<<"submitted", episode_submitted(e)>>}
      [] from = "submitted" -> {<<"scheduling", episode_scheduling(e)>>}
      [] from = "scheduling" -> {<<"dispatched", episode_dispatched(e, w)>>}
      [] from = "dispatched" ->
            {<<"dispatched", step>> : step \in from_stream_report(e, w)}
            \cup {<<"scheduling", attempt_closed(e)>>,
                  <<"ended", attempt_closed(e) \o episode_terminal(e, "EPISODE_FAILED")>>,
                  <<"reporting", episode_reporting(e)>>}
      [] from = "reporting" ->
            {<<"ended", episode_terminal(e, t)>> : t \in {"EPISODE_COMPLETED", "EPISODE_FAILED"}}
      [] OTHER -> {}

ReportEpisode(e, w) ==
    /\ count.emits < MaxEmits
    /\ \E r \in Reports(progress[e], e, w) :
         /\ progress' = [progress EXCEPT ![e] = r[1]]
         /\ emit(r[2])
    /\ UNCHANGED <<engine, store, handler, posted, known>>

\* The control plane reports registrations and heartbeats of workers.
ReportWorker(w, t) ==
    /\ count.emits < MaxEmits
    /\ emit(<<Event(t, nobody, w)>>)
    /\ UNCHANGED <<engine, store, handler, progress, posted, known>>

\* One tick of spawn_worker_status_sync over what the scheduler says of each
\* worker ("gone": it has none): what changed since the last tick,
\* workers that disappeared as offline, and on the first tick all of it.
SyncTick(sched) ==
    LET now == [w \in {v \in OWorkers : sched[v] # "gone" \/ known.told[v] # "none"} |->
                    IF sched[w] = "gone" THEN "OFFLINE" ELSE sched[w]]
        changed == {w \in DOMAIN now : now[w] # known.told[w]}
    IN /\ count.emits < MaxEmits
       /\ known.first \/ changed # {}
       /\ emit(<<[Event("WORKER_STATUS_SNAPSHOT", nobody, nobody) EXCEPT
                    !.seen = [w \in changed |-> now[w]], !.replace = known.first]>>)
       /\ known' = [first |-> FALSE, told |-> [w \in OWorkers |-> IF w \in DOMAIN now THEN now[w] ELSE known.told[w]]]
       /\ UNCHANGED <<engine, store, handler, progress, posted>>

\* A crash and the start after it (open): memory is rebuilt from the store.
Restart ==
    /\ count.restarts < MaxRestarts
    /\ count' = [count EXCEPT !.restarts = @ + 1, !.seq = 0]
    /\ bus' = <<>>
    /\ engine' = Replay(store)
    /\ handler' = [h \in DOMAIN handler |-> NoHandling]
    /\ progress' = [e \in OEpisodes |-> "ended"]
    /\ known' = [first |-> TRUE, told |-> [w \in OWorkers |-> "none"]]
    /\ history' = [merged |-> store, failed |-> FALSE, dropped |-> FALSE]
    /\ UNCHANGED <<store, posted>>

-----------------------------------------------------------------------------
\* The server is found with an episode that has come some way, all of it stored.
Before(p, e, w) ==
    LET all == episode_submitted(e) \o episode_scheduling(e) \o episode_dispatched(e, w) \o episode_reporting(e)
    IN SubSeq(all, 1, CASE p = "new" -> 0 [] p = "dispatched" -> 3 [] p = "reporting" -> 4)

OInit ==
    /\ \E p \in {"new", "dispatched", "reporting"}, e \in OEpisodes, w \in OWorkers :
         LET evs == Before(p, e, w) IN
         /\ store = [i \in DOMAIN evs |-> [ev |-> [evs[i] EXCEPT !.id = i, !.seq = i, !.source = <<"server", 0>>],
                                           ts |-> 1]]
         /\ progress = [f \in OEpisodes |-> IF f = e THEN p ELSE "new"]
         /\ count = [emits |-> 0, ids |-> Len(evs), restarts |-> 0, seq |-> Len(evs)]
    /\ bus = <<>>
    /\ engine = Replay(store)
    /\ handler = [h \in Posters \cup {Consumer} |-> NoHandling]
    /\ posted = <<>>
    /\ known = [first |-> TRUE, told |-> [w \in OWorkers |-> "none"]]
    /\ history = [merged |-> store, failed |-> FALSE, dropped |-> FALSE]

ONext ==
    \/ Consume \/ Restart
    \/ \E sched \in [OWorkers -> OStatuses \cup {"gone"}] : SyncTick(sched)
    \/ \E h \in Posters : post_event(h)
    \/ \E h \in DOMAIN handler : Merge(h) \/ AppendRow(h)
    \/ \E w \in OWorkers :
         \/ \E e \in OEpisodes : ReportEpisode(e, w)
         \/ \E t \in {"WORKER_REGISTERED", "WORKER_HEARTBEAT"} : ReportWorker(w, t)

OSpec == OInit /\ [][ONext]_ovars

-----------------------------------------------------------------------------
\* The rows at I are merged as they will be read; those of the trainer.
MergedAsRead(rows, I) == \A i, j \in I : i < j => Precedes(rows[i], rows[j])
OfTrainer(rows) == {i \in DOMAIN rows : rows[i].ev.source = Trainer}

\* What the trainer's events decide: whether the run has ended and how.
Outcome(eng) ==
    [life |-> eng.life, state |-> eng.run.state, status |-> eng.run.status,
     cursor |-> {eng.cursor[s] : s \in DOMAIN eng.cursor \cap {Trainer}}]

\* A restart changes nothing a reader can see: whenever every merged event
\* has been appended, the replay of the stored rows gives the engine that is
\* in memory, its cursors included, if the events were merged in the order in
\* which their rows are read.  They need not be: the clock is read before the
\* lock and may repeat itself, and then the sequence numbers of different
\* sources decide.  Whatever the times of the server's events, the outcome of
\* the run is the same, if the trainer's own events were merged as they are
\* read.  Left out are histories in which a write failed.
ReplayAgrees ==
    ~history.failed /\ (\A h \in DOMAIN handler : handler[h].at # "append") =>
        LET found == Replay(store) IN
        /\ MergedAsRead(history.merged, DOMAIN history.merged) => found = engine
        /\ MergedAsRead(history.merged, OfTrainer(history.merged)) => Outcome(found) = Outcome(engine)

\* The final status of a run is final: after it completed, was terminated or
\* failed, no event of the trainer or of the server, late or repeated, makes
\* it active or gives it another outcome.
FinalStatusStays ==
    [][engine.life.terminal /\ count'.restarts = count.restarts
          => engine'.life.terminal /\ engine'.run.status = engine.run.status]_ovars

=============================================================================
