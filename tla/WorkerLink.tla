----------------------------- MODULE WorkerLink -----------------------------
(***************************************************************************)
(* The worker's side of the control plane: it registers, sends heartbeats, *)
(* registers again when the server has lost it or has been restarted, and  *)
(* reports results, directly and from the log on its disk until the server *)
(* has taken or refused each for good.                                     *)
(*                                                                         *)
(* The server is what these calls meet: the records of its scheduler, its  *)
(* epoch, and the leases it has given, of which the store keeps the        *)
(* dispatch over a restart.  One worker at one endpoint; its id is         *)
(* configured (1) or left to the server (0, "auto").                       *)
(***************************************************************************)
EXTENDS Integers, FiniteSets

CONSTANTS
    Results,        \* the episodes the server dispatches
    Fixed,          \* whether the worker's id is configured
    Degraded,       \* UENV_WORKER_ALLOW_DEGRADED_START
    MaxAttempts,    \* UENV_WORKER_REGISTER_MAX_ATTEMPTS
    MaxFaults       \* faults that are explored: stops of the server, crashes of the
                    \* worker, calls and answers that get lost, records damaged on the disk

VARIABLES
    sched,          \* the server: [up, epoch, info, fresh, marked]
    lease,          \* lease[r]: [at, id, epoch, held]
    worker,         \* the worker: [phase, id, epoch, connected]
    reg,            \* the registration under way: [at, id, load, attempt, epoch]
    beat,           \* the heartbeat loop: [at, id, epoch, load, ok, answer]
    late,           \* registrations the worker has given up and the server has not seen
    work,           \* work[r]: "none", "runs", "direct", "over"
    wal,            \* the log: [pending, bad, quarantine]
    replay,         \* the replay loop: the snapshot it works on
    calls,          \* calls[r][c]: the report of r by c ("direct", "replay")
    faults          \* faults so far

linkVars == <<sched, lease, worker, reg, beat, late, work, wal, replay, calls, faults>>

NoCall == [at |-> "none", id |-> 0, epoch |-> 0]
ConfiguredId == IF Fixed THEN 1 ELSE 0
Unregistered == [at |-> "none", id |-> 0, load |-> 0, attempt |-> 0, epoch |-> 0]
Asleep == [at |-> "asleep", id |-> 0, epoch |-> 0, load |-> 0, ok |-> FALSE, answer |-> 0]

LInit ==
    /\ sched = [up |-> TRUE, epoch |-> 1, info |-> <<>>, fresh |-> 2, marked |-> FALSE]
    /\ lease = [r \in Results |-> [at |-> "new", id |-> 0, epoch |-> 0, held |-> FALSE]]
    /\ worker = [phase |-> "down", id |-> ConfiguredId, epoch |-> 0, connected |-> FALSE]
    /\ reg = Unregistered /\ beat = Asleep /\ late = {}
    /\ work = [r \in Results |-> "none"]
    /\ wal = [pending |-> {}, bad |-> {}, quarantine |-> {}]
    /\ replay = {}
    /\ calls = [r \in Results |-> [c \in {"direct", "replay"} |-> NoCall]]
    /\ faults = 0

-----------------------------------------------------------------------------
(* The server.                                                             *)

Fault == faults < MaxFaults /\ faults' = faults + 1

Effective(i) == IF i.reserved >= i.reported THEN i.reserved ELSE i.reported
Without(f, S) == [x \in DOMAIN f \ S |-> f[x]]
With(f, x, v) == [y \in DOMAIN f \union {x} |-> IF y = x THEN v ELSE f[y]]
MarkDraining(info, S) == [x \in DOMAIN info |-> IF x \in S THEN [info[x] EXCEPT !.draining = TRUE] ELSE info[x]]

\* RegisterWorker: an id without load gets a new record, and the other ids at
\* the endpoint are superseded; an id with load is refused and drained.
register_worker(id, load) ==
    LET me == IF id = 0 THEN sched.fresh ELSE id
        busy == {x \in DOMAIN sched.info : Effective(sched.info[x]) > 0}
        others == {x \in DOMAIN sched.info : x # me}
        rec == [reserved |-> 0, reported |-> load, draining |-> FALSE]
    IN  IF me \in busy
        THEN [id |-> me, accepted |-> FALSE,
              sched |-> [sched EXCEPT !.info = MarkDraining(@, {me}), !.marked = TRUE]]
        ELSE [id |-> me, accepted |-> TRUE,
              sched |-> [sched EXCEPT
                  !.info = With(MarkDraining(Without(@, others \ busy), others), me, rec),
                  !.marked = @ \/ others \intersect busy # {},
                  !.fresh = IF id = 0 THEN @ + 1 ELSE @]]

\* The reservation is given back; a draining record without load is removed.
Released(s, r) ==
    LET id == lease[r].id
        rec == [s.info[id] EXCEPT !.reserved = @ - 1]
    IN  IF ~lease[r].held \/ id \notin DOMAIN s.info THEN s
        ELSE IF rec.draining /\ Effective(rec) = 0 THEN [s EXCEPT !.info = Without(@, {id})]
        ELSE [s EXCEPT !.info = With(@, id, rec)]

End(r) ==
    /\ lease' = [lease EXCEPT ![r].at = "ended", ![r].held = FALSE]
    /\ sched' = Released(sched, r)

\* The deadline of the episode.
Deadline(r) ==
    /\ sched.up /\ lease[r].at = "open"
    /\ End(r)
    /\ UNCHANGED <<worker, reg, beat, late, work, wal, replay, calls, faults>>

\* A restart keeps the dispatches of the store and nothing of the scheduler.
ServerStops ==
    /\ sched.up /\ Fault
    /\ sched' = [sched EXCEPT !.up = FALSE, !.info = <<>>]
    /\ lease' = [r \in Results |-> [lease[r] EXCEPT !.held = FALSE]]
    /\ late' = {}
    /\ UNCHANGED <<worker, reg, beat, work, wal, replay, calls>>

ServerStarts ==
    /\ ~sched.up
    /\ sched' = [sched EXCEPT !.up = TRUE, !.epoch = @ + 1]
    /\ UNCHANGED <<lease, worker, reg, beat, late, work, wal, replay, calls, faults>>

\* A call fails while the server is away, or because a message is lost.
Fails == IF sched.up THEN Fault ELSE UNCHANGED faults

-----------------------------------------------------------------------------
(* Registration: at the start, and by the heartbeat loop.                  *)

Load == Cardinality({r \in Results : work[r] = "runs"})
Attempt(n) == [Unregistered EXCEPT !.at = "call", !.attempt = n]

WorkerStarts ==
    /\ worker.phase = "down"
    /\ worker' = [worker EXCEPT !.phase = "registering", !.id = ConfiguredId, !.epoch = 0,
                                !.connected = FALSE]
    /\ reg' = Attempt(1)
    /\ UNCHANGED <<sched, lease, beat, late, work, wal, replay, calls, faults>>

RegisterSends ==
    /\ reg.at = "call"
    /\ reg' = [reg EXCEPT !.at = "sent", !.id = worker.id, !.load = Load]
    /\ UNCHANGED <<sched, lease, worker, beat, late, work, wal, replay, calls, faults>>

RegisterHandled ==
    LET done == register_worker(reg.id, reg.load)
    IN  /\ reg.at = "sent" /\ sched.up
        /\ sched' = done.sched
        /\ reg' = [reg EXCEPT !.at = IF done.accepted THEN "accepted" ELSE "refused",
                              !.id = done.id, !.epoch = sched.epoch]
        /\ UNCHANGED <<lease, worker, beat, late, work, wal, replay, calls, faults>>

\* The attempt is given up after its time-out, or its connection breaks: the
\* server may see the request all the same, later.
RegisterLost ==
    /\ reg.at \in {"sent", "accepted", "refused"}
    /\ Fails
    /\ reg' = [reg EXCEPT !.at = "error"]
    /\ \/ UNCHANGED late
       \/ sched.up /\ reg.at = "sent" /\ late' = late \union {[id |-> reg.id, load |-> reg.load]}
    /\ UNCHANGED <<sched, lease, worker, beat, work, wal, replay, calls>>

RegisterHandledLate ==
    \E m \in late :
        /\ sched.up
        /\ sched' = register_worker(m.id, m.load).sched
        /\ late' = late \ {m}
        /\ UNCHANGED <<lease, worker, reg, beat, work, wal, replay, calls, faults>>

Started == worker.phase \in {"starting", "serving"}

register_once ==
    /\ reg.at = "accepted"
    /\ worker' = [worker EXCEPT !.id = reg.id, !.epoch = reg.epoch, !.connected = TRUE,
                                !.phase = IF @ = "registering" THEN "starting" ELSE @]
    /\ reg' = Unregistered /\ beat' = Asleep
    /\ UNCHANGED <<sched, lease, late, work, wal, replay, calls, faults>>

\* register: the next attempt after a while, or the error.  At the start the
\* error ends the process, unless a degraded start is allowed.
RegisterRetries ==
    /\ reg.at \in {"refused", "error"}
    /\ IF reg.attempt < MaxAttempts
       THEN reg' = Attempt(reg.attempt + 1) /\ UNCHANGED beat
       ELSE reg' = Unregistered /\ beat' = Asleep
    /\ worker' = [worker EXCEPT !.connected = FALSE,
                     !.phase = IF reg.attempt < MaxAttempts \/ @ # "registering" THEN @
                               ELSE IF Degraded THEN "starting" ELSE "down"]
    /\ UNCHANGED <<sched, lease, late, work, wal, replay, calls, faults>>

\* The loops are spawned; the gRPC server listens once the rest is set up.
Serves ==
    /\ worker.phase = "starting"
    /\ worker' = [worker EXCEPT !.phase = "serving"]
    /\ UNCHANGED <<sched, lease, reg, beat, late, work, wal, replay, calls, faults>>

WorkerCrashes ==
    /\ worker.phase # "down" /\ Fault
    /\ worker' = [worker EXCEPT !.phase = "down", !.connected = FALSE]
    /\ reg' = Unregistered /\ beat' = Asleep /\ replay' = {}
    /\ work' = [r \in Results |-> IF work[r] = "none" THEN "none" ELSE "over"]
    /\ calls' = [r \in Results |-> [c \in {"direct", "replay"} |-> NoCall]]
    /\ UNCHANGED <<sched, lease, late, wal>>

-----------------------------------------------------------------------------
(* The heartbeat loop.                                                     *)

HeartbeatSends ==
    /\ Started /\ beat.at = "asleep"
    /\ beat' = [Asleep EXCEPT !.at = "sent", !.id = worker.id, !.epoch = worker.epoch, !.load = Load]
    /\ UNCHANGED <<sched, lease, worker, reg, late, work, wal, replay, calls, faults>>

worker_heartbeat ==
    LET known == beat.id \in DOMAIN sched.info
    IN  /\ beat.at = "sent" /\ sched.up
        /\ sched' = IF known THEN [sched EXCEPT !.info[beat.id].reported = beat.load] ELSE sched
        /\ beat' = [beat EXCEPT !.at = "answered", !.ok = known, !.answer = sched.epoch]
        /\ UNCHANGED <<lease, worker, reg, late, work, wal, replay, calls, faults>>

HeartbeatLost ==
    /\ beat.at \in {"sent", "answered"}
    /\ Fails
    /\ beat' = Asleep
    /\ worker' = [worker EXCEPT !.connected = FALSE]
    /\ UNCHANGED <<sched, lease, reg, late, work, wal, replay, calls>>

OnlyEpochMutant ==
    LET changed == beat.epoch # 0 /\ beat.answer # 0 /\ beat.epoch # beat.answer
    IN  /\ beat.at = "answered"
        /\ worker' = [worker EXCEPT !.epoch = beat.answer,
                                    !.connected = IF changed THEN @ ELSE TRUE]
        /\ IF changed
           THEN beat' = [Asleep EXCEPT !.at = "registers"] /\ reg' = Attempt(1)
           ELSE beat' = Asleep /\ UNCHANGED reg
        /\ UNCHANGED <<sched, lease, late, work, wal, replay, calls, faults>>

\* The epoch of the answer is taken over before anything else; an unknown id
\* or another epoch than before makes the loop register again.
heartbeat_once ==
    LET changed == beat.epoch # 0 /\ beat.answer # 0 /\ beat.epoch # beat.answer
    IN  /\ beat.at = "answered"
        /\ worker' = [worker EXCEPT !.epoch = beat.answer,
                                    !.connected = IF ~beat.ok THEN FALSE ELSE IF changed THEN @ ELSE TRUE]
        /\ IF ~beat.ok \/ changed
           THEN beat' = [Asleep EXCEPT !.at = "registers"] /\ reg' = Attempt(1)
           ELSE beat' = Asleep /\ UNCHANGED reg
        /\ UNCHANGED <<sched, lease, late, work, wal, replay, calls, faults>>

-----------------------------------------------------------------------------
(* Episodes and their results.                                             *)

\* The dispatch goes to the endpoint, under whichever of its ids is chosen;
\* with the default policy (queue) a worker takes it connected or not.
Dispatch(r) ==
    \E id \in DOMAIN sched.info :
        /\ sched.up /\ lease[r].at = "new"
        /\ ~sched.info[id].draining /\ Effective(sched.info[id]) < 1
        /\ worker.phase = "serving"
        /\ lease' = [lease EXCEPT ![r] = [at |-> "open", id |-> id, epoch |-> sched.epoch, held |-> TRUE]]
        /\ sched' = [sched EXCEPT !.info[id].reserved = @ + 1]
        /\ work' = [work EXCEPT ![r] = "runs"]
        /\ UNCHANGED <<worker, reg, beat, late, wal, replay, calls, faults>>

\* persist_pending: a temporary file, synced, and renamed into place.
persist_pending(r) ==
    /\ Started /\ work[r] = "runs"
    /\ work' = [work EXCEPT ![r] = "direct"]
    /\ wal' = [wal EXCEPT !.pending = @ \union {r}]
    /\ UNCHANGED <<sched, lease, worker, reg, beat, late, replay, calls, faults>>

Corrupts(r) ==
    /\ r \in wal.pending /\ r \notin wal.bad /\ Fault
    /\ wal' = [wal EXCEPT !.bad = @ \union {r}]
    /\ UNCHANGED <<sched, lease, worker, reg, beat, late, work, replay, calls>>

\* The replay loop reads the log; what cannot be read is put aside.
load_pending ==
    /\ Started /\ replay = {} /\ wal.pending # {}
    /\ \A r \in Results : calls[r]["replay"].at = "none"
    /\ replay' = wal.pending \ wal.bad
    /\ wal' = [pending |-> wal.pending \ wal.bad, bad |-> {}, quarantine |-> wal.quarantine \union wal.bad]
    /\ UNCHANGED <<sched, lease, worker, reg, beat, late, work, calls, faults>>

Sends(r, c) ==
    calls' = [calls EXCEPT ![r][c] = [at |-> "sent", id |-> worker.id, epoch |-> worker.epoch]]

DirectReport(r) ==
    /\ work[r] = "direct" /\ calls[r]["direct"].at = "none"
    /\ Sends(r, "direct")
    /\ UNCHANGED <<sched, lease, worker, reg, beat, late, work, wal, replay, faults>>

\* One record of the snapshot after the other.
ReplayReport(r) ==
    /\ r \in replay /\ \A x \in Results : calls[x]["replay"].at = "none"
    /\ Sends(r, "replay")
    /\ UNCHANGED <<sched, lease, worker, reg, beat, late, work, wal, replay, faults>>

\* ReportResult: an older epoch passes only with the dispatch of that epoch, the
\* lease has to be this worker's, and a lease that has ended is a duplicate.
report_result(r, c) ==
    LET q == calls[r][c]
        recovered == lease[r].at # "new" /\ lease[r].id = q.id /\ lease[r].epoch = q.epoch
        verdict ==
            IF q.epoch \notin {0, sched.epoch} /\ ~recovered THEN "stale"
            ELSE IF lease[r].at = "ended" THEN "duplicate"
            ELSE IF lease[r].id # q.id THEN "mismatch" ELSE "ack"
    IN  /\ q.at = "sent" /\ sched.up
        /\ IF verdict = "ack" THEN End(r) ELSE UNCHANGED <<sched, lease>>
        /\ calls' = [calls EXCEPT ![r][c].at = verdict]
        /\ UNCHANGED <<worker, reg, beat, late, work, wal, replay, faults>>

ReportLost(r, c) ==
    /\ calls[r][c].at \notin {"none", "lost"}
    /\ Fails
    /\ calls' = [calls EXCEPT ![r][c].at = "lost"]
    /\ UNCHANGED <<sched, lease, worker, reg, beat, late, work, wal, replay>>

DuplicateIsErrorMutant(v) == v = "ack"

\* An acknowledgement, or a duplicate: nothing is left to be done.
report_result_once(v) == v \in {"ack", "duplicate"}

ReportReturns(r, c) ==
    LET v == calls[r][c].at
        fine == report_result_once(v)
    IN  /\ v \notin {"none", "sent"}
        /\ calls' = [calls EXCEPT ![r][c] = NoCall]
        /\ wal' = IF fine THEN [wal EXCEPT !.pending = @ \ {r}, !.bad = @ \ {r}] ELSE wal
        /\ worker' = IF v = "ack" THEN [worker EXCEPT !.connected = TRUE]
                     ELSE IF c = "replay" /\ ~fine THEN [worker EXCEPT !.connected = FALSE]
                     ELSE worker
        /\ IF c = "direct" THEN work' = [work EXCEPT ![r] = "over"] /\ UNCHANGED replay
           ELSE replay' = replay \ {r} /\ UNCHANGED work
        /\ UNCHANGED <<sched, lease, reg, beat, late, faults>>

-----------------------------------------------------------------------------
LSteady ==
    \/ ServerStarts \/ WorkerStarts \/ RegisterSends \/ RegisterHandled \/ RegisterHandledLate
    \/ register_once \/ RegisterRetries \/ Serves
    \/ HeartbeatSends \/ worker_heartbeat \/ heartbeat_once \/ load_pending
    \/ \E r \in Results : Deadline(r) \/ persist_pending(r) \/ DirectReport(r) \/ ReplayReport(r)
    \/ \E r \in Results, c \in {"direct", "replay"} : report_result(r, c) \/ ReportReturns(r, c)

Faults ==
    \/ ServerStops \/ WorkerCrashes \/ RegisterLost \/ HeartbeatLost
    \/ \E r \in Results : Corrupts(r) \/ ReportLost(r, "direct") \/ ReportLost(r, "replay")

LNext == LSteady \/ Faults \/ \E r \in Results : Dispatch(r)

\* The tasks of the worker with the server's part of their calls: each goes on
\* while it can.
HeartbeatTask ==
    \/ RegisterSends \/ RegisterHandled \/ register_once \/ RegisterRetries
    \/ HeartbeatSends \/ worker_heartbeat \/ heartbeat_once
ReplayTask ==
    \/ load_pending
    \/ \E r \in Results : ReplayReport(r) \/ report_result(r, "replay") \/ ReportReturns(r, "replay")
DirectTask(r) == DirectReport(r) \/ report_result(r, "direct") \/ ReportReturns(r, "direct")

-----------------------------------------------------------------------------
\* The worker, known to the server under its id and its epoch.
AtHome ==
    /\ worker.phase = "serving" /\ worker.connected /\ sched.up
    /\ worker.id \in DOMAIN sched.info /\ worker.epoch = sched.epoch
    /\ ~sched.marked => ~sched.info[worker.id].draining

\* Whatever calls and answers get lost and whoever is restarted meanwhile, the
\* worker ends up connected and registered with the server that is up; it can
\* be scheduled unless the server marked one of its records as draining.
Reconnects == <>[]AtHome

\* The log is emptied: no record is reported for ever.
LogDrains == <>[](wal.pending = {})

=============================================================================
