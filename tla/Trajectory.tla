------------------------------ MODULE Trajectory ------------------------------
(***************************************************************************)
(* The way of a trajectory from the disk of a worker to the store of the   *)
(* server.  A worker seals a trajectory (body, then index), leaves a       *)
(* marker in its spool, and a thread uploads what has a marker, one at a   *)
(* time; after an answer of success it deletes its own copy, after         *)
(* MaxRetries failures it gives up and keeps it.  The server writes the    *)
(* body to its final path before the row of its index, under the lock of   *)
(* the connection, which reconcile and retention take as well.             *)
(*                                                                         *)
(* A trajectory id is made of the worker's id, the time and a counter of   *)
(* the process, so two workers with the same id may make the same; the     *)
(* content of a body is here the worker that wrote it.  A process may be   *)
(* killed between any two of its steps; what it wrote stays.               *)
(***************************************************************************)
EXTENDS Naturals, FiniteSets

CONSTANTS
    Sealers,        \* workers that seal trajectories
    Ids,            \* trajectory ids
    Refused,        \* <<worker, id>>: bundles the server refuses (token, size, run_id)
    MaxRetries,     \* UPLOAD_MAX_RETRIES
    MayExpire,      \* whether retention is configured
    MayLose         \* whether files of the server are lost from its disk

VARIABLES
    local,      \* disk of a worker, per id: body, index, marker, attempts
    upload,     \* step of each worker's uploader thread
    serverUp,
    requests,   \* requests that wait for the connection lock: [from, id, try]
    op,         \* what holds the lock: a set of at most one operation
    body,       \* bodies/ of the server: the contents under an id, at most one
    index,      \* rows: [sha, present], at most one per id
    old,        \* ids sealed before the cutoff of the retention
    lost        \* ids whose file disappeared from the server's disk

trajectoryVars == <<local, upload, serverUp, requests, op, body, index, old, lost>>

Idle == [at |-> "idle", id |-> "none", try |-> 0]
Unsealed == [seal |-> "no", body |-> FALSE, index |-> FALSE, marker |-> "none", attempts |-> 0]
Request(w) == [from |-> w, id |-> upload[w].id, try |-> upload[w].try]

TrajectoryInit ==
    /\ local = [w \in Sealers |-> [t \in Ids |-> Unsealed]]
    /\ upload = [w \in Sealers |-> Idle]
    /\ serverUp = TRUE
    /\ requests = {} /\ op = {}
    /\ body = [t \in Ids |-> {}]
    /\ index = [t \in Ids |-> {}]
    /\ old = {} /\ lost = {}

-----------------------------------------------------------------------------
(* The worker.                                                             *)

serverVars == <<serverUp, requests, op, body, index, old, lost>>

\* The body is written first, then the index; a write that fails ends the
\* seal, and the trajectory stays on this disk only.
SealBody(w, t) ==
    /\ local[w][t].seal = "no"
    /\ local' = [local EXCEPT ![w][t].seal = "body", ![w][t].body = TRUE]
    /\ UNCHANGED <<upload, serverVars>>

SealIndex(w, t) ==
    /\ local[w][t].seal = "body"
    /\ local' = [local EXCEPT ![w][t].seal = "index", ![w][t].index = TRUE]
    /\ UNCHANGED <<upload, serverVars>>

\* The marker counts from zero; when it cannot be written, nobody is told.
enqueue(w, t) ==
    /\ local[w][t].seal = "index"
    /\ \E m \in {"pending", "none"} :
          local' = [local EXCEPT ![w][t].seal = "over", ![w][t].marker = m]
    /\ UNCHANGED <<upload, serverVars>>

\* try_upload_one posts the body of a marker.  (A marker without a body would
\* be dropped; the marker is the first to go, so there is none.)
drain_once(w, t) ==
    LET n == local[w][t].attempts IN
    /\ upload[w].at = "idle" /\ local[w][t].marker = "pending" /\ local[w][t].body
    /\ upload' = [upload EXCEPT ![w] = [at |-> "posted", id |-> t, try |-> n]]
    /\ requests' = requests \cup {r \in {[from |-> w, id |-> t, try |-> n]} : serverUp}
    /\ UNCHANGED <<local, serverUp, op, body, index, old, lost>>

\* The answer is lost or does not come in time: the request may still be
\* carried out.
UploadTimesOut(w) ==
    /\ upload[w].at = "posted"
    /\ upload' = [upload EXCEPT ![w].at = "failed"]
    /\ UNCHANGED <<local, serverVars>>

CountFailure(w) ==
    LET t == upload[w].id  n == local[w][t].attempts + 1 IN
    /\ upload[w].at = "failed"
    /\ local' = [local EXCEPT ![w][t].attempts = n,
                              ![w][t].marker = IF n >= MaxRetries THEN "failed" ELSE "pending"]
    /\ upload' = [upload EXCEPT ![w] = Idle]
    /\ UNCHANGED serverVars

\* After an answer of success: the marker, the body and the index go, in this
\* order.
RemoveLocal(w) ==
    LET t == upload[w].id IN
    /\ \/ /\ upload[w].at = "acked"
          /\ local' = [local EXCEPT ![w][t].marker = "none"]
          /\ upload' = [upload EXCEPT ![w].at = "unmarked"]
       \/ /\ upload[w].at = "unmarked"
          /\ local' = [local EXCEPT ![w][t].body = FALSE]
          /\ upload' = [upload EXCEPT ![w].at = "bare"]
       \/ /\ upload[w].at = "bare"
          /\ local' = [local EXCEPT ![w][t].index = FALSE]
          /\ upload' = [upload EXCEPT ![w] = Idle]
    /\ UNCHANGED serverVars

\* The worker is killed; its next process goes on with the markers it finds.
WorkerRestarts(w) ==
    /\ upload[w] # Idle \/ \E t \in Ids : local[w][t].seal \in {"body", "index"}
    /\ upload' = [upload EXCEPT ![w] = Idle]
    /\ local' = [local EXCEPT ![w] = [t \in Ids |->
                    IF @[t].seal = "no" THEN @[t] ELSE [@[t] EXCEPT !.seal = "over"]]]
    /\ UNCHANGED serverVars

-----------------------------------------------------------------------------
(* The server.                                                             *)

workerVars == <<local, upload>>

\* What a worker that still waits for this request is told.
Tell(r, answer) ==
    upload' = IF upload[r.from].at = "posted" /\ Request(r.from) = r
              THEN [upload EXCEPT ![r.from].at = answer] ELSE upload

\* post_trajectory refuses before it touches the store.
Refuse(r) ==
    /\ <<r.from, r.id>> \in Refused
    /\ requests' = requests \ {r}
    /\ Tell(r, "failed")
    /\ UNCHANGED <<local, serverUp, op, body, index, old, lost>>

\* insert: under the lock, first what the index knows of this id.
InsertChecks(r) ==
    LET row == index[r.id] IN
    /\ op = {} /\ <<r.from, r.id>> \notin Refused
    /\ requests' = requests \ {r}
    /\ \/ /\ \E x \in row : x.sha # r.from
          /\ Tell(r, "failed") /\ UNCHANGED op
       \/ /\ \E x \in row : x.sha = r.from /\ x.present
          /\ Tell(r, "acked") /\ UNCHANGED op
       \/ /\ \A x \in row : x.sha = r.from /\ ~x.present
          /\ op' = {[kind |-> "write", req |-> r]} /\ UNCHANGED upload
    /\ UNCHANGED <<local, serverUp, body, index, old, lost>>

\* The body is written beside its place, synced and renamed, or the disk
\* refuses it.
InsertBody(o) ==
    LET r == o.req IN
    /\ o.kind = "write"
    /\ \/ /\ body' = [body EXCEPT ![r.id] = {r.from}]
          /\ op' = {[o EXCEPT !.kind = "row"]}
          /\ UNCHANGED upload
       \/ Tell(r, "failed") /\ op' = {} /\ UNCHANGED body
    /\ UNCHANGED <<local, serverUp, requests, index, old, lost>>

\* The row is inserted, or its body_present set again; a row that cannot be
\* inserted takes the new body with it.
InsertRow(o) ==
    LET r == o.req IN
    /\ o.kind = "row" /\ op' = {}
    /\ \/ /\ index' = [index EXCEPT ![r.id] = {[sha |-> r.from, present |-> TRUE]}]
          /\ lost' = lost \ {r.id}
          /\ Tell(r, "acked") /\ UNCHANGED body
       \/ /\ body' = IF index[r.id] = {} THEN [body EXCEPT ![r.id] = {}] ELSE body
          /\ Tell(r, "failed") /\ UNCHANGED <<index, lost>>
    /\ UNCHANGED <<local, serverUp, requests, old>>

\* What get_body, head and list show: a row that says its body is present.
Shown(t) == \E x \in index[t] : x.present
Readable(t, w) == [sha |-> w, present |-> TRUE] \in index[t] /\ body[t] = {w}

\* get_body notices that a file is missing.
get_body(t) ==
    /\ serverUp /\ op = {} /\ Shown(t) /\ body[t] = {}
    /\ index' = [index EXCEPT ![t] = {[x EXCEPT !.present = FALSE] : x \in @}]
    /\ UNCHANGED <<workerVars, serverUp, requests, op, body, old, lost>>

ReconcileUnlockedMutant(t) ==
    /\ \/ /\ index[t] = {} /\ body[t] # {}
          /\ body' = [body EXCEPT ![t] = {}]
          /\ UNCHANGED index
       \/ /\ Shown(t) /\ body[t] = {}
          /\ index' = [index EXCEPT ![t] = {[x EXCEPT !.present = FALSE] : x \in @}]
          /\ UNCHANGED body
    /\ UNCHANGED <<workerVars, serverUp, requests, op, old, lost>>

\* What reconcile does about one id, at start, every now and then or when an
\* administrator asks for it: a body without a row goes to the quarantine, a
\* row without its body is no longer shown.  A pass that fails half way has
\* dealt with some ids only.
reconcile(t) ==
    /\ op = {}
    /\ \/ /\ index[t] = {} /\ body[t] # {}
          /\ body' = [body EXCEPT ![t] = {}]
          /\ UNCHANGED index
       \/ /\ Shown(t) /\ body[t] = {}
          /\ index' = [index EXCEPT ![t] = {[x EXCEPT !.present = FALSE] : x \in @}]
          /\ UNCHANGED body
    /\ UNCHANGED <<workerVars, serverUp, requests, op, old, lost>>

Expires(t) ==
    /\ MayExpire /\ t \notin old
    /\ old' = old \cup {t}
    /\ UNCHANGED <<workerVars, serverUp, requests, op, body, index, lost>>

\* retention: the file first; when it cannot be removed the row stays for the
\* next pass.
RetentionFile(t) ==
    /\ serverUp /\ op = {} /\ t \in old /\ index[t] # {}
    /\ body' = [body EXCEPT ![t] = {}]
    /\ op' = {[kind |-> "expire", id |-> t]}
    /\ UNCHANGED <<workerVars, serverUp, requests, index, old, lost>>

RetentionRow(o) ==
    /\ o.kind = "expire" /\ op' = {}
    /\ index' = [index EXCEPT ![o.id] = {}]
    /\ UNCHANGED <<workerVars, serverUp, requests, body, old, lost>>

ServerCrashes ==
    /\ serverUp
    /\ serverUp' = FALSE /\ requests' = {} /\ op' = {}
    /\ UNCHANGED <<workerVars, body, index, old, lost>>

\* open and serve_with: the store is opened, reconcile runs, then the
\* listener accepts requests.
ServerStarts ==
    /\ ~serverUp
    /\ serverUp' = TRUE
    /\ UNCHANGED <<workerVars, requests, op, body, index, old, lost>>

\* External: a file of the store is gone.
FileLost(t) ==
    /\ MayLose /\ op = {} /\ body[t] # {}
    /\ body' = [body EXCEPT ![t] = {}]
    /\ lost' = lost \cup {t}
    /\ UNCHANGED <<workerVars, serverUp, requests, op, index, old>>

TrajectoryNext ==
    \/ \E w \in Sealers, t \in Ids : SealBody(w, t) \/ SealIndex(w, t) \/ enqueue(w, t) \/ drain_once(w, t)
    \/ \E w \in Sealers : UploadTimesOut(w) \/ CountFailure(w) \/ RemoveLocal(w) \/ WorkerRestarts(w)
    \/ \E r \in requests : Refuse(r) \/ InsertChecks(r)
    \/ \E o \in op : InsertBody(o) \/ InsertRow(o) \/ RetentionRow(o)
    \/ \E t \in Ids : get_body(t) \/ reconcile(t) \/ Expires(t) \/ RetentionFile(t) \/ FileLost(t)
    \/ ServerCrashes \/ ServerStarts

TrajectorySpec == TrajectoryInit /\ [][TrajectoryNext]_trajectoryVars

-----------------------------------------------------------------------------
\* No trajectory is lost on its way: until its own copy is gone the worker has
\* the body, and from then on the server shows it with the bytes of this
\* worker, unless it expired or its file was lost from the server's disk.
\* Timeouts, repeated and late requests, another worker's trajectory under the
\* same id, and kills of either process do not change that.
SealedIsReadable ==
    \A w \in Sealers, t \in Ids :
        local[w][t].seal # "no" /\ t \notin old \cup lost => local[w][t].body \/ Readable(t, w)

=============================================================================
