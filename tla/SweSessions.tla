----------------------------- MODULE SweSessions -----------------------------
(* SWE sessions of a worker (uenv-worker: swe/instance_pool, swe/session,   *)
(* runtime_gateway, and the SWE path of episode/executor).  Requests of the  *)
(* gateway and native episodes are jobs: threads that keep a reference to    *)
(* the session they work on, so that its container lives until the table and *)
(* the last of them let go of it.  A client that gives up ends no job.       *)
EXTENDS Integers, Sequences, FiniteSets

CONSTANTS
    Jobs,           \* requests and native episodes, one operation each
    Sessions,       \* session ids (seq), never used twice
    noSession,      \* no session
    Capacity        \* capacity.max(1)

SessionConstants ==
    /\ IsFiniteSet(Jobs)
    /\ Capacity \in Nat \ {0}

VARIABLES
    job,            \* job -> [at, kind, s, watched]
    table,          \* SweInstancePool.sessions
    pending,        \* SweInstancePool.pending
    made,           \* session ids given out
    known,          \* sessions the gateway answered with
    started,        \* sessions whose container was started
    terminated,     \* sessions whose container was killed
    submissions,    \* GatewayState.submissions
    evaluations,    \* evaluations begun on a session for the gateway
    deleting,       \* sessions somebody asked to delete
    sealedBy        \* sealed trajectories: pairs <<session, job>>

svars == <<job, table, pending, made, known, started, terminated, submissions, evaluations, deleting, sealedBy>>
slots == <<table, pending, made, known>>
answers == <<submissions, evaluations, deleting, sealedBy>>

IdleJob == [at |-> "idle", kind |-> "gateway", s |-> noSession, watched |-> FALSE]
DoneJob == [IdleJob EXCEPT !.at = "done"]
Go(j, at) == job' = [job EXCEPT ![j].at = at]
Start(j, at, kind, s, watched) ==
    job' = [job EXCEPT ![j] = [at |-> at, kind |-> kind, s |-> s, watched |-> watched]]
EndJob(j) == job' = [job EXCEPT ![j] = DoneJob]

(* A job that has looked its session up keeps it. *)
Holds(j) == job[j].at \in {"setup", "exec", "evaluate", "graded", "outcome"}
Containers == {s \in started \ terminated : s \in table \/ \E j \in Jobs : Holds(j) /\ job[j].s = s}
Provisioning == {j \in Jobs : job[j].at \in {"provision", "setup"}}

SInit ==
    /\ job = [j \in Jobs |-> IdleJob]
    /\ table = {} /\ pending = 0 /\ made = {} /\ known = {}
    /\ started = {} /\ terminated = {}
    /\ submissions = [s \in Sessions |-> "none"]
    /\ evaluations = [s \in Sessions |-> 0]
    /\ deleting = {} /\ sealedBy = {}

SeparateReservationMutant(j, kind) ==
    /\ job[j].at = "idle"
    /\ \E s \in Sessions \ made :
         IF Cardinality(table) >= Capacity
         THEN EndJob(j) /\ UNCHANGED <<pending, made>>
         ELSE /\ pending' = pending + 1 /\ made' = made \cup {s}
              /\ Start(j, "provision", kind, s, FALSE)
    /\ UNCHANGED <<table, known, started, terminated, answers>>

(* An unknown instance or a variant that differs is refused; so is a full    *)
(* pool, counting the sessions that are being provisioned.                   *)
Reserve(j, kind) ==
    /\ job[j].at = "idle"
    /\ \E s \in Sessions \ made :
         \/ EndJob(j) /\ UNCHANGED <<pending, made>>
         \/ /\ Cardinality(table) + pending < Capacity
            /\ pending' = pending + 1 /\ made' = made \cup {s}
            /\ Start(j, "provision", kind, s, FALSE)
    /\ UNCHANGED <<table, known, started, terminated, answers>>

(* The two creating requests of the gateway and a native SWE episode. *)
create_session(j) == Reserve(j, "gateway")
create_session_for_episode(j) == Reserve(j, "episode")
run_episode(j) == Reserve(j, "native")

(* Image and backend: an error gives the reservation back. *)
provision(j) ==
    /\ job[j].at = "provision"
    /\ \/ started' = started \cup {job[j].s} /\ Go(j, "setup") /\ UNCHANGED pending
       \/ pending' = pending - 1 /\ EndJob(j) /\ UNCHANGED started
    /\ UNCHANGED <<table, made, known, terminated, answers>>

(* Reset to the base commit, setup and the initial state of the contract: an *)
(* error drops the session and its container; otherwise the session enters   *)
(* the table and the reservation goes under the same lock.                   *)
SetupSession(j) ==
    /\ job[j].at = "setup"
    /\ pending' = pending - 1
    /\ \/ table' = table \cup {job[j].s}
          /\ IF job[j].kind = "native" THEN Go(j, "patch") /\ UNCHANGED known
             ELSE EndJob(j) /\ known' = known \cup {job[j].s}
       \/ EndJob(j) /\ UNCHANGED <<table, known>>
    /\ UNCHANGED <<made, started, terminated, answers>>

(* run_episode: gold patch, submit, and destroy whatever happened. *)
apply_gold_contract(j) ==
    /\ job[j].at = "patch"
    /\ \E next \in {"lookup", "release"} : Go(j, next)
    /\ UNCHANGED <<slots, started, terminated, answers>>

NativeRelease(j) ==
    /\ job[j].at = "release"
    /\ table' = table \ {job[j].s}
    /\ EndJob(j)
    /\ UNCHANGED <<pending, made, known, started, terminated, answers>>

(* exec, read_file, write_file, apply_patch, recycle: with the session found. *)
UseSession(j) ==
    /\ job[j].at = "idle"
    /\ \E s \in table \cap known : Start(j, "exec", "gateway", s, FALSE)
    /\ UNCHANGED <<slots, started, terminated, answers>>

SessionUsed(j) ==
    /\ job[j].at = "exec"
    /\ EndJob(j)
    /\ UNCHANGED <<slots, started, terminated, answers>>

SubmitRepeatedMutant(j) ==
    /\ job[j].at = "idle"
    /\ \E s \in known :
         IF submissions[s] = "running" THEN EndJob(j) /\ UNCHANGED submissions
         ELSE /\ submissions' = [submissions EXCEPT ![s] = "running"]
              /\ Start(j, "lookup", "gateway", s, TRUE)
    /\ UNCHANGED <<slots, started, terminated, evaluations, deleting, sealedBy>>

(* The first submit of a session starts its evaluation; later ones, retries  *)
(* of an answer that was lost included, get the state of that one.           *)
submit(j) ==
    /\ job[j].at = "idle"
    /\ \E s \in known :
         IF submissions[s] # "none" THEN EndJob(j) /\ UNCHANGED submissions
         ELSE /\ submissions' = [submissions EXCEPT ![s] = "running"]
              /\ Start(j, "lookup", "gateway", s, TRUE)
    /\ UNCHANGED <<slots, started, terminated, evaluations, deleting, sealedBy>>

Answer(s, state) == submissions' = [submissions EXCEPT ![s] = state]
Settle(j, state) ==
    IF job[j].kind = "native" THEN Go(j, "release") /\ UNCHANGED submissions
    ELSE /\ EndJob(j)
         /\ IF job[j].watched THEN Answer(job[j].s, state) ELSE UNCHANGED submissions

(* SweInstancePool::submit: lookup, evaluate (which stops with an error once *)
(* the session is terminated), seal, answer.                                 *)
SubmitLookup(j) ==
    /\ job[j].at = "lookup"
    /\ IF job[j].s \in table
       THEN /\ Go(j, "evaluate")
            /\ evaluations' = IF job[j].kind = "native" THEN evaluations
                              ELSE [evaluations EXCEPT ![job[j].s] = @ + 1]
            /\ UNCHANGED submissions
       ELSE Settle(j, "failed") /\ UNCHANGED evaluations
    /\ UNCHANGED <<slots, started, terminated, deleting, sealedBy>>

evaluate(j) ==
    /\ job[j].at = "evaluate"
    /\ \/ job[j].s \notin terminated /\ Go(j, "graded") /\ UNCHANGED submissions
       \/ Settle(j, "failed")
    /\ UNCHANGED <<slots, started, terminated, evaluations, deleting, sealedBy>>

seal_trajectory(j) ==
    /\ job[j].at = "graded"
    /\ \/ sealedBy' = sealedBy \cup {<<job[j].s, j>>}
       \/ UNCHANGED sealedBy
    /\ Go(j, "outcome")
    /\ UNCHANGED <<slots, started, terminated, submissions, evaluations, deleting>>

RecordOutcome(j) ==
    /\ job[j].at = "outcome"
    /\ Settle(j, "completed")
    /\ UNCHANGED <<slots, started, terminated, evaluations, deleting, sealedBy>>

(* The watching task gives up: it kills the container, drops the session and *)
(* answers failed, while the evaluating thread runs on unwatched.            *)
SubmitTimeout(j) ==
    /\ job[j].watched
    /\ IF job[j].s \in table
       THEN terminated' = terminated \cup {job[j].s} /\ table' = table \ {job[j].s}
       ELSE UNCHANGED <<terminated, table>>
    /\ job' = [job EXCEPT ![j].watched = FALSE]
    /\ Answer(job[j].s, "failed")
    /\ UNCHANGED <<pending, made, known, started, evaluations, deleting, sealedBy>>

(* DELETE: the submission is forgotten, then the session leaves the table. *)
DeleteSubmission(j) ==
    /\ job[j].at = "idle"
    /\ \E s \in known :
         /\ Answer(s, "none")
         /\ deleting' = deleting \cup {s}
         /\ Start(j, "destroy", "gateway", s, FALSE)
    /\ UNCHANGED <<slots, started, terminated, evaluations, sealedBy>>

destroy(j) ==
    /\ job[j].at = "destroy"
    /\ table' = table \ {job[j].s}
    /\ EndJob(j)
    /\ UNCHANGED <<pending, made, known, started, terminated, answers>>

SDone == (\A j \in Jobs : job[j].at \in {"idle", "done"}) /\ UNCHANGED svars

SNext ==
    \/ \E j \in Jobs :
         \/ create_session(j) \/ create_session_for_episode(j) \/ run_episode(j) \/ provision(j) \/ SetupSession(j)
         \/ apply_gold_contract(j) \/ NativeRelease(j)
         \/ UseSession(j) \/ SessionUsed(j)
         \/ submit(j) \/ SubmitLookup(j) \/ evaluate(j) \/ seal_trajectory(j) \/ RecordOutcome(j)
         \/ SubmitTimeout(j) \/ DeleteSubmission(j) \/ destroy(j)
    \/ SDone

SSpec == SInit /\ [][SNext]_svars

(***************************************************************************)
(* Properties                                                              *)
(***************************************************************************)
(* The pool never holds or prepares more sessions than its capacity, though  *)
(* provisioning runs outside the lock; when nobody provisions, no            *)
(* reservation is left over; and every container beyond the table belongs to *)
(* a job that is still at work.                                              *)
SessionsFitCapacity ==
    /\ Cardinality(table) + Cardinality(Provisioning) <= Capacity
    /\ pending = Cardinality(Provisioning)
    /\ Cardinality(Containers) <= Capacity + Cardinality({j \in Jobs : Holds(j)})

(* Until its deletion is asked for, a session is evaluated at most once for  *)
(* the gateway however often submit is repeated, and "completed" is answered *)
(* only for an evaluation that a job really carried through.                 *)
SubmitOnce ==
    \A s \in Sessions \ deleting :
        /\ evaluations[s] <= 1
        /\ submissions[s] = "completed" => evaluations[s] = 1
        /\ submissions[s] = "running" => \E j \in Jobs : job[j].watched /\ job[j].s = s

=============================================================================
