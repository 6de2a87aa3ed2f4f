------------------------------ MODULE Admission ------------------------------
(***************************************************************************)
(* Dynamic admission of uenv-server (admission.rs): a semaphore whose      *)
(* permits follow the capacity of the registered workers.  The registry    *)
(* tells it of every registration and heartbeat that changes a capacity    *)
(* and of the end of a drain; a decrease is a background task that waits   *)
(* for permits and forgets them.                                           *)
(*                                                                         *)
(* The registry is here only the capacity and the draining mark of each    *)
(* worker (Scheduler has the rest of it).  Episodes arrive, wait, run and  *)
(* end; their deadline or cancellation ends the wait.                      *)
(***************************************************************************)
EXTENDS Queues

CONSTANTS
    Workers, Episodes,
    MaxCapacity,    \* bound: capacity a worker reports
    MaxChanges,     \* bound: reports that change a capacity
    MayDrain,       \* whether DrainWorker is called in this instance
    MayDrainAgain,  \* ... also for a worker that is draining already
    MaySupersede    \* whether a worker's endpoint is taken over

AdmissionConstants ==
    /\ IsFiniteSet(Workers)
    /\ IsFiniteSet(Episodes)
    /\ "shrink" \notin Episodes    \* the name of a task of on_capacity_changed
    /\ MaxCapacity \in Nat \ {0}

VARIABLES
    capacity,   \* capacity of each registered worker, 0: not registered
    draining,   \* workers marked draining
    drains,     \* DrainWorker tasks in their grace period: [worker, drained]
    leased,     \* workers with a reservation
    free,       \* permits not handed out
    spawned,    \* decreases whose task has not run yet
    waiting,    \* who waits for permits, in order: [who, need]
    admitted,   \* episodes that hold a permit
    changes     \* capacity reports so far

admissionVars == <<capacity, draining, drains, leased, free, spawned, waiting, admitted, changes>>

Shrink == "shrink"
Waiters == [who : Episodes \union {Shrink}, need : 1..MaxCapacity]
Registered == {w \in Workers : capacity[w] > 0}

-----------------------------------------------------------------------------
(* The semaphore: fair, so a task that waits for several permits holds up  *)
(* those behind it until it has them all.                                  *)

Grantable(who) == waiting # <<>> /\ Head(waiting).who = who /\ Head(waiting).need <= free

GrowReplacesMutant(old, new) ==
    IF new >= old
    THEN /\ free' = new
         /\ UNCHANGED spawned
    ELSE /\ spawned' = Append(spawned, old - new)
         /\ UNCHANGED free

\* More capacity adds permits at once, less capacity is left to a new task
\* (shrink_async).
on_capacity_changed(old, new) ==
    IF new >= old
    THEN /\ free' = free + (new - old)
         /\ UNCHANGED spawned
    ELSE /\ spawned' = Append(spawned, old - new)
         /\ UNCHANGED free

\* The tasks run in any order; each joins the queue.
ShrinkQueues(i) ==
    /\ i \in DOMAIN spawned
    /\ waiting' = Append(waiting, [who |-> Shrink, need |-> spawned[i]])
    /\ spawned' = RemoveAt(spawned, i)
    /\ UNCHANGED <<capacity, draining, drains, leased, free, admitted, changes>>

\* acquire_many of the background task, then forget.
ShrinkTakes ==
    /\ Grantable(Shrink)
    /\ free' = free - Head(waiting).need
    /\ waiting' = Tail(waiting)
    /\ UNCHANGED <<capacity, draining, drains, leased, spawned, admitted, changes>>

-----------------------------------------------------------------------------
(* Episodes: acquire_until.                                                *)
Waiting(e) == \E i \in DOMAIN waiting : waiting[i].who = e

acquire_until(e) ==
    /\ e \notin admitted
    /\ ~Waiting(e)
    /\ waiting' = Append(waiting, [who |-> e, need |-> 1])
    /\ UNCHANGED <<capacity, draining, drains, leased, free, spawned, admitted, changes>>

Admit(e) ==
    /\ Grantable(e)
    /\ free' = free - 1
    /\ waiting' = Tail(waiting)
    /\ admitted' = admitted \union {e}
    /\ UNCHANGED <<capacity, draining, drains, leased, spawned, changes>>

\* Deadline or cancellation: the future is dropped, its place in the queue
\* with it.
StopWaiting(e) ==
    /\ Waiting(e)
    /\ waiting' = Keep(waiting, {x \in Waiters : x.who # e})
    /\ UNCHANGED <<capacity, draining, drains, leased, free, spawned, admitted, changes>>

\* The guard that holds the permit is dropped at the end of the episode.
Finish(e) ==
    /\ e \in admitted
    /\ admitted' = admitted \ {e}
    /\ free' = free + 1
    /\ UNCHANGED <<capacity, draining, drains, leased, spawned, waiting, changes>>

-----------------------------------------------------------------------------
(* The registry's side.                                                    *)

\* register_worker: accepted unless the worker has a reservation; then the
\* record is only marked draining and no permit is added.
register_worker(w, c) ==
    /\ changes < MaxChanges
    /\ changes' = changes + 1
    /\ IF w \in leased
       THEN /\ draining' = draining \union {w}
            /\ UNCHANGED <<capacity, free, spawned>>
       ELSE /\ capacity' = [capacity EXCEPT ![w] = c]
            /\ draining' = draining \ {w}
            /\ on_capacity_changed(capacity[w], c)
    /\ UNCHANGED <<drains, leased, waiting, admitted>>

\* The heartbeat of a known worker (a capacity of 0 is taken as 1).
heartbeat(w, c) ==
    /\ changes < MaxChanges
    /\ w \in Registered
    /\ c # capacity[w]
    /\ changes' = changes + 1
    /\ capacity' = [capacity EXCEPT ![w] = c]
    /\ on_capacity_changed(capacity[w], c)
    /\ UNCHANGED <<draining, drains, leased, waiting, admitted>>

reserve(w) ==
    /\ w \in Registered \ (draining \union leased)
    /\ leased' = leased \union {w}
    /\ UNCHANGED <<capacity, draining, drains, free, spawned, waiting, admitted, changes>>

\* release removes a draining worker once its last reservation is gone, and
\* says nothing to the admission.
release(w) ==
    /\ w \in leased
    /\ leased' = leased \ {w}
    /\ capacity' = IF w \in draining THEN [capacity EXCEPT ![w] = 0] ELSE capacity
    /\ draining' = draining \ {w}
    /\ UNCHANGED <<drains, free, spawned, waiting, admitted, changes>>

\* drain_worker: the capacity is read now and given up after the grace
\* period.
drain_worker(w) ==
    /\ MayDrain
    /\ w \in Registered
    /\ w \notin draining \/ MayDrainAgain
    /\ Cardinality(drains) < 2
    /\ draining' = draining \union {w}
    /\ drains' = drains \union {[worker |-> w, drained |-> capacity[w],
                                 id |-> Cardinality(drains)]}
    /\ UNCHANGED <<capacity, leased, free, spawned, waiting, admitted, changes>>

\* unregister_worker keeps a worker that has a reservation.
DrainEnds(d) ==
    /\ d \in drains
    /\ drains' = drains \ {d}
    /\ IF d.worker \in leased
       THEN /\ draining' = draining \union {d.worker}
            /\ UNCHANGED capacity
       ELSE /\ capacity' = [capacity EXCEPT ![d.worker] = 0]
            /\ draining' = draining \ {d.worker}
    /\ on_capacity_changed(d.drained, 0)
    /\ UNCHANGED <<leased, waiting, admitted, changes>>

\* The registration of another worker at the same endpoint removes w.
supersede(w) ==
    /\ MaySupersede
    /\ w \in Registered
    /\ capacity' = [capacity EXCEPT ![w] = 0]
    /\ draining' = draining \ {w}
    /\ leased' = leased \ {w}
    /\ UNCHANGED <<drains, free, spawned, waiting, admitted, changes>>

-----------------------------------------------------------------------------
Init ==
    /\ capacity = [w \in Workers |-> 0]
    /\ draining = {}
    /\ drains = {}
    /\ leased = {}
    /\ free = 0
    /\ spawned = <<>>
    /\ waiting = <<>>
    /\ admitted = {}
    /\ changes = 0

Next ==
    \/ ShrinkTakes
    \/ \E i \in DOMAIN spawned : ShrinkQueues(i)
    \/ \E e \in Episodes : acquire_until(e) \/ Admit(e) \/ StopWaiting(e) \/ Finish(e)
    \/ \E w \in Workers :
        \/ \E c \in 1..MaxCapacity : register_worker(w, c) \/ heartbeat(w, c)
        \/ reserve(w) \/ release(w) \/ drain_worker(w) \/ supersede(w)
    \/ \E d \in drains : DrainEnds(d)

Spec == Init /\ [][Next]_admissionVars

-----------------------------------------------------------------------------
(* Properties.                                                             *)

\* Types; in particular a decrease never takes permits that are handed out.
TypeOK ==
    /\ capacity \in [Workers -> 0..MaxCapacity]
    /\ free \in Nat
    /\ spawned \in Seq(1..MaxCapacity)
    /\ waiting \in Seq(Waiters)
    /\ admitted \subseteq Episodes
    /\ leased \subseteq Workers
    /\ draining \subseteq Workers
    /\ drains \subseteq [worker : Workers, drained : 1..MaxCapacity, id : Nat]
    /\ IsFiniteSet(drains)
    /\ changes \in Nat

\* What each waiter will take out of the semaphore for good.
Leaving(queue) ==
    [i \in 1..Len(queue) |-> IF queue[i].who = Shrink THEN queue[i].need ELSE 0]
PendingShrinks == Total(spawned) + Total(Leaving(waiting))
Permits == free + Cardinality(admitted) - PendingShrinks
CapacityOf(ws) == SumOver([w \in Workers |-> IF w \in ws THEN capacity[w] ELSE 0], Workers)

\* Whatever order registrations, heartbeats, waits and ends of episodes come
\* in, the permits are not fewer than the capacity of the workers that may
\* still take episodes: the server does not starve its workers.  Draining a
\* worker twice, or one whose capacity changes meanwhile, breaks it.
NeverUnderAdmits == Permits >= CapacityOf(Workers \ draining)

\* The permits are the capacity of the registered workers.  A worker that is
\* removed by the release of its last reservation, or superseded, keeps its
\* permits in the semaphore.
PermitsFollowCapacity == drains = {} => Permits = CapacityOf(Workers)

=============================================================================
