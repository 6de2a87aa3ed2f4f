----------------------------- MODULE Scheduler -----------------------------
(***************************************************************************)
(* The worker registry and reservation ledger of uenv-server:              *)
(* RoundRobinScheduler (scheduler/mod.rs), the control-plane handlers that *)
(* register workers and apply heartbeats (control_plane.rs), the admin     *)
(* drain operation (service/admin.rs), the WorkerLease guard that gives a  *)
(* reservation back (service/prelude_and_guards.rs) and the on-demand      *)
(* environment preparation (service/episode.rs).                           *)
(*                                                                         *)
(* The scheduler sits behind one RwLock, so each of its methods is atomic; *)
(* a handler that takes the lock several times is several steps here.      *)
(* Clock readings are abstracted to ages (see MaxAge), the round-robin     *)
(* counter to a free choice among the candidates, and a worker's resources *)
(* and a request's demand to one number each.                              *)
(***************************************************************************)
EXTENDS Integers, FiniteSets

CONSTANTS
    WorkerIds,      \* worker ids that may register
    EndpointOf,     \* endpoint each id announces; two ids may share one
    Tasks,          \* episodes that ask for a reservation
    EnvTypes,       \* environment types
    Packages,       \* environment packages (id and version together)
    NoPackage,      \* a request without env_package_id
    EnvOf,          \* task -> env_type of its request
    PackageOf,      \* task -> env_package_id of its request, or NoPackage
    NeedOf,         \* task -> resources it asks for (0: none)
    NoWorker,       \* no worker
    Loads,          \* values of the signed field load in a worker's messages
    MaxLoads,       \* values of the signed field max_load (<= 0: not given)
    MaxConcurrents, \* values of the older field max_concurrent (0: not given)
    Resources,      \* resources a worker may announce (0: none announced)
    EnvReports,     \* lists of supported env types a worker may announce
    PackageReports, \* lists of synced packages a worker may announce
    DynamicReports, \* whether it may announce dynamic environments
    DrainOps,       \* drain_worker calls that were given a grace period
    MaxAge          \* ages are counted up to this one (see WorkerInfo)

ASSUME TasksFinite == IsFiniteSet(Tasks)

ASSUME ConstantTypes ==
    /\ NoWorker \notin WorkerIds
    /\ NoPackage \notin Packages
    /\ EnvOf \in [Tasks -> EnvTypes]
    /\ PackageOf \in [Tasks -> Packages \union {NoPackage}]
    /\ NeedOf \in [Tasks -> Nat]
    /\ Loads \subseteq Int
    /\ MaxLoads \subseteq Int
    /\ MaxConcurrents \subseteq Nat
    /\ Resources \subseteq Nat
    /\ EnvReports \subseteq SUBSET EnvTypes
    /\ PackageReports \subseteq SUBSET Packages
    /\ DynamicReports \subseteq BOOLEAN
    /\ MaxAge \in Nat

VARIABLES
    registered, \* ids with a record in RoundRobinScheduler.workers
    info,       \* the record of each id; Blank when it has none
    lease,      \* worker on which a task holds a WorkerLease, or NoWorker
    prep,       \* worker a task's PrepareEnvironment call runs on, or NoWorker
    toScan,     \* accepted registrations that have not yet scanned for stale ids
    stale,      \* ids an accepted registration still has to unregister
    drains      \* grace-period drains: worker and the capacity read at the call

schedulerVars == <<registered, info, lease, prep, toScan, stale, drains>>

-----------------------------------------------------------------------------
(***************************************************************************)
(* Worker records.  An age is 0 while the timestamp is recent, 1 once the  *)
(* configured timeout has passed and 2 once the 24 hours that              *)
(* worker_can_prepare uses have passed.                                    *)
(***************************************************************************)
WorkerInfo ==
    [capacity : Nat, reserved : Nat, reported : Nat, draining : BOOLEAN,
     heartbeatAge : 0..MaxAge, reportAge : 0..MaxAge, resource : Nat,
     envs : SUBSET EnvTypes, packages : SUBSET Packages, dynamic : BOOLEAN]

Blank ==
    [capacity |-> 0, reserved |-> 0, reported |-> 0, draining |-> FALSE,
     heartbeatAge |-> 0, reportAge |-> 0, resource |-> 0,
     envs |-> {}, packages |-> {}, dynamic |-> FALSE]

NoDrain == [worker |-> NoWorker, capacity |-> 0]

TypeOK ==
    /\ registered \subseteq WorkerIds
    /\ info \in [WorkerIds -> WorkerInfo]
    /\ lease \in [Tasks -> WorkerIds \union {NoWorker}]
    /\ prep \in [Tasks -> WorkerIds \union {NoWorker}]
    /\ toScan \subseteq WorkerIds
    /\ stale \in [WorkerIds -> SUBSET WorkerIds]
    /\ drains \in [DrainOps -> {NoDrain} \union [worker : WorkerIds, capacity : Nat]]

\* Mutant: the signed wire value is used as it comes.
NonNegativeMutant(n) == n

\* The wire fields are signed; a negative load or max_load counts as 0.
NonNegative(n) == IF n > 0 THEN n ELSE 0

\* Capacity a registration announces: the newer field, else the older, else 1.
AnnouncedCapacity(maxLoad, maxConcurrent) ==
    IF maxLoad > 0 THEN maxLoad
    ELSE IF maxConcurrent > 0 THEN maxConcurrent ELSE 1

\* The record a registration puts in the list: nothing reserved, both clocks
\* restarted.
NewWorker(c, l, s, e, p, dyn) ==
    [capacity |-> c, reserved |-> 0, reported |-> l, draining |-> FALSE,
     heartbeatAge |-> 0, reportAge |-> 0, resource |-> s,
     envs |-> e, packages |-> p, dynamic |-> dyn]

EffectiveLoad(r) == IF r.reserved >= r.reported THEN r.reserved ELSE r.reported

\* Time-outs are limits on ages: 0 is the configured one, 1 is 24 hours.
IsDegraded(r, limit) ==
    \/ r.heartbeatAge > limit
    \/ EffectiveLoad(r) > 0 /\ r.reportAge > limit

ResourceFits(r, t) == NeedOf[t] = 0 \/ r.resource >= NeedOf[t]

PackageMatches(r, t) == PackageOf[t] = NoPackage \/ PackageOf[t] \in r.packages

\* Mutant: capacity is compared with what the worker reported only.
IsEligibleMutant(r, t) ==
    /\ ~r.draining
    /\ ~IsDegraded(r, 0)
    /\ EnvOf[t] \in r.envs
    /\ r.reported < r.capacity
    /\ ResourceFits(r, t)
    /\ PackageMatches(r, t)

IsEligible(r, t) ==
    /\ ~r.draining
    /\ ~IsDegraded(r, 0)
    /\ EnvOf[t] \in r.envs
    /\ EffectiveLoad(r) < r.capacity
    /\ ResourceFits(r, t)
    /\ PackageMatches(r, t)

Candidates(t) == {w \in registered : IsEligible(info[w], t)}

CanPrepare(r, t) ==
    /\ ~r.draining
    /\ ~IsDegraded(r, 1)
    /\ EffectiveLoad(r) < r.capacity
    /\ ResourceFits(r, t)
    /\ r.dynamic

\* Why there is no candidate: NoMatchingEnvType and NoMatchingEnvPackage are
\* the two answers that make the episode try to prepare a worker.
NoMatchingEnvType(t) ==
    registered # {} /\ \A w \in registered : EnvOf[t] \notin info[w].envs

NoMatchingEnvPackage(t) ==
    /\ \E w \in registered : EnvOf[t] \in info[w].envs
    /\ \A w \in registered : EnvOf[t] \in info[w].envs => ~PackageMatches(info[w], t)

-----------------------------------------------------------------------------
(***************************************************************************)
(* Effects on the worker list.                                             *)
(***************************************************************************)
SetWorker(w, r) ==
    /\ info' = [info EXCEPT ![w] = r]
    /\ UNCHANGED registered

RemoveWorker(w) ==
    /\ info' = [info EXCEPT ![w] = Blank]
    /\ registered' = registered \ {w}

\* Mutant: whether the worker is idle is judged by its last report only.
UnregisterWorkerMutant(w) ==
    \/ /\ info[w].reported = 0
       /\ RemoveWorker(w)
    \/ /\ info[w].reported > 0
       /\ SetWorker(w, [info[w] EXCEPT !.draining = TRUE])

\* Draining, and gone at once when nothing runs on it.  A no-op for an id
\* that is not registered.
UnregisterWorker(w) ==
    \/ /\ EffectiveLoad(info[w]) = 0
       /\ RemoveWorker(w)
    \/ /\ EffectiveLoad(info[w]) > 0
       /\ SetWorker(w, [info[w] EXCEPT !.draining = TRUE])

AfterRelease(r) == [r EXCEPT !.reserved = IF @ > 0 THEN @ - 1 ELSE 0]

ReleaseWorker(w) ==
    LET r == AfterRelease(info[w])
        idle == r.draining /\ EffectiveLoad(r) = 0
    IN  \/ idle /\ RemoveWorker(w)
        \/ ~idle /\ SetWorker(w, r)

-----------------------------------------------------------------------------
Init ==
    /\ registered = {}
    /\ info = [w \in WorkerIds |-> Blank]
    /\ lease = [t \in Tasks |-> NoWorker]
    /\ prep = [t \in Tasks |-> NoWorker]
    /\ toScan = {}
    /\ stale = [w \in WorkerIds |-> {}]
    /\ drains = [d \in DrainOps |-> NoDrain]

\* Mutant: the record is replaced although the server has reservations on it.
RegisterAcceptedMutant(w) ==
    /\ info[w].reported = 0
    /\ \E l \in Loads, m \in MaxLoads :
          info' = [info EXCEPT ![w] =
                     NewWorker(AnnouncedCapacity(m, 0), NonNegative(l), 0, {}, {}, FALSE)]
    /\ registered' = registered \union {w}
    /\ toScan' = toScan \union {w}
    /\ UNCHANGED <<lease, prep, stale, drains>>

\* RegisterWorker, accepted: the id has no record or an idle one, which is
\* replaced.  The handler then goes on to supersede the ids at its endpoint.
RegisterAccepted(w) ==
    /\ EffectiveLoad(info[w]) = 0
    /\ \E l \in Loads, m \in MaxLoads, c \in MaxConcurrents, s \in Resources,
          e \in EnvReports, p \in PackageReports, dyn \in DynamicReports :
          info' = [info EXCEPT ![w] =
                     NewWorker(AnnouncedCapacity(m, c), NonNegative(l), s, e, p, dyn)]
    /\ registered' = registered \union {w}
    /\ toScan' = toScan \union {w}
    /\ UNCHANGED <<lease, prep, stale, drains>>

\* RegisterWorker, refused: work is still accounted to the id, so its record
\* stays and is only marked draining.
RegisterRejected(w) ==
    /\ EffectiveLoad(info[w]) > 0
    /\ SetWorker(w, [info[w] EXCEPT !.draining = TRUE])
    /\ UNCHANGED <<lease, prep, toScan, stale, drains>>

\* Mutant: only idle ids are collected.
SupersedeScanMutant(w) ==
    /\ w \in toScan
    /\ toScan' = toScan \ {w}
    /\ stale' = [stale EXCEPT ![w] =
                   @ \union {s \in registered \ {w} :
                               /\ EndpointOf[s] = EndpointOf[w]
                               /\ EffectiveLoad(info[s]) = 0}]
    /\ UNCHANGED <<registered, info, lease, prep, drains>>

\* First half of supersede_same_endpoint_workers: the other ids at the
\* endpoint of w are collected under the read lock.
SupersedeScan(w) ==
    /\ w \in toScan
    /\ toScan' = toScan \ {w}
    /\ stale' = [stale EXCEPT ![w] =
                   @ \union {s \in registered \ {w} : EndpointOf[s] = EndpointOf[w]}]
    /\ UNCHANGED <<registered, info, lease, prep, drains>>

\* Second half, once per collected id, each under its own write lock.
SupersedeOne(w, s) ==
    /\ s \in stale[w]
    /\ stale' = [stale EXCEPT ![w] = @ \ {s}]
    /\ UnregisterWorker(s)
    /\ UNCHANGED <<lease, prep, toScan, drains>>

\* Mutant: a heartbeat makes a draining worker schedulable again.
HeartbeatMutant(w) ==
    /\ w \in registered
    /\ \E l \in Loads :
          SetWorker(w, [info[w] EXCEPT !.reported = NonNegative(l),
                                       !.heartbeatAge = 0, !.draining = FALSE])
    /\ UNCHANGED <<lease, prep, toScan, stale, drains>>

\* One heartbeat.  max_load = 0 leaves the capacity, an empty list leaves the
\* supported env types, and an idle worker counts as having just reported.
\* An id that is not registered gets ok = FALSE and nothing changes.
Heartbeat(w) ==
    /\ w \in registered
    /\ \E l \in Loads, m \in MaxLoads, e \in EnvReports \union {{}}, dyn \in DynamicReports :
          SetWorker(w,
            [info[w] EXCEPT
               !.reported = NonNegative(l),
               !.capacity = IF NonNegative(m) > 0 THEN NonNegative(m) ELSE @,
               !.heartbeatAge = 0,
               !.reportAge = IF NonNegative(l) = 0 THEN 0 ELSE @,
               !.envs = IF e # {} THEN e ELSE @,
               !.dynamic = dyn])
    /\ UNCHANGED <<lease, prep, toScan, stale, drains>>

\* Time passes without a heartbeat from w, or without a result from it.
HeartbeatOverdue(w) ==
    /\ w \in registered
    /\ info[w].heartbeatAge < MaxAge
    /\ SetWorker(w, [info[w] EXCEPT !.heartbeatAge = @ + 1])
    /\ UNCHANGED <<lease, prep, toScan, stale, drains>>

ReportOverdue(w) ==
    /\ w \in registered
    /\ info[w].reportAge < MaxAge
    /\ SetWorker(w, [info[w] EXCEPT !.reportAge = @ + 1])
    /\ UNCHANGED <<lease, prep, toScan, stale, drains>>

\* touch_worker_report, at the end of an accepted ReportResult.
TouchReport(w) ==
    /\ w \in registered
    /\ SetWorker(w, [info[w] EXCEPT !.reportAge = 0])
    /\ UNCHANGED <<lease, prep, toScan, stale, drains>>

\* reserve: pick a candidate and count the reservation under one lock.
Reserve(t) ==
    /\ lease[t] = NoWorker
    /\ prep[t] = NoWorker
    /\ \E w \in Candidates(t) :
          /\ SetWorker(w, [info[w] EXCEPT !.reserved = @ + 1])
          /\ lease' = [lease EXCEPT ![t] = w]
    /\ UNCHANGED <<prep, toScan, stale, drains>>

\* WorkerLease::release, also run by its Drop: exactly once per reservation.
Release(t) ==
    /\ lease[t] # NoWorker
    /\ ReleaseWorker(lease[t])
    /\ lease' = [lease EXCEPT ![t] = NoWorker]
    /\ UNCHANGED <<prep, toScan, stale, drains>>

\* reserve failed because no worker offers the environment: a worker that can
\* install it is chosen (no reservation is taken) and asked to.
PrepareStart(t) ==
    /\ lease[t] = NoWorker
    /\ prep[t] = NoWorker
    /\ Candidates(t) = {}
    /\ NoMatchingEnvType(t) \/ NoMatchingEnvPackage(t)
    /\ \E w \in registered :
          /\ CanPrepare(info[w], t)
          /\ prep' = [prep EXCEPT ![t] = w]
    /\ UNCHANGED <<registered, info, lease, toScan, stale, drains>>

\* The worker answered ready: mark_environment_prepared, on whatever record
\* the id has by now.
PrepareReady(t) ==
    /\ prep[t] # NoWorker
    /\ LET w == prep[t]
           r == [info[w] EXCEPT
                   !.envs = @ \union {EnvOf[t]},
                   !.packages = @ \union ({PackageOf[t]} \ {NoPackage})]
       IN  SetWorker(w, IF w \in registered THEN r ELSE info[w])
    /\ prep' = [prep EXCEPT ![t] = NoWorker]
    /\ UNCHANGED <<lease, toScan, stale, drains>>

\* The call failed, was answered not ready, or the episode was cancelled.
PrepareFailed(t) ==
    /\ prep[t] # NoWorker
    /\ prep' = [prep EXCEPT ![t] = NoWorker]
    /\ UNCHANGED <<registered, info, lease, toScan, stale, drains>>

\* drain_worker without a grace period.  (It takes the lock twice; when other
\* steps come in between it is a DrainGraceful and a DrainExpire.)
DrainNow(w) ==
    /\ w \in registered
    /\ UnregisterWorker(w)
    /\ UNCHANGED <<lease, prep, toScan, stale, drains>>

\* drain_worker with a grace period: the capacity is read and the record is
\* marked now; a background task unregisters the id when the period is over.
\* The RPC does not ask that the id be registered.
DrainGraceful(d, w) ==
    /\ drains[d] = NoDrain
    /\ drains' = [drains EXCEPT ![d] = [worker |-> w, capacity |-> info[w].capacity]]
    /\ SetWorker(w, IF w \in registered THEN [info[w] EXCEPT !.draining = TRUE]
                                         ELSE info[w])
    /\ UNCHANGED <<lease, prep, toScan, stale>>

DrainExpire(d) ==
    /\ drains[d] # NoDrain
    /\ UnregisterWorker(drains[d].worker)
    /\ drains' = [drains EXCEPT ![d] = NoDrain]
    /\ UNCHANGED <<lease, prep, toScan, stale>>

Next ==
    \/ \E w \in WorkerIds :
          \/ RegisterAccepted(w)
          \/ RegisterRejected(w)
          \/ SupersedeScan(w)
          \/ \E s \in WorkerIds : SupersedeOne(w, s)
          \/ Heartbeat(w)
          \/ HeartbeatOverdue(w)
          \/ ReportOverdue(w)
          \/ TouchReport(w)
          \/ DrainNow(w)
          \/ \E d \in DrainOps : DrainGraceful(d, w)
    \/ \E t \in Tasks :
          \/ Reserve(t)
          \/ Release(t)
          \/ PrepareStart(t)
          \/ PrepareReady(t)
          \/ PrepareFailed(t)
    \/ \E d \in DrainOps : DrainExpire(d)

Spec == Init /\ [][Next]_schedulerVars

(***************************************************************************)
(* Fairness: a worker process keeps sending heartbeats, an episode that    *)
(* holds a lease ends (its deadline sees to it), timers fire, and the      *)
(* synchronous rest of a registration handler runs.                        *)
(***************************************************************************)
Fairness ==
    /\ \A t \in Tasks : WF_schedulerVars(Release(t))
    /\ \A w \in WorkerIds :
          /\ WF_schedulerVars(Heartbeat(w))
          /\ WF_schedulerVars(SupersedeScan(w))
          /\ \A s \in WorkerIds : WF_schedulerVars(SupersedeOne(w, s))
    /\ \A d \in DrainOps : WF_schedulerVars(DrainExpire(d))

FairSpec == Spec /\ Fairness

-----------------------------------------------------------------------------
(***************************************************************************)
(* Properties.                                                             *)
(***************************************************************************)
HeldOn(w) == {t \in Tasks : lease[t] = w}

\* The reservations a record counts are exactly the leases episodes hold on
\* that id, whatever registrations, drains and superseding happened meanwhile:
\* none is leaked, none is given back twice or to a successor record.
ReservationsMatchLeases ==
    \A w \in WorkerIds : info[w].reserved = Cardinality(HeldOn(w))

\* The record of an id is not dropped while an episode holds a lease on it.
LeasedStaysRegistered ==
    \A t \in Tasks : lease[t] # NoWorker => lease[t] \in registered

Live(w) == w \in registered /\ ~info[w].draining

\* Registrations at one endpoint replace one another: once no registration
\* handler is still superseding, at most one id per endpoint takes new work,
\* although the scan and the removals are separate steps that two
\* registrations can interleave.
OneLivePerEndpoint ==
    (toScan = {} /\ \A w \in WorkerIds : stale[w] = {}) =>
        \A v, w \in WorkerIds :
            Live(v) /\ Live(w) /\ EndpointOf[v] = EndpointOf[w] => v = w

\* A reservation goes to a worker that is not draining and keeps the leases
\* really held on it within the capacity it announced last.
GrantsFitCapacity ==
    [][\A t \in Tasks :
          lease[t] = NoWorker /\ lease'[t] # NoWorker =>
              /\ ~info[lease'[t]].draining
              /\ Cardinality({u \in Tasks : lease'[u] = lease'[t]})
                    <= info[lease'[t]].capacity]_schedulerVars

\* While a lease is held on an id its record is never replaced: neither a new
\* registration of the same id nor superseding makes a draining worker
\* schedulable under the old lease.
DrainingIsFinalUnderLease ==
    [][\A t \in Tasks, w \in WorkerIds :
          lease[t] = w /\ lease'[t] = w /\ info[w].draining
              => w \in registered' /\ info'[w].draining]_schedulerVars

\* What the comment on set_worker_draining promises: when reservations and
\* reported load are both zero the draining worker leaves the list.  Grace
\* periods and superseding still under way are excused.
DrainedIdle(w) ==
    /\ w \in registered
    /\ info[w].draining
    /\ EffectiveLoad(info[w]) = 0
    /\ \A d \in DrainOps : drains[d].worker # w

DrainedIdleIsRemoved ==
    \A w \in WorkerIds : DrainedIdle(w) ~> ~DrainedIdle(w)

=============================================================================
