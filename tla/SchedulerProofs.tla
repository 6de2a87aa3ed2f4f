-------------------------- MODULE SchedulerProofs --------------------------
(***************************************************************************)
(* Theorems about Scheduler, for every set of workers, tasks and reports.  *)
(*                                                                         *)
(* The inductive invariant adds two facts to the properties: an id without *)
(* a record has the blank one (so removal forgets nothing that a lease     *)
(* still needs), and two live ids at one endpoint always have a            *)
(* registration under way that will see or remove one of them.             *)
(***************************************************************************)
EXTENDS Scheduler, FiniteSetTheorems, TLAPS

BlankUnlessRegistered ==
    \A w \in WorkerIds \ registered : info[w] = Blank

SupersedePending ==
    \A v, w \in WorkerIds :
        Live(v) /\ Live(w) /\ EndpointOf[v] = EndpointOf[w] /\ v # w
            => v \in toScan \/ w \in toScan \/ v \in stale[w] \/ w \in stale[v]

Ledger ==
    /\ TypeOK
    /\ BlankUnlessRegistered
    /\ ReservationsMatchLeases
    /\ LeasedStaysRegistered

-----------------------------------------------------------------------------
(***************************************************************************)
(* Records.                                                                *)
(***************************************************************************)

\* The record of an id nobody registered is well typed and carries no load.
LEMMA BlankType == Blank \in WorkerInfo /\ EffectiveLoad(Blank) = 0 /\ Blank.reserved = 0
BY ConstantTypes DEF Blank, WorkerInfo, EffectiveLoad

\* The load of a record is a number no smaller than its reservations.
LEMMA LoadType ==
    ASSUME NEW r \in WorkerInfo
    PROVE  /\ EffectiveLoad(r) \in Nat
           /\ EffectiveLoad(r) >= r.reserved
BY DEF EffectiveLoad, WorkerInfo

\* Marking a record draining changes nothing else of it.
LEMMA DrainingType ==
    ASSUME NEW r \in WorkerInfo, NEW b \in BOOLEAN
    PROVE  LET q == [r EXCEPT !.draining = b]
           IN  q \in WorkerInfo /\ q.reserved = r.reserved /\ q.draining = b
BY DEF WorkerInfo

\* release takes one reservation off a record that has one.
LEMMA ReleaseType ==
    ASSUME NEW r \in WorkerInfo
    PROVE  /\ AfterRelease(r) \in WorkerInfo
           /\ AfterRelease(r).draining = r.draining
           /\ r.reserved > 0 => AfterRelease(r).reserved = r.reserved - 1
BY DEF WorkerInfo, AfterRelease

-----------------------------------------------------------------------------
(***************************************************************************)
(* Every step but Reserve and Release leaves the leases and the reservation *)
(* counts alone and drops only records that count no reservation.          *)
(***************************************************************************)
ListOK == registered \subseteq WorkerIds /\ info \in [WorkerIds -> WorkerInfo]

Neutral ==
    /\ ListOK'
    /\ BlankUnlessRegistered'
    /\ \A w \in WorkerIds : info'[w].reserved = info[w].reserved
    /\ \A w \in registered \ registered' : info[w].reserved = 0

\* Writing a record with the same reservations over an existing one is neutral.
LEMMA SetNeutral ==
    ASSUME ListOK, BlankUnlessRegistered,
           NEW w \in WorkerIds, NEW r \in WorkerInfo, SetWorker(w, r),
           r.reserved = info[w].reserved, w \in registered \/ r = info[w]
    PROVE  Neutral
BY DEF ListOK, BlankUnlessRegistered, SetWorker, Neutral

\* Removing a record without reservations is neutral.
LEMMA RemoveNeutral ==
    ASSUME ListOK, BlankUnlessRegistered,
           NEW w \in WorkerIds, info[w].reserved = 0, RemoveWorker(w)
    PROVE  Neutral
BY BlankType DEF ListOK, BlankUnlessRegistered, RemoveWorker, Neutral

\* unregister_worker is neutral: it removes an idle record or marks a busy one.
LEMMA UnregisterNeutral ==
    ASSUME ListOK, BlankUnlessRegistered, NEW w \in WorkerIds, UnregisterWorker(w)
    PROVE  Neutral
<1>1. info[w] \in WorkerInfo
  BY DEF ListOK
<1>2. CASE EffectiveLoad(info[w]) = 0 /\ RemoveWorker(w)
  <2>1. info[w].reserved = 0
    BY <1>1, <1>2, LoadType DEF WorkerInfo
  <2> QED BY <1>2, <2>1, RemoveNeutral
<1>3. CASE EffectiveLoad(info[w]) > 0 /\ SetWorker(w, [info[w] EXCEPT !.draining = TRUE])
  <2>1. w \in registered
    BY <1>3, BlankType DEF BlankUnlessRegistered
  <2>2. LET q == [info[w] EXCEPT !.draining = TRUE]
        IN  q \in WorkerInfo /\ q.reserved = info[w].reserved
    BY <1>1, DrainingType
  <2> QED BY <1>3, <2>1, <2>2, SetNeutral
<1> QED BY <1>2, <1>3 DEF UnregisterWorker

\* Replacing an absent or idle record is neutral.
LEMMA RegisterNeutral ==
    ASSUME ListOK, BlankUnlessRegistered, NEW w \in WorkerIds, RegisterAccepted(w)
    PROVE  Neutral
<1>1. info[w] \in WorkerInfo /\ info[w].reserved = 0
  <2>1. info[w] \in WorkerInfo
    BY DEF ListOK
  <2> QED BY <2>1, LoadType DEF RegisterAccepted, WorkerInfo
<1>2. PICK l \in Loads, m \in MaxLoads, c \in MaxConcurrents, s \in Resources,
           e \in EnvReports, p \in PackageReports, dyn \in DynamicReports :
             info' = [info EXCEPT ![w] =
                        NewWorker(AnnouncedCapacity(m, c), NonNegative(l), s, e, p, dyn)]
  BY DEF RegisterAccepted
<1> DEFINE r == NewWorker(AnnouncedCapacity(m, c), NonNegative(l), s, e, p, dyn)
<1>3. AnnouncedCapacity(m, c) \in Nat /\ NonNegative(l) \in Nat
  BY ConstantTypes DEF AnnouncedCapacity, NonNegative
<1>4. r \in WorkerInfo /\ r.reserved = 0
  BY <1>3, ConstantTypes DEF NewWorker, WorkerInfo
<1>5. registered' = registered \union {w}
  BY DEF RegisterAccepted
<1> HIDE DEF r
<1>6. info' = [info EXCEPT ![w] = r]
  BY <1>2 DEF r
<1> QED BY <1>1, <1>4, <1>5, <1>6 DEF ListOK, BlankUnlessRegistered, Neutral

\* A heartbeat, a clock tick or a result keeps the reservations of the record.
LEMMA HeartbeatNeutral ==
    ASSUME ListOK, BlankUnlessRegistered, NEW w \in WorkerIds, Heartbeat(w)
    PROVE  Neutral /\ info'[w].draining = info[w].draining
<1>1. w \in registered /\ info[w] \in WorkerInfo
  BY DEF Heartbeat, ListOK
<1>2. PICK l \in Loads, m \in MaxLoads, e \in EnvReports \union {{}}, dyn \in DynamicReports :
             SetWorker(w,
               [info[w] EXCEPT
                  !.reported = NonNegative(l),
                  !.capacity = IF NonNegative(m) > 0 THEN NonNegative(m) ELSE @,
                  !.heartbeatAge = 0,
                  !.reportAge = IF NonNegative(l) = 0 THEN 0 ELSE @,
                  !.envs = IF e # {} THEN e ELSE @,
                  !.dynamic = dyn])
  BY DEF Heartbeat
<1> DEFINE r == [info[w] EXCEPT
                  !.reported = NonNegative(l),
                  !.capacity = IF NonNegative(m) > 0 THEN NonNegative(m) ELSE @,
                  !.heartbeatAge = 0,
                  !.reportAge = IF NonNegative(l) = 0 THEN 0 ELSE @,
                  !.envs = IF e # {} THEN e ELSE @,
                  !.dynamic = dyn]
<1>3. NonNegative(l) \in Nat /\ NonNegative(m) \in Nat /\ 0 \in 0..MaxAge
  BY ConstantTypes DEF NonNegative
<1>4. r \in WorkerInfo /\ r.reserved = info[w].reserved /\ r.draining = info[w].draining
  BY <1>1, <1>3, ConstantTypes DEF WorkerInfo
<1> HIDE DEF r
<1>5. SetWorker(w, r)
  BY <1>2 DEF r
<1> QED BY <1>1, <1>4, <1>5, SetNeutral DEF SetWorker, ListOK

\* Ageing and touching a record keep its reservations and its draining flag.
LEMMA AgeNeutral ==
    ASSUME ListOK, BlankUnlessRegistered, NEW w \in WorkerIds,
           HeartbeatOverdue(w) \/ ReportOverdue(w) \/ TouchReport(w)
    PROVE  Neutral /\ info'[w].draining = info[w].draining
<1>1. w \in registered /\ info[w] \in WorkerInfo
  BY DEF HeartbeatOverdue, ReportOverdue, TouchReport, ListOK
<1>2. PICK r \in WorkerInfo :
        r.reserved = info[w].reserved /\ r.draining = info[w].draining /\ SetWorker(w, r)
  <2>1. CASE HeartbeatOverdue(w)
    <3>1. info[w].heartbeatAge + 1 \in 0..MaxAge
      BY <1>1, <2>1, ConstantTypes DEF HeartbeatOverdue, WorkerInfo
    <3> DEFINE r == [info[w] EXCEPT !.heartbeatAge = @ + 1]
    <3>2. r \in WorkerInfo /\ r.reserved = info[w].reserved /\ r.draining = info[w].draining
      BY <1>1, <3>1 DEF WorkerInfo
    <3> QED BY <2>1, <3>2 DEF HeartbeatOverdue
  <2>2. CASE ReportOverdue(w)
    <3>1. info[w].reportAge + 1 \in 0..MaxAge
      BY <1>1, <2>2, ConstantTypes DEF ReportOverdue, WorkerInfo
    <3> DEFINE r == [info[w] EXCEPT !.reportAge = @ + 1]
    <3>2. r \in WorkerInfo /\ r.reserved = info[w].reserved /\ r.draining = info[w].draining
      BY <1>1, <3>1 DEF WorkerInfo
    <3> QED BY <2>2, <3>2 DEF ReportOverdue
  <2>3. CASE TouchReport(w)
    <3> DEFINE r == [info[w] EXCEPT !.reportAge = 0]
    <3>2. r \in WorkerInfo /\ r.reserved = info[w].reserved /\ r.draining = info[w].draining
      BY <1>1, ConstantTypes DEF WorkerInfo
    <3> QED BY <2>3, <3>2 DEF TouchReport
  <2> QED BY <2>1, <2>2, <2>3
<1> QED BY <1>1, <1>2, SetNeutral DEF SetWorker, ListOK

\* Marking a prepared environment keeps reservations and draining flag.
LEMMA PrepareNeutral ==
    ASSUME TypeOK, BlankUnlessRegistered, NEW t \in Tasks, PrepareReady(t)
    PROVE  Neutral /\ info'[prep[t]].draining = info[prep[t]].draining
<1> DEFINE w == prep[t]
           q == [info[w] EXCEPT !.envs = @ \union {EnvOf[t]},
                                !.packages = @ \union ({PackageOf[t]} \ {NoPackage})]
           r == IF w \in registered THEN q ELSE info[w]
<1>1. w \in WorkerIds /\ info[w] \in WorkerInfo /\ ListOK
  BY DEF PrepareReady, TypeOK, ListOK
<1>2. EnvOf[t] \in EnvTypes /\ {PackageOf[t]} \ {NoPackage} \subseteq Packages
  BY ConstantTypes
<1>3. q \in WorkerInfo /\ q.reserved = info[w].reserved /\ q.draining = info[w].draining
  BY <1>1, <1>2 DEF WorkerInfo
<1>4. SetWorker(w, r)
  BY DEF PrepareReady
<1>5. /\ r \in WorkerInfo /\ r.reserved = info[w].reserved
      /\ r.draining = info[w].draining
      /\ w \in registered \/ r = info[w]
  BY <1>1, <1>3
<1> HIDE DEF w, q, r
<1>6. Neutral
  BY <1>1, <1>4, <1>5, SetNeutral
<1>7. info'[w].draining = info[w].draining
  BY <1>1, <1>4, <1>5 DEF SetWorker, ListOK
<1> QED BY <1>6, <1>7 DEF w

\* Marking a worker for a graceful drain keeps its reservations.
LEMMA DrainNeutral ==
    ASSUME TypeOK, BlankUnlessRegistered, NEW d \in DrainOps, NEW w \in WorkerIds,
           DrainGraceful(d, w)
    PROVE  Neutral /\ ~Live(w)'
<1>1. info[w] \in WorkerInfo /\ ListOK
  BY DEF TypeOK, ListOK
<1> DEFINE r == IF w \in registered THEN [info[w] EXCEPT !.draining = TRUE] ELSE info[w]
<1>2. r \in WorkerInfo /\ r.reserved = info[w].reserved /\ (w \in registered => r.draining)
  BY <1>1, DrainingType
<1>3. SetWorker(w, r)
  BY DEF DrainGraceful
<1>4. w \notin registered => r = info[w]
  OBVIOUS
<1> HIDE DEF r
<1>5. Neutral
  BY <1>1, <1>2, <1>3, <1>4, SetNeutral
<1>6. ~Live(w)'
  BY <1>1, <1>2, <1>3 DEF SetWorker, ListOK, Live
<1> QED BY <1>5, <1>6

-----------------------------------------------------------------------------
(***************************************************************************)
(* The ledger.                                                             *)
(***************************************************************************)
\* The leases on an id form a finite set, so their number makes sense.
LEMMA HeldFinite ==
    \A w \in WorkerIds : IsFiniteSet(HeldOn(w)) /\ Cardinality(HeldOn(w)) \in Nat
<1>1. \A w \in WorkerIds : HeldOn(w) \in SUBSET Tasks
  BY DEF HeldOn
<1> QED BY <1>1, TasksFinite, FS_Subset, FS_CardinalityType

\* A neutral step that leaves the leases alone keeps the ledger.
LEMMA NeutralKeepsLedger ==
    ASSUME Ledger, Neutral, lease' = lease, TypeOK'
    PROVE  Ledger'
<1>1. \A w \in WorkerIds : HeldOn(w)' = HeldOn(w)
  BY DEF HeldOn
<1>2. ReservationsMatchLeases'
  BY <1>1 DEF Ledger, ReservationsMatchLeases, Neutral
<1>3. ASSUME NEW t \in Tasks, lease[t] # NoWorker
      PROVE  lease[t] \in registered'
  <2>1. lease[t] \in WorkerIds /\ lease[t] \in registered /\ t \in HeldOn(lease[t])
    BY <1>3 DEF Ledger, TypeOK, LeasedStaysRegistered, HeldOn
  <2>2. Cardinality(HeldOn(lease[t])) # 0
    BY <2>1, HeldFinite, FS_EmptySet
  <2> QED BY <2>1, <2>2 DEF Ledger, ReservationsMatchLeases, Neutral
<1> QED BY <1>2, <1>3 DEF LeasedStaysRegistered, Ledger, Neutral

\* reserve counts the new lease once.
LEMMA ReserveKeepsLedger ==
    ASSUME Ledger, NEW t \in Tasks, Reserve(t)
    PROVE  Ledger'
<1>1. PICK w \in registered :
        /\ SetWorker(w, [info[w] EXCEPT !.reserved = @ + 1])
        /\ lease' = [lease EXCEPT ![t] = w]
  BY DEF Reserve, Candidates
<1>2. w \in WorkerIds /\ info[w] \in WorkerInfo /\ lease[t] = NoWorker /\ w # NoWorker
  BY ConstantTypes DEF Ledger, TypeOK, Reserve
<1> DEFINE r == [info[w] EXCEPT !.reserved = @ + 1]
<1>3. r \in WorkerInfo /\ r.reserved = info[w].reserved + 1
  BY <1>2 DEF WorkerInfo
<1>4. info' = [info EXCEPT ![w] = r] /\ registered' = registered
  BY <1>1 DEF SetWorker
<1> HIDE DEF r
<1>5. TypeOK'
  BY <1>1, <1>2, <1>3, <1>4 DEF Ledger, TypeOK, Reserve
<1>6. HeldOn(w)' = HeldOn(w) \union {t} /\ t \notin HeldOn(w)
  BY <1>1, <1>2 DEF HeldOn, Ledger, TypeOK
<1>7. \A v \in WorkerIds \ {w} : HeldOn(v)' = HeldOn(v)
  BY <1>1, <1>2, ConstantTypes DEF HeldOn, Ledger, TypeOK
<1>8. Cardinality(HeldOn(w)') = Cardinality(HeldOn(w)) + 1
  BY <1>2, <1>6, HeldFinite, FS_AddElement
<1>9. ReservationsMatchLeases'
  BY <1>2, <1>3, <1>4, <1>7, <1>8 DEF Ledger, ReservationsMatchLeases, TypeOK
<1>10. LeasedStaysRegistered' /\ BlankUnlessRegistered'
  BY <1>1, <1>2, <1>4 DEF Ledger, LeasedStaysRegistered, BlankUnlessRegistered, TypeOK
<1> QED BY <1>5, <1>9, <1>10 DEF Ledger

\* release takes the lease off the count once, and drops the record only
\* when that was the last one.
LEMMA ReleaseKeepsLedger ==
    ASSUME Ledger, NEW t \in Tasks, Release(t)
    PROVE  Ledger'
<1>0. PICK w \in WorkerIds : lease[t] = w
  BY DEF Release, Ledger, TypeOK
<1> DEFINE r == AfterRelease(info[w])
<1>1. /\ w \in WorkerIds /\ w \in registered /\ w # NoWorker
      /\ info[w] \in WorkerInfo /\ t \in HeldOn(w)
      /\ info[w].reserved = Cardinality(HeldOn(w))
  BY <1>0 DEF Release, Ledger, TypeOK, LeasedStaysRegistered, ReservationsMatchLeases, HeldOn
<1>2. lease' = [lease EXCEPT ![t] = NoWorker] /\ ReleaseWorker(w)
  BY <1>0 DEF Release
<1>3. HeldOn(w)' = HeldOn(w) \ {t}
  BY <1>1, <1>2 DEF HeldOn, Ledger, TypeOK
<1>4. \A v \in WorkerIds \ {w} : HeldOn(v)' = HeldOn(v)
  BY <1>0, <1>1, <1>2, ConstantTypes DEF HeldOn, Ledger, TypeOK
<1>5. Cardinality(HeldOn(w)') = Cardinality(HeldOn(w)) - 1 /\ Cardinality(HeldOn(w)) # 0
  BY <1>1, <1>3, HeldFinite, FS_RemoveElement, FS_EmptySet
<1>6. r \in WorkerInfo /\ r.reserved = Cardinality(HeldOn(w)')
  BY <1>1, <1>5, HeldFinite, ReleaseType
<1>7. CASE r.draining /\ EffectiveLoad(r) = 0 /\ RemoveWorker(w)
  <2>1. info' = [info EXCEPT ![w] = Blank] /\ registered' = registered \ {w}
    BY <1>7 DEF RemoveWorker
  <2>2. Cardinality(HeldOn(w)') = 0 /\ HeldOn(w)' = {}
    <3>1. r.reserved = 0
      BY <1>6, <1>7, LoadType DEF WorkerInfo
    <3>2. IsFiniteSet(HeldOn(w)')
      BY <1>1, <1>3, HeldFinite, FS_Subset
    <3> QED BY <1>6, <3>1, <3>2, FS_EmptySet
  <2>3. TypeOK'
    BY <1>1, <1>2, <2>1, BlankType DEF Ledger, TypeOK, Release
  <2>4. ReservationsMatchLeases'
    BY <1>1, <1>4, <2>1, <2>2, BlankType DEF Ledger, ReservationsMatchLeases, TypeOK
  <2>5. LeasedStaysRegistered'
    BY <1>1, <1>2, <2>1, <2>2 DEF Ledger, LeasedStaysRegistered, HeldOn, TypeOK
  <2>6. BlankUnlessRegistered'
    BY <1>1, <2>1 DEF Ledger, BlankUnlessRegistered, TypeOK
  <2> QED BY <2>3, <2>4, <2>5, <2>6 DEF Ledger
<1>8. CASE SetWorker(w, r)
  <2>1. info' = [info EXCEPT ![w] = r] /\ registered' = registered
    BY <1>8 DEF SetWorker
  <2> HIDE DEF r
  <2>3. TypeOK'
    BY <1>1, <1>2, <1>6, <2>1 DEF Ledger, TypeOK, Release
  <2>4. ReservationsMatchLeases'
    BY <1>1, <1>4, <1>6, <2>1 DEF Ledger, ReservationsMatchLeases, TypeOK
  <2>5. LeasedStaysRegistered'
    BY <1>1, <1>2, <2>1 DEF Ledger, LeasedStaysRegistered, TypeOK
  <2>6. BlankUnlessRegistered'
    BY <1>1, <2>1 DEF Ledger, BlankUnlessRegistered, TypeOK
  <2> QED BY <2>3, <2>4, <2>5, <2>6 DEF Ledger
<1> QED BY <1>2, <1>7, <1>8 DEF ReleaseWorker

-----------------------------------------------------------------------------
(***************************************************************************)
(* Liveness of ids (which may be scheduled) only grows by registration.    *)
(***************************************************************************)
NoNewLive == \A v \in WorkerIds : Live(v)' => Live(v)

\* unregister_worker makes no id schedulable and its own id unschedulable.
LEMMA UnregisterLive ==
    ASSUME ListOK, NEW w \in WorkerIds, UnregisterWorker(w)
    PROVE  NoNewLive /\ ~Live(w)'
<1>1. info[w] \in WorkerInfo
  BY DEF ListOK
<1>2. CASE RemoveWorker(w)
  BY <1>2 DEF RemoveWorker, Live, NoNewLive, ListOK
<1>3. CASE SetWorker(w, [info[w] EXCEPT !.draining = TRUE])
  <2> DEFINE q == [info[w] EXCEPT !.draining = TRUE]
  <2>1. q.draining
    BY <1>1, DrainingType
  <2> HIDE DEF q
  <2>2. info' = [info EXCEPT ![w] = q] /\ registered' = registered
    BY <1>3 DEF SetWorker, q
  <2> QED BY <2>1, <2>2 DEF Live, NoNewLive, ListOK
<1> QED BY <1>2, <1>3 DEF UnregisterWorker

\* A write that keeps the draining flag, or sets it, makes no id schedulable.
LEMMA SetLive ==
    ASSUME ListOK, NEW w \in WorkerIds, info'[w].draining = info[w].draining,
           \E r : SetWorker(w, r)
    PROVE  NoNewLive
BY DEF SetWorker, ListOK, Live, NoNewLive

\* Superseding stays pending over a step that makes no id schedulable and
\* keeps the registrations under way.
LEMMA QuietKeepsPending ==
    ASSUME SupersedePending, NoNewLive, toScan' = toScan, stale' = stale
    PROVE  SupersedePending'
BY DEF SupersedePending, NoNewLive

-----------------------------------------------------------------------------
Invariant == Ledger /\ SupersedePending

\* The initial state, an empty worker list, satisfies the invariant.
LEMMA InitInvariant == Init => Invariant
<1> SUFFICES ASSUME Init PROVE Invariant
  OBVIOUS
<1>1. TypeOK
  BY BlankType, ConstantTypes DEF Init, TypeOK
<1>2. ReservationsMatchLeases
  <2>1. \A w \in WorkerIds : HeldOn(w) = {}
    BY ConstantTypes DEF Init, HeldOn
  <2> QED BY <2>1, FS_EmptySet, BlankType DEF Init, ReservationsMatchLeases
<1>3. BlankUnlessRegistered /\ LeasedStaysRegistered /\ SupersedePending
  BY DEF Init, BlankUnlessRegistered, LeasedStaysRegistered, SupersedePending, Live
<1> QED BY <1>1, <1>2, <1>3 DEF Invariant, Ledger

\* Every step keeps the invariant, one case per action.
LEMMA NextInvariant == Invariant /\ [Next]_schedulerVars => Invariant'
<1> SUFFICES ASSUME Invariant, [Next]_schedulerVars PROVE Invariant'
  OBVIOUS
<1>t. TypeOK /\ ListOK /\ BlankUnlessRegistered /\ SupersedePending /\ Ledger
  BY DEF Invariant, Ledger, TypeOK, ListOK
<1>1. ASSUME NEW w \in WorkerIds, RegisterAccepted(w)
      PROVE  Invariant'
  <2>1. Neutral
    BY <1>1, <1>t, RegisterNeutral
  <2>2. TypeOK'
    BY <1>1, <1>t, <2>1 DEF TypeOK, Neutral, ListOK, RegisterAccepted
  <2>3. Ledger'
    BY <1>1, <1>t, <2>1, <2>2, NeutralKeepsLedger DEF RegisterAccepted
  <2>4. \A v \in WorkerIds \ {w} : Live(v)' => Live(v)
    BY <1>1, <1>t DEF RegisterAccepted, Live, ListOK
  <2>5. toScan' = toScan \union {w} /\ stale' = stale
    BY <1>1 DEF RegisterAccepted
  <2> QED BY <2>3, <2>4, <2>5, <1>t DEF Invariant, SupersedePending
<1>2. ASSUME NEW w \in WorkerIds, RegisterRejected(w)
      PROVE  Invariant'
  <2>1. UnregisterWorker(w) /\ UNCHANGED <<lease, prep, toScan, stale, drains>>
    BY <1>2 DEF RegisterRejected, UnregisterWorker
  <2>2. Neutral /\ NoNewLive
    BY <1>t, <2>1, UnregisterNeutral, UnregisterLive
  <2>3. TypeOK'
    BY <1>t, <2>1, <2>2 DEF TypeOK, Neutral, ListOK
  <2> QED BY <1>t, <2>1, <2>2, <2>3, NeutralKeepsLedger, QuietKeepsPending DEF Invariant
<1>3. ASSUME NEW w \in WorkerIds, SupersedeScan(w)
      PROVE  Invariant'
  <2>1. Neutral
    BY <1>3, <1>t DEF SupersedeScan, Neutral, ListOK, BlankUnlessRegistered
  <2>2. TypeOK'
    BY <1>3, <1>t DEF SupersedeScan, TypeOK
  <2>3. Ledger'
    BY <1>3, <1>t, <2>1, <2>2, NeutralKeepsLedger DEF SupersedeScan
  <2>4. SupersedePending'
    BY <1>3, <1>t DEF SupersedeScan, SupersedePending, Live, TypeOK
  <2> QED BY <2>3, <2>4 DEF Invariant
<1>4. ASSUME NEW w \in WorkerIds, NEW s \in WorkerIds, SupersedeOne(w, s)
      PROVE  Invariant'
  <2>1. UnregisterWorker(s) /\ lease' = lease
    BY <1>4 DEF SupersedeOne
  <2>2. Neutral /\ NoNewLive /\ ~Live(s)'
    BY <1>t, <2>1, UnregisterNeutral, UnregisterLive
  <2>3. TypeOK'
    BY <1>4, <1>t, <2>2 DEF TypeOK, Neutral, ListOK, SupersedeOne
  <2>4. Ledger'
    BY <1>t, <2>1, <2>2, <2>3, NeutralKeepsLedger
  <2>5. SupersedePending'
    BY <1>4, <1>t, <2>2 DEF SupersedeOne, SupersedePending, NoNewLive, TypeOK
  <2> QED BY <2>4, <2>5 DEF Invariant
<1>5. ASSUME NEW w \in WorkerIds,
             Heartbeat(w) \/ HeartbeatOverdue(w) \/ ReportOverdue(w) \/ TouchReport(w)
      PROVE  Invariant'
  <2>1. Neutral /\ info'[w].draining = info[w].draining
    BY <1>5, <1>t, HeartbeatNeutral, AgeNeutral
  <2>2. UNCHANGED <<lease, prep, toScan, stale, drains>> /\ \E r : SetWorker(w, r)
    BY <1>5 DEF Heartbeat, HeartbeatOverdue, ReportOverdue, TouchReport
  <2>3. TypeOK'
    BY <1>t, <2>1, <2>2 DEF TypeOK, Neutral, ListOK
  <2>4. NoNewLive
    BY <1>t, <2>1, <2>2, SetLive
  <2> QED BY <1>t, <2>1, <2>2, <2>3, <2>4, NeutralKeepsLedger, QuietKeepsPending DEF Invariant
<1>6. ASSUME NEW w \in WorkerIds, DrainNow(w)
      PROVE  Invariant'
  <2>1. UnregisterWorker(w) /\ UNCHANGED <<lease, prep, toScan, stale, drains>>
    BY <1>6 DEF DrainNow
  <2>2. Neutral /\ NoNewLive
    BY <1>t, <2>1, UnregisterNeutral, UnregisterLive
  <2>3. TypeOK'
    BY <1>t, <2>1, <2>2 DEF TypeOK, Neutral, ListOK
  <2> QED BY <1>t, <2>1, <2>2, <2>3, NeutralKeepsLedger, QuietKeepsPending DEF Invariant
<1>7. ASSUME NEW w \in WorkerIds, NEW d \in DrainOps, DrainGraceful(d, w)
      PROVE  Invariant'
  <2>1. Neutral /\ ~Live(w)'
    BY <1>7, <1>t, DrainNeutral
  <2>2. UNCHANGED <<lease, prep, toScan, stale>> /\ \E r : SetWorker(w, r)
    BY <1>7 DEF DrainGraceful
  <2>3. info[w].capacity \in Nat
    BY <1>t DEF TypeOK, WorkerInfo
  <2>4. TypeOK'
    BY <1>7, <1>t, <2>1, <2>2, <2>3 DEF TypeOK, Neutral, ListOK, DrainGraceful
  <2>5. NoNewLive
    BY <1>t, <2>1, <2>2 DEF NoNewLive, Live, SetWorker, ListOK
  <2> QED BY <1>t, <2>1, <2>2, <2>4, <2>5, NeutralKeepsLedger, QuietKeepsPending DEF Invariant
<1>8. ASSUME NEW d \in DrainOps, DrainExpire(d)
      PROVE  Invariant'
  <2>0. drains[d].worker \in WorkerIds
    BY <1>8, <1>t DEF TypeOK, DrainExpire
  <2>1. UnregisterWorker(drains[d].worker) /\ UNCHANGED <<lease, prep, toScan, stale>>
    BY <1>8 DEF DrainExpire
  <2>2. Neutral /\ NoNewLive
    BY <1>t, <2>0, <2>1, UnregisterNeutral, UnregisterLive
  <2>3. TypeOK'
    BY <1>8, <1>t, <2>1, <2>2 DEF TypeOK, Neutral, ListOK, DrainExpire
  <2> QED BY <1>t, <2>1, <2>2, <2>3, NeutralKeepsLedger, QuietKeepsPending DEF Invariant
<1>9. ASSUME NEW t \in Tasks, Reserve(t)
      PROVE  Invariant'
  <2>1. Ledger'
    BY <1>9, <1>t, ReserveKeepsLedger
  <2>2. PICK w \in WorkerIds : SetWorker(w, [info[w] EXCEPT !.reserved = @ + 1])
    BY <1>9, <1>t DEF Reserve, Candidates, TypeOK
  <2>3. info'[w].draining = info[w].draining
    BY <1>t, <2>2 DEF SetWorker, TypeOK, WorkerInfo
  <2>4. NoNewLive
    BY <1>t, <2>2, <2>3, SetLive
  <2> QED BY <1>9, <1>t, <2>1, <2>4, QuietKeepsPending DEF Invariant, Reserve
<1>10. ASSUME NEW t \in Tasks, Release(t)
       PROVE  Invariant'
  <2>1. Ledger'
    BY <1>10, <1>t, ReleaseKeepsLedger
  <2>2. lease[t] \in WorkerIds /\ ReleaseWorker(lease[t])
    BY <1>10, <1>t DEF Release, TypeOK
  <2>3. CASE RemoveWorker(lease[t])
    <3>1. NoNewLive
      BY <1>t, <2>2, <2>3 DEF RemoveWorker, Live, NoNewLive, ListOK
    <3> QED BY <1>10, <1>t, <2>1, <3>1, QuietKeepsPending DEF Invariant, Release
  <2>4. CASE SetWorker(lease[t], AfterRelease(info[lease[t]]))
    <3>1. info'[lease[t]].draining = info[lease[t]].draining
      BY <1>t, <2>2, <2>4, ReleaseType DEF SetWorker, ListOK
    <3>2. NoNewLive
      BY <1>t, <2>2, <2>4, <3>1, SetLive
    <3> QED BY <1>10, <1>t, <2>1, <3>2, QuietKeepsPending DEF Invariant, Release
  <2> QED BY <2>2, <2>3, <2>4 DEF ReleaseWorker
<1>11. ASSUME NEW t \in Tasks, PrepareReady(t)
       PROVE  Invariant'
  <2>1. Neutral /\ info'[prep[t]].draining = info[prep[t]].draining
    BY <1>11, <1>t, PrepareNeutral
  <2>2. /\ UNCHANGED <<lease, toScan, stale, drains>>
        /\ prep[t] \in WorkerIds
        /\ \E r : SetWorker(prep[t], r)
    BY <1>11, <1>t DEF PrepareReady, TypeOK
  <2>3. TypeOK'
    BY <1>11, <1>t, <2>1, <2>2 DEF TypeOK, Neutral, ListOK, PrepareReady
  <2>4. NoNewLive
    BY <1>t, <2>1, <2>2, SetLive
  <2> QED BY <1>t, <2>1, <2>2, <2>3, <2>4, NeutralKeepsLedger, QuietKeepsPending DEF Invariant
<1>12. ASSUME NEW t \in Tasks, PrepareStart(t) \/ PrepareFailed(t)
       PROVE  Invariant'
  <2>1. UNCHANGED <<registered, info, lease, toScan, stale, drains>>
    BY <1>12 DEF PrepareStart, PrepareFailed
  <2>2. TypeOK'
    BY <1>12, <1>t, <2>1 DEF TypeOK, PrepareStart, PrepareFailed
  <2>3. Neutral /\ NoNewLive
    BY <1>t, <2>1 DEF Neutral, NoNewLive, ListOK, Live, BlankUnlessRegistered
  <2> QED BY <1>t, <2>1, <2>2, <2>3, NeutralKeepsLedger, QuietKeepsPending DEF Invariant
<1>13. CASE UNCHANGED schedulerVars
  BY <1>13, <1>t DEF schedulerVars, Invariant, Ledger, TypeOK, BlankUnlessRegistered,
     ReservationsMatchLeases, LeasedStaysRegistered, SupersedePending, Live, HeldOn
<1> QED BY <1>1, <1>2, <1>3, <1>4, <1>5, <1>6, <1>7, <1>8, <1>9, <1>10, <1>11, <1>12, <1>13
        DEF Next

\* The invariant holds in every reachable state of the scheduler.
THEOREM SchedulerInvariant == Spec => []Invariant
BY InitInvariant, NextInvariant, PTL DEF Spec

\* Every record, lease and pending operation of the scheduler is well typed;
\* in particular reservations never go below zero.
THEOREM SchedulerTypeCorrect == Spec => []TypeOK
<1>1. Invariant => TypeOK
  BY DEF Invariant, Ledger
<1> QED BY <1>1, SchedulerInvariant, PTL

\* The reservations counted on a worker are exactly the leases held on it.
THEOREM ReservationLedgerExact == Spec => []ReservationsMatchLeases
<1>1. Invariant => ReservationsMatchLeases
  BY DEF Invariant, Ledger
<1> QED BY <1>1, SchedulerInvariant, PTL

\* No record is dropped under a lease, by drain, superseding or release.
THEOREM LeasedWorkersStay == Spec => []LeasedStaysRegistered
<1>1. Invariant => LeasedStaysRegistered
  BY DEF Invariant, Ledger
<1> QED BY <1>1, SchedulerInvariant, PTL

\* At most one schedulable id per endpoint once superseding has finished.
THEOREM EndpointExclusive == Spec => []OneLivePerEndpoint
<1>1. Invariant => OneLivePerEndpoint
  BY DEF Invariant, SupersedePending, OneLivePerEndpoint
<1> QED BY <1>1, SchedulerInvariant, PTL

-----------------------------------------------------------------------------
(***************************************************************************)
(* Action properties.                                                      *)
(***************************************************************************)

\* Leases are granted by Reserve only and end by Release only.
LEMMA LeaseSteps ==
    ASSUME Next
    PROVE  \/ lease' = lease
           \/ \E t \in Tasks : Reserve(t) \/ Release(t)
BY DEF Next, RegisterAccepted, RegisterRejected, SupersedeScan, SupersedeOne, Heartbeat,
       HeartbeatOverdue, ReportOverdue, TouchReport, DrainNow, DrainGraceful, DrainExpire,
       PrepareStart, PrepareReady, PrepareFailed

\* A grant never takes the leases held on a worker past its capacity and
\* never goes to a draining worker.
THEOREM GrantsWithinCapacity == Spec => GrantsFitCapacity
<1> DEFINE Fits(t) == /\ ~info[lease'[t]].draining
                      /\ Cardinality({u \in Tasks : lease'[u] = lease'[t]})
                            <= info[lease'[t]].capacity
<1>1. ASSUME Invariant, Invariant', Next,
             NEW t \in Tasks, lease[t] = NoWorker, lease'[t] # NoWorker
      PROVE  Fits(t)
  <2>t. TypeOK /\ TypeOK' /\ ReservationsMatchLeases'
    BY <1>1 DEF Invariant, Ledger
  <2>1. Reserve(t)
    BY <1>1, <2>t, LeaseSteps DEF Reserve, Release, TypeOK
  <2>2. PICK w \in WorkerIds :
          /\ IsEligible(info[w], t)
          /\ SetWorker(w, [info[w] EXCEPT !.reserved = @ + 1])
          /\ lease'[t] = w
    BY <2>1, <2>t DEF Reserve, Candidates, TypeOK
  <2>3. info[w] \in WorkerInfo
    BY <2>t DEF TypeOK
  <2>4. info'[w].reserved = info[w].reserved + 1
    BY <2>2, <2>3, <2>t DEF SetWorker, TypeOK, WorkerInfo
  <2>5. /\ ~info[w].draining
        /\ EffectiveLoad(info[w]) < info[w].capacity
    BY <2>2 DEF IsEligible
  <2>6. info[w].reserved + 1 <= info[w].capacity
    BY <2>3, <2>5, LoadType DEF WorkerInfo
  <2>7. info'[w].reserved = Cardinality({u \in Tasks : lease'[u] = w})
    BY <2>t DEF ReservationsMatchLeases, HeldOn
  <2> QED BY <2>2, <2>4, <2>5, <2>6, <2>7
<1>2. Invariant /\ Invariant' /\ [Next]_schedulerVars =>
        [\A t \in Tasks : lease[t] = NoWorker /\ lease'[t] # NoWorker => Fits(t)]_schedulerVars
  BY <1>1
<1> QED BY <1>2, SchedulerInvariant, PTL DEF Spec, GrantsFitCapacity

\* Under a held lease the record of the worker is kept and stays draining.
THEOREM DrainingStaysFinal == Spec => DrainingIsFinalUnderLease
<1> DEFINE Final(t, w) == lease[t] = w /\ lease'[t] = w /\ info[w].draining
                             => w \in registered' /\ info'[w].draining
<1>1. ASSUME Invariant, Invariant', Next, NEW t \in Tasks, NEW w \in WorkerIds,
             lease[t] = w, lease'[t] = w, info[w].draining
      PROVE  w \in registered' /\ info'[w].draining
  <2>t. /\ TypeOK /\ TypeOK' /\ ListOK /\ BlankUnlessRegistered
        /\ w \in registered /\ w \in registered'
        /\ info[w] \in WorkerInfo
    BY <1>1, ConstantTypes
       DEF Invariant, Ledger, LeasedStaysRegistered, TypeOK, ListOK
  <2>1. EffectiveLoad(info[w]) > 0
    <3>1. info[w].reserved = Cardinality(HeldOn(w)) /\ t \in HeldOn(w)
      BY <1>1 DEF Invariant, Ledger, ReservationsMatchLeases, HeldOn
    <3>2. info[w].reserved > 0
      BY <3>1, HeldFinite, FS_EmptySet
    <3> QED BY <2>t, <3>2, LoadType DEF WorkerInfo
  <2>2. ASSUME NEW v \in WorkerIds, SetWorker(v, [info[v] EXCEPT !.draining = TRUE])
        PROVE  info'[w].draining
    BY <1>1, <2>2, <2>t, DrainingType DEF SetWorker, ListOK
  <2>3. ASSUME NEW v \in WorkerIds, RemoveWorker(v)
        PROVE  info'[w].draining
    BY <1>1, <2>3, <2>t DEF RemoveWorker, ListOK
  <2>4. ASSUME NEW v \in WorkerIds, UnregisterWorker(v)
        PROVE  info'[w].draining
    BY <2>2, <2>3, <2>4 DEF UnregisterWorker
  <2>5. ASSUME NEW v \in WorkerIds, NEW r, SetWorker(v, r), r.draining = info[v].draining
        PROVE  info'[w].draining
    BY <1>1, <2>5, <2>t DEF SetWorker, ListOK
  <2>6. ASSUME NEW v \in WorkerIds, RegisterAccepted(v)
        PROVE  info'[w].draining
    BY <1>1, <2>1, <2>6, <2>t DEF RegisterAccepted, ListOK
  <2>7. ASSUME NEW v \in WorkerIds, \E r : SetWorker(v, r),
               info'[v].draining = info[v].draining
        PROVE  info'[w].draining
    BY <1>1, <2>7, <2>t DEF SetWorker, ListOK
  <2>8. ASSUME NEW v \in WorkerIds,
               Heartbeat(v) \/ HeartbeatOverdue(v) \/ ReportOverdue(v) \/ TouchReport(v)
        PROVE  info'[w].draining
    <3>1. info'[v].draining = info[v].draining
      BY <2>8, <2>t, HeartbeatNeutral, AgeNeutral
    <3>2. \E r : SetWorker(v, r)
      BY <2>8 DEF Heartbeat, HeartbeatOverdue, ReportOverdue, TouchReport
    <3> QED BY <2>7, <3>1, <3>2
  <2>9. ASSUME NEW u \in Tasks, Reserve(u)
        PROVE  info'[w].draining
    <3>1. PICK v \in WorkerIds : SetWorker(v, [info[v] EXCEPT !.reserved = @ + 1])
      BY <2>9, <2>t DEF Reserve, Candidates, TypeOK
    <3>2. [info[v] EXCEPT !.reserved = @ + 1].draining = info[v].draining
      BY <2>t DEF TypeOK, WorkerInfo
    <3> QED BY <2>5, <3>1, <3>2
  <2>10. ASSUME NEW u \in Tasks, Release(u)
         PROVE  info'[w].draining
    <3>1. lease[u] \in WorkerIds
      BY <2>10, <2>t DEF Release, TypeOK
    <3>2. AfterRelease(info[lease[u]]).draining = info[lease[u]].draining
      BY <3>1, <2>t, ReleaseType DEF ListOK
    <3> QED BY <2>3, <2>5, <2>10, <3>1, <3>2 DEF Release, ReleaseWorker
  <2>11. ASSUME NEW u \in Tasks, PrepareReady(u)
         PROVE  info'[w].draining
    <3>1. prep[u] \in WorkerIds /\ info'[prep[u]].draining = info[prep[u]].draining
      BY <2>11, <2>t, PrepareNeutral DEF PrepareReady, TypeOK
    <3>2. \E r : SetWorker(prep[u], r)
      BY <2>11 DEF PrepareReady
    <3> QED BY <2>7, <3>1, <3>2
  <2>12. ASSUME NEW d \in DrainOps, NEW v \in WorkerIds, DrainGraceful(d, v)
         PROVE  info'[w].draining
    <3>1. CASE v = w
      <4>1. SetWorker(w, [info[w] EXCEPT !.draining = TRUE])
        BY <2>12, <2>t, <3>1 DEF DrainGraceful
      <4> QED BY <2>2, <4>1
    <3>2. CASE v # w
      BY <1>1, <2>12, <2>t, <3>2 DEF DrainGraceful, SetWorker, ListOK
    <3> QED BY <3>1, <3>2
  <2>13. ASSUME NEW d \in DrainOps, DrainExpire(d)
         PROVE  info'[w].draining
    <3>1. drains[d].worker \in WorkerIds
      BY <2>13, <2>t DEF TypeOK, DrainExpire
    <3> QED BY <2>4, <2>13, <3>1 DEF DrainExpire
  <2>14. ASSUME UNCHANGED info
         PROVE  info'[w].draining
    <3>1. info'[w].draining = info[w].draining
      BY <2>14
    <3> QED BY <1>1, <3>1
  <2> QED BY <1>1, <2>t, <2>2, <2>4, <2>6, <2>8, <2>9, <2>10, <2>11, <2>12, <2>13, <2>14
          DEF Next, RegisterRejected, SupersedeScan, SupersedeOne, DrainNow,
              PrepareStart, PrepareFailed
<1>2. Invariant /\ Invariant' /\ [Next]_schedulerVars =>
        [\A t \in Tasks, w \in WorkerIds : Final(t, w)]_schedulerVars
  BY <1>1
<1> QED BY <1>2, SchedulerInvariant, PTL DEF Spec, DrainingIsFinalUnderLease
=============================================================================
