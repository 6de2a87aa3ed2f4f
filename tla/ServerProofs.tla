----------------------------- MODULE ServerProofs -----------------------------
(***************************************************************************)
(* Theorems about what the server admits, stores and answers: Admission,   *)
(* for every set of workers and episodes; the other admission of the       *)
(* server, AgentPool, for every set of agents and pools; Trajectory, for   *)
(* every set of workers and ids; Observability, for every set of handlers  *)
(* and events; and the server's client, AdapterCore, for every set of      *)
(* calls and samples.                                                      *)
(*                                                                         *)
(* The inductive invariant of NeverUnderAdmits compares the permits with   *)
(* the capacity of all registered workers, the draining ones included, and *)
(* keeps an episode from being in the queue twice or with a permit: then   *)
(* every step gives the semaphore at least what it gives the registry.     *)
(* That of GrantFollowsRegistrations says which agents are counted in      *)
(* which pool, and that of SealedIsReadable where each trajectory is kept  *)
(* while it is on its way.  That of ReplayAgrees says that the rows merged *)
(* so far give the engine in the order they were merged, and that they are *)
(* the stored ones and those on their way: stored in the order they were   *)
(* merged they are the same sequence, and in any order the trainer's rows  *)
(* alone decide the outcome.  That of AnsweredInFull says what each sample *)
(* of a call has come to.                                                  *)
(***************************************************************************)
EXTENDS Admission, AgentPool, Trajectory, AdapterCore, Observability, QueueProofs

\* What a waiter will take out of the semaphore for good.
Weight == [x \in Waiters |-> IF x.who = Shrink THEN x.need ELSE 0]

\* An episode has one place in the queue at most, and asks for one permit.
OnePlace ==
    /\ \A i \in 1..Len(waiting) :
          waiting[i].who \in Episodes => waiting[i].need = 1 /\ waiting[i].who \notin admitted
    /\ \A i, k \in 1..Len(waiting) :
          waiting[i].who \in Episodes /\ waiting[i].who = waiting[k].who => i = k

Places == TypeOK /\ OnePlace

CoversRegistered == Permits >= SumOver(capacity, Workers)

Covers == Places /\ drains = {} /\ CoversRegistered

-----------------------------------------------------------------------------
(* The semaphore.                                                          *)

LEMMA WeightType ==
    ASSUME AdmissionConstants
    PROVE  /\ Weight \in [Waiters -> Int]
           /\ \A x \in Waiters : /\ x.need \in Int
                                 /\ Weight[x] = IF x.who = Shrink THEN x.need ELSE 0
BY DEF Weight, Waiters, AdmissionConstants

\* What the decreases in the queue will take is the weight of the queue.
LEMMA QueuedShrinks ==
    ASSUME AdmissionConstants, NEW s \in Seq(Waiters)
    PROVE  /\ Leaving(s) = Weighed(Weight, s)
           /\ Weighed(Weight, s) \in Seq(Int)
           /\ Total(Weighed(Weight, s)) \in Int
<1>1. \A i \in 1..Len(s) : s[i] \in Waiters
  OBVIOUS
<1>2. \A i \in 1..Len(s) : Weight[s[i]] = IF s[i].who = Shrink THEN s[i].need ELSE 0
  BY <1>1 DEF Weight
<1>3. Weighed(Weight, s) \in Seq(Int)
  <2>1. \A i \in 1..Len(s) : Weight[s[i]] \in Int
    BY <1>1, WeightType
  <2> QED BY <2>1 DEF Weighed
<1>4. Total(Weighed(Weight, s)) \in Int
  BY <1>3, TotalAppend
<1> QED BY <1>2, <1>3, <1>4 DEF Weighed, Leaving

LEMMA NumbersType ==
    ASSUME NEW s \in Seq(1..MaxCapacity), AdmissionConstants
    PROVE  s \in Seq(Int) /\ Total(s) \in Int
<1>1. s \in Seq(Int)
  BY DEF AdmissionConstants
<1> QED BY <1>1, TotalAppend

\* A change of a capacity gives the semaphore exactly the difference, now or
\* by the task it spawns.
LEMMA CapacityChange ==
    ASSUME AdmissionConstants, free \in Nat, spawned \in Seq(1..MaxCapacity),
           NEW was \in 0..MaxCapacity, NEW new \in 0..MaxCapacity,
           on_capacity_changed(was, new)
    PROVE  /\ free' \in Nat
           /\ spawned' \in Seq(1..MaxCapacity)
           /\ free' - Total(spawned') = (free - Total(spawned)) + (new - was)
<1>1. Total(spawned) \in Int /\ spawned \in Seq(Int)
  BY NumbersType
<1>2. CASE new >= was
  BY <1>1, <1>2 DEF on_capacity_changed, AdmissionConstants
<1>3. CASE ~ (new >= was)
  <2>1. spawned' = Append(spawned, was - new) /\ free' = free /\ was - new \in 1..MaxCapacity
    BY <1>3 DEF on_capacity_changed, AdmissionConstants
  <2>2. Total(spawned') = Total(spawned) + (was - new)
    BY <1>1, <2>1, TotalAppend DEF AdmissionConstants
  <2>3. spawned' \in Seq(1..MaxCapacity)
    BY <2>1
  <2> QED BY <1>1, <2>1, <2>2, <2>3 DEF AdmissionConstants
<1> QED BY <1>2, <1>3

\* The head of the queue takes its weight with it.
LEMMA TailWeight ==
    ASSUME AdmissionConstants, NEW s \in Seq(Waiters), s # <<>>
    PROVE  /\ Tail(s) \in Seq(Waiters) /\ Head(s) \in Waiters /\ Head(s) = s[1]
           /\ Len(s) >= 1 /\ Len(Tail(s)) = Len(s) - 1
           /\ \A i \in 1..Len(Tail(s)) : Tail(s)[i] = s[i + 1] /\ i + 1 \in 1..Len(s)
           /\ Total(Weighed(Weight, Tail(s))) = Total(Weighed(Weight, s)) - Weight[Head(s)]
<1>1. /\ Tail(s) \in Seq(Waiters) /\ Head(s) \in Waiters /\ Head(s) = s[1]
      /\ Len(s) \in Nat /\ Len(s) >= 1 /\ Len(Tail(s)) = Len(s) - 1
      /\ \A i \in 1..Len(Tail(s)) : Tail(s)[i] = s[i + 1] /\ i + 1 \in 1..Len(s)
  OBVIOUS
<1> DEFINE t == Tail(s)
           all == Weighed(Weight, s)
           rest == Weighed(Weight, t)
<1>2. all \in Seq(Int) /\ rest \in Seq(Int)
  BY <1>1, QueuedShrinks
<1>3. /\ Len(all) = Len(s) /\ Len(rest) = Len(t)
      /\ \A i \in 1..Len(s) : all[i] = Weight[s[i]]
      /\ \A i \in 1..Len(t) : rest[i] = Weight[t[i]]
  BY <1>1 DEF Weighed
<1> HIDE DEF all, rest, t
<1>4. /\ Len(rest) = Len(all) - 1 /\ 1 \in 1..Len(all) /\ all[1] = Weight[Head(s)]
      /\ \A k \in 1..Len(rest) : rest[k] = IF k < 1 THEN all[k] ELSE all[k + 1]
  <2>1. Len(rest) = Len(all) - 1 /\ 1 \in 1..Len(all) /\ all[1] = Weight[Head(s)]
    BY <1>1, <1>3 DEF t
  <2>2. ASSUME NEW k \in 1..Len(rest) PROVE rest[k] = all[k + 1] /\ ~ (k < 1)
    BY <1>1, <1>3 DEF t
  <2> QED BY <2>1, <2>2
<1>5. Total(rest) = Total(all) - all[1]
  BY <1>2, <1>4, TotalRemove
<1> QED BY <1>1, <1>4, <1>5 DEF all, rest, t

-----------------------------------------------------------------------------
(* Types and places.                                                       *)

LEMMA PlacesInit == ASSUME AdmissionConstants PROVE Init => Places
BY FS_EmptySet DEF Init, Places, TypeOK, OnePlace, AdmissionConstants

\* What a step that leaves the queue and the permits held alone has to keep.
LEMMA PlacesStay ==
    ASSUME Places, UNCHANGED <<waiting, admitted>>,
           capacity' \in [Workers -> 0..MaxCapacity], free' \in Nat,
           spawned' \in Seq(1..MaxCapacity), leased' \subseteq Workers, draining' \subseteq Workers,
           drains' \subseteq [worker : Workers, drained : 1..MaxCapacity, id : Nat],
           IsFiniteSet(drains'), changes' \in Nat
    PROVE  Places'
BY DEF Places, TypeOK, OnePlace

LEMMA ShrinkTakesPlaces ==
    ASSUME AdmissionConstants, Places, ShrinkTakes PROVE Places'
<1>1. waiting # <<>> /\ waiting \in Seq(Waiters) /\ Head(waiting).need <= free
  BY DEF ShrinkTakes, Grantable, Places, TypeOK
<1>2. /\ Tail(waiting) \in Seq(Waiters) /\ Head(waiting) \in Waiters
      /\ \A i \in 1..Len(Tail(waiting)) :
            Tail(waiting)[i] = waiting[i + 1] /\ i + 1 \in 1..Len(waiting)
  BY <1>1, TailWeight
<1>3. free' \in Nat
  BY <1>1, <1>2 DEF ShrinkTakes, Waiters, Places, TypeOK, AdmissionConstants
<1>4. TypeOK'
  BY <1>2, <1>3 DEF ShrinkTakes, Places, TypeOK
<1>5. OnePlace'
  <2>1. waiting' = Tail(waiting) /\ admitted' = admitted
    BY DEF ShrinkTakes
  <2>2. ASSUME NEW i \in 1..Len(waiting'), waiting'[i].who \in Episodes
        PROVE  waiting'[i].need = 1 /\ waiting'[i].who \notin admitted'
    BY <1>2, <2>1, <2>2 DEF Places, OnePlace
  <2>3. ASSUME NEW i \in 1..Len(waiting'), NEW k \in 1..Len(waiting'),
               waiting'[i].who \in Episodes, waiting'[i].who = waiting'[k].who
        PROVE  i = k
    <3>1. i + 1 = k + 1
      BY <1>2, <2>1, <2>3 DEF Places, OnePlace
    <3> QED BY <3>1
  <2> QED BY <2>2, <2>3 DEF OnePlace
<1> QED BY <1>4, <1>5 DEF Places

LEMMA ShrinkQueuesPlaces ==
    ASSUME AdmissionConstants, Places, NEW i \in DOMAIN spawned, ShrinkQueues(i) PROVE Places'
<1>1. spawned \in Seq(1..MaxCapacity) /\ i \in 1..Len(spawned) /\ waiting \in Seq(Waiters)
  BY DEF Places, TypeOK
<1>0. MaxCapacity \in Nat
  BY DEF AdmissionConstants
<1>s. spawned[i] \in 1..MaxCapacity
  BY <1>0, <1>1
<1>2. spawned[i] \in 1..MaxCapacity /\ [who |-> Shrink, need |-> spawned[i]] \in Waiters
  BY <1>s DEF Waiters
<1>3. spawned' \in Seq(1..MaxCapacity)
  BY <1>1, RemoveAtProperties DEF ShrinkQueues
<1> DEFINE x == [who |-> Shrink, need |-> spawned[i]]
<1>4. /\ waiting' = Append(waiting, x) /\ waiting' \in Seq(Waiters)
      /\ Len(waiting') = Len(waiting) + 1 /\ Len(waiting) \in Nat
      /\ waiting'[Len(waiting) + 1] = x
      /\ \A k \in 1..Len(waiting) : waiting'[k] = waiting[k]
  BY <1>1, <1>2 DEF ShrinkQueues
<1>5. x.who \notin Episodes
  BY DEF AdmissionConstants, Shrink
<1> HIDE DEF x
<1>6. TypeOK'
  BY <1>3, <1>4 DEF ShrinkQueues, Places, TypeOK
<1>7. OnePlace'
  <2>1. ASSUME NEW k \in 1..Len(waiting'), waiting'[k].who \in Episodes
        PROVE  k \in 1..Len(waiting) /\ waiting'[k] = waiting[k]
    BY <1>4, <1>5, <2>1
  <2>2. admitted' = admitted
    BY DEF ShrinkQueues
  <2> QED BY <2>1, <2>2 DEF Places, OnePlace
<1> QED BY <1>6, <1>7 DEF Places

LEMMA AcquirePlaces ==
    ASSUME AdmissionConstants, Places, NEW e \in Episodes, acquire_until(e) PROVE Places'
<1> DEFINE x == [who |-> e, need |-> 1]
<1>1. waiting \in Seq(Waiters) /\ x \in Waiters
  BY DEF Places, TypeOK, Waiters, AdmissionConstants
<1>2. /\ waiting' = Append(waiting, x) /\ waiting' \in Seq(Waiters)
      /\ Len(waiting') = Len(waiting) + 1 /\ Len(waiting) \in Nat
      /\ waiting'[Len(waiting) + 1] = x
      /\ \A k \in 1..Len(waiting) : waiting'[k] = waiting[k]
  BY <1>1 DEF acquire_until
<1>3. x.who = e /\ x.need = 1 /\ e \notin admitted /\ admitted' = admitted
      /\ \A k \in 1..Len(waiting) : waiting[k].who # e
  BY <1>1 DEF acquire_until, Waiting
<1> HIDE DEF x
<1>4. TypeOK'
  BY <1>2 DEF acquire_until, Places, TypeOK
<1>5. OnePlace'
  <2>1. ASSUME NEW k \in 1..Len(waiting')
        PROVE  \/ k = Len(waiting) + 1 /\ waiting'[k] = x
               \/ k \in 1..Len(waiting) /\ waiting'[k] = waiting[k] /\ waiting'[k].who # e
    BY <1>2, <1>3
  <2>2. ASSUME NEW k \in 1..Len(waiting'), waiting'[k].who \in Episodes
        PROVE  waiting'[k].need = 1 /\ waiting'[k].who \notin admitted'
    BY <1>3, <2>1, <2>2 DEF Places, OnePlace
  <2>3. ASSUME NEW i \in 1..Len(waiting'), NEW k \in 1..Len(waiting'),
               waiting'[i].who \in Episodes, waiting'[i].who = waiting'[k].who
        PROVE  i = k
    BY <1>3, <2>1, <2>3 DEF Places, OnePlace
  <2> QED BY <2>2, <2>3 DEF OnePlace
<1> QED BY <1>4, <1>5 DEF Places

LEMMA AdmitPlaces ==
    ASSUME AdmissionConstants, Places, NEW e \in Episodes, Admit(e) PROVE Places'
<1>1. waiting # <<>> /\ waiting \in Seq(Waiters) /\ Head(waiting).need <= free
      /\ Head(waiting).who = e
  BY DEF Admit, Grantable, Places, TypeOK
<1>2. /\ Tail(waiting) \in Seq(Waiters) /\ Head(waiting) = waiting[1] /\ Len(waiting) >= 1
      /\ \A i \in 1..Len(Tail(waiting)) :
            Tail(waiting)[i] = waiting[i + 1] /\ i + 1 \in 1..Len(waiting)
  BY <1>1, TailWeight
<1>3. 1 \in 1..Len(waiting) /\ Head(waiting).need = 1
  BY <1>1, <1>2 DEF Places, OnePlace
<1>4. TypeOK'
  BY <1>1, <1>2, <1>3 DEF Admit, Places, TypeOK
<1>5. OnePlace'
  <2>1. waiting' = Tail(waiting) /\ admitted' = admitted \union {e}
    BY DEF Admit
  <2>2. ASSUME NEW i \in 1..Len(waiting'), waiting'[i].who \in Episodes
        PROVE  waiting'[i].need = 1 /\ waiting'[i].who \notin admitted'
    <3>1. waiting'[i] = waiting[i + 1] /\ i + 1 \in 1..Len(waiting) /\ i + 1 # 1
      BY <1>2, <2>1
    <3>2. waiting[i + 1].who # e
      BY <1>1, <1>2, <1>3, <3>1, <2>2 DEF Places, OnePlace
    <3> QED BY <2>1, <2>2, <3>1, <3>2 DEF Places, OnePlace
  <2>3. ASSUME NEW i \in 1..Len(waiting'), NEW k \in 1..Len(waiting'),
               waiting'[i].who \in Episodes, waiting'[i].who = waiting'[k].who
        PROVE  i = k
    <3>1. i + 1 = k + 1
      BY <1>2, <2>1, <2>3 DEF Places, OnePlace
    <3> QED BY <3>1
  <2> QED BY <2>2, <2>3 DEF OnePlace
<1> QED BY <1>4, <1>5 DEF Places

LEMMA StopWaitingPlaces ==
    ASSUME AdmissionConstants, Places, NEW e \in Episodes, StopWaiting(e) PROVE Places'
<1> DEFINE S == {x \in Waiters : x.who # e}
<1>1. waiting \in Seq(Waiters) /\ waiting' = Keep(waiting, S) /\ admitted' = admitted
  BY DEF StopWaiting, Places, TypeOK
<1> HIDE DEF S
<1>2. waiting' \in Seq(Waiters)
  BY <1>1, KeepProperties
<1>3. PICK h : Picked(waiting', waiting, S, Len(waiting), h)
  BY <1>1, KeepProperties
<1>4. /\ \A i \in 1..Len(waiting') : h[i] \in 1..Len(waiting) /\ waiting'[i] = waiting[h[i]]
      /\ \A i, k \in 1..Len(waiting') : i < k => h[i] < h[k]
  BY <1>3 DEF Picked
<1>5. TypeOK'
  BY <1>2 DEF StopWaiting, Places, TypeOK
<1>6. OnePlace'
  <2>1. ASSUME NEW i \in 1..Len(waiting'), waiting'[i].who \in Episodes
        PROVE  waiting'[i].need = 1 /\ waiting'[i].who \notin admitted'
    BY <1>1, <1>4, <2>1 DEF Places, OnePlace
  <2>2. ASSUME NEW i \in 1..Len(waiting'), NEW k \in 1..Len(waiting'),
               waiting'[i].who \in Episodes, waiting'[i].who = waiting'[k].who
        PROVE  i = k
    <3>1. h[i] = h[k]
      BY <1>4, <2>2 DEF Places, OnePlace
    <3>2. ~ (i < k) /\ ~ (k < i)
      <4>1. i < k => h[i] < h[k]
        BY <1>4
      <4>2. k < i => h[k] < h[i]
        BY <1>4
      <4> QED BY <1>4, <3>1, <4>1, <4>2
    <3> QED BY <3>2
  <2> QED BY <2>1, <2>2 DEF OnePlace
<1> QED BY <1>5, <1>6 DEF Places

LEMMA FinishPlaces ==
    ASSUME Places, NEW e \in Episodes, Finish(e) PROVE Places'
BY DEF Finish, Places, TypeOK, OnePlace

LEMMA RegistryPlaces ==
    ASSUME AdmissionConstants, Places, NEW w \in Workers
    PROVE  /\ \A c \in 1..MaxCapacity : register_worker(w, c) \/ heartbeat(w, c) => Places'
           /\ reserve(w) \/ release(w) \/ drain_worker(w) \/ supersede(w) => Places'
<1> USE DEF Registered
<1>0. capacity \in [Workers -> 0..MaxCapacity] /\ free \in Nat /\ spawned \in Seq(1..MaxCapacity)
      /\ leased \subseteq Workers /\ draining \subseteq Workers /\ changes \in Nat
      /\ drains \subseteq [worker : Workers, drained : 1..MaxCapacity, id : Nat]
      /\ IsFiniteSet(drains)
      /\ MaxCapacity \in Nat
  BY DEF Places, TypeOK, AdmissionConstants
<1>1. ASSUME NEW c \in 1..MaxCapacity, register_worker(w, c) PROVE Places'
  <2>1. CASE w \in leased
    BY <1>0, <1>1, <2>1, PlacesStay DEF register_worker
  <2>2. CASE w \notin leased
    <3>1. free' \in Nat /\ spawned' \in Seq(1..MaxCapacity)
      BY <1>0, <1>1, <2>2, CapacityChange DEF register_worker
    <3> QED BY <1>0, <1>1, <2>2, <3>1, PlacesStay DEF register_worker
  <2> QED BY <2>1, <2>2
<1>2. ASSUME NEW c \in 1..MaxCapacity, heartbeat(w, c) PROVE Places'
  <2>1. free' \in Nat /\ spawned' \in Seq(1..MaxCapacity)
    BY <1>0, <1>2, CapacityChange DEF heartbeat
  <2> QED BY <1>0, <1>2, <2>1, PlacesStay DEF heartbeat
<1>3. ASSUME reserve(w) PROVE Places'
  BY <1>0, <1>3, PlacesStay DEF reserve
<1>4. ASSUME release(w) PROVE Places'
  BY <1>0, <1>4, PlacesStay DEF release
<1>5. ASSUME drain_worker(w) PROVE Places'
  <2>1. capacity[w] \in 1..MaxCapacity
    BY <1>0, <1>5 DEF drain_worker
  <2>2. Cardinality(drains) \in Nat
    BY <1>0, FS_CardinalityType
  <2>3. IsFiniteSet(drains')
    BY <1>0, <1>5, FS_AddElement DEF drain_worker
  <2> QED BY <1>0, <1>5, <2>1, <2>2, <2>3, PlacesStay DEF drain_worker
<1>6. ASSUME supersede(w) PROVE Places'
  BY <1>0, <1>6, PlacesStay DEF supersede
<1> QED BY <1>1, <1>2, <1>3, <1>4, <1>5, <1>6

LEMMA DrainEndsPlaces ==
    ASSUME AdmissionConstants, Places, NEW d \in drains, DrainEnds(d) PROVE Places'
<1>0. capacity \in [Workers -> 0..MaxCapacity] /\ free \in Nat /\ spawned \in Seq(1..MaxCapacity)
      /\ leased \subseteq Workers /\ draining \subseteq Workers /\ changes \in Nat
      /\ drains \subseteq [worker : Workers, drained : 1..MaxCapacity, id : Nat]
      /\ IsFiniteSet(drains)
      /\ MaxCapacity \in Nat
  BY DEF Places, TypeOK, AdmissionConstants
<1>1. d.worker \in Workers /\ d.drained \in 0..MaxCapacity /\ 0 \in 0..MaxCapacity
  BY <1>0
<1>2. free' \in Nat /\ spawned' \in Seq(1..MaxCapacity)
  BY <1>0, <1>1, CapacityChange DEF DrainEnds
<1>3. IsFiniteSet(drains')
  BY <1>0, FS_RemoveElement DEF DrainEnds
<1> QED BY <1>0, <1>1, <1>2, <1>3, PlacesStay DEF DrainEnds

LEMMA PlacesStep ==
    ASSUME AdmissionConstants, Places, [Next]_admissionVars PROVE Places'
<1>1. CASE UNCHANGED admissionVars
  BY <1>1 DEF Places, TypeOK, OnePlace, admissionVars
<1>2. CASE Next
  BY <1>2, ShrinkTakesPlaces, ShrinkQueuesPlaces, AcquirePlaces, AdmitPlaces, StopWaitingPlaces,
     FinishPlaces, RegistryPlaces, DrainEndsPlaces DEF Next
<1> QED BY <1>1, <1>2

\* Types, drains and shrinks in any order: the semaphore's count never goes
\* below zero, so no decrease takes a permit that an episode holds.
THEOREM PermitsNotTakenBack == ASSUME AdmissionConstants PROVE Spec => []TypeOK
<1>1. Init => Places
  BY PlacesInit
<1>2. Places /\ [Next]_admissionVars => Places'
  BY PlacesStep
<1>3. Places => TypeOK
  BY DEF Places
<1> QED BY <1>1, <1>2, <1>3, PTL DEF Spec

-----------------------------------------------------------------------------
(* The permits cover the registered workers.                               *)

\* The permits, with the queue's decreases as its weight.
Counted(f, held, later, q) == f + Cardinality(held) - (Total(later) + Total(Weighed(Weight, q)))

LEMMA PermitsAreCounted ==
    ASSUME AdmissionConstants, Places
    PROVE  /\ Permits = Counted(free, admitted, spawned, waiting)
           /\ Permits \in Int /\ Cardinality(admitted) \in Nat /\ IsFiniteSet(admitted)
           /\ Total(spawned) \in Int /\ spawned \in Seq(Int)
           /\ Total(Weighed(Weight, waiting)) \in Int
           /\ capacity \in [Workers -> Int]
           /\ SumOver(capacity, Workers) \in Int
<1>1. waiting \in Seq(Waiters) /\ spawned \in Seq(1..MaxCapacity) /\ free \in Nat
      /\ admitted \subseteq Episodes /\ capacity \in [Workers -> Int]
  BY DEF Places, TypeOK, AdmissionConstants
<1>2. Cardinality(admitted) \in Nat /\ IsFiniteSet(admitted)
  BY <1>1, FS_Subset, FS_CardinalityType DEF AdmissionConstants
<1>3. spawned \in Seq(Int) /\ Total(spawned) \in Int
  BY <1>1, NumbersType
<1>4. Total(Weighed(Weight, waiting)) \in Int
      /\ Leaving(waiting) = Weighed(Weight, waiting)
  BY <1>1, QueuedShrinks
<1>5. Permits = Counted(free, admitted, spawned, waiting)
  BY <1>4 DEF Permits, PendingShrinks, Counted
<1>6. SumOver(capacity, Workers) \in Int
  <2>1. Listed(capacity, Workers) \in Seq(Int)
        /\ SumOver(capacity, Workers) = Total(Listed(capacity, Workers))
    BY <1>1, SumOverIsTotal DEF AdmissionConstants
  <2> QED BY <2>1, TotalAppend
<1>7. Permits \in Int
  BY <1>1, <1>2, <1>3, <1>4, <1>5 DEF Counted
<1> QED BY <1>1, <1>2, <1>3, <1>4, <1>5, <1>6, <1>7

\* Permits held or waited for move inside the count.
LEMMA EpisodesKeepCount ==
    ASSUME AdmissionConstants, Places,
           \/ ShrinkTakes
           \/ \E i \in DOMAIN spawned : ShrinkQueues(i)
           \/ \E e \in Episodes : acquire_until(e) \/ Admit(e) \/ StopWaiting(e) \/ Finish(e)
    PROVE  Counted(free', admitted', spawned', waiting') = Counted(free, admitted, spawned, waiting)
<1>0. /\ Cardinality(admitted) \in Nat /\ IsFiniteSet(admitted)
      /\ Total(spawned) \in Int /\ spawned \in Seq(Int)
      /\ Total(Weighed(Weight, waiting)) \in Int
      /\ waiting \in Seq(Waiters) /\ free \in Nat /\ Weight \in [Waiters -> Int]
  BY PermitsAreCounted, WeightType DEF Places, TypeOK
<1>1. CASE ShrinkTakes
  <2>1. waiting # <<>> /\ Head(waiting).who = Shrink /\ free' = free - Head(waiting).need
        /\ waiting' = Tail(waiting) /\ UNCHANGED <<admitted, spawned>>
    BY <1>1 DEF ShrinkTakes, Grantable
  <2>2. Head(waiting) \in Waiters
        /\ Total(Weighed(Weight, waiting')) = Total(Weighed(Weight, waiting)) - Weight[Head(waiting)]
    BY <1>0, <2>1, TailWeight
  <2>3. Weight[Head(waiting)] = Head(waiting).need /\ Head(waiting).need \in Int
    BY <2>1, <2>2, WeightType
  <2> QED BY <1>0, <2>1, <2>2, <2>3 DEF Counted
<1>2. ASSUME NEW i \in DOMAIN spawned, ShrinkQueues(i)
      PROVE  Counted(free', admitted', spawned', waiting') = Counted(free, admitted, spawned, waiting)
  <2> DEFINE x == [who |-> Shrink, need |-> spawned[i]]
  <2>1. spawned \in Seq(1..MaxCapacity) /\ i \in 1..Len(spawned) /\ MaxCapacity \in Nat
    BY DEF Places, TypeOK, AdmissionConstants
  <2>s. spawned[i] \in 1..MaxCapacity
    BY <2>1
  <2>2. x \in Waiters
    BY <2>s DEF Waiters
  <2>3. Weight[x] = spawned[i]
    BY <2>2 DEF Weight
  <2>4. waiting' = Append(waiting, x) /\ spawned' = RemoveAt(spawned, i)
        /\ UNCHANGED <<admitted, free>>
    BY <1>2 DEF ShrinkQueues
  <2> HIDE DEF x
  <2>5. Total(Weighed(Weight, waiting')) = Total(Weighed(Weight, waiting)) + spawned[i]
    <3>1. Total(Weighed(Weight, Append(waiting, x))) = Total(Weighed(Weight, waiting)) + Weight[x]
      BY <1>0, <2>2, WeighedAppend
    <3> QED
      BY <2>3, <2>4, <3>1
  <2>6. Total(spawned') = Total(spawned) - spawned[i]
    <3>1. /\ spawned' \in Seq(Int) /\ Len(spawned') = Len(spawned) - 1
          /\ \A k \in 1..Len(spawned) - 1 :
                spawned'[k] = IF k < i THEN spawned[k] ELSE spawned[k + 1]
      BY <1>0, <2>1, <2>4, RemoveAtProperties
    <3> QED BY <1>0, <2>1, <3>1, TotalRemove
  <2> QED BY <1>0, <2>s, <2>4, <2>5, <2>6 DEF Counted
<1>3. ASSUME NEW e \in Episodes, acquire_until(e)
      PROVE  Counted(free', admitted', spawned', waiting') = Counted(free, admitted, spawned, waiting)
  <2> DEFINE x == [who |-> e, need |-> 1]
  <2>1. x \in Waiters
    BY DEF Waiters, AdmissionConstants
  <2>2. Weight[x] = 0
    BY <2>1 DEF Weight, AdmissionConstants, Shrink
  <2>3. waiting' = Append(waiting, x) /\ UNCHANGED <<admitted, free, spawned>>
    BY <1>3 DEF acquire_until
  <2> HIDE DEF x
  <2>4. Total(Weighed(Weight, waiting')) = Total(Weighed(Weight, waiting)) + 0
    BY <1>0, <2>1, <2>2, <2>3, WeighedAppend
  <2> QED BY <1>0, <2>3, <2>4 DEF Counted
<1>4. ASSUME NEW e \in Episodes, Admit(e)
      PROVE  Counted(free', admitted', spawned', waiting') = Counted(free, admitted, spawned, waiting)
  <2>1. waiting # <<>> /\ Head(waiting).who = e /\ free' = free - 1
        /\ waiting' = Tail(waiting) /\ admitted' = admitted \union {e} /\ spawned' = spawned
    BY <1>4 DEF Admit, Grantable
  <2>2. Head(waiting) \in Waiters /\ Head(waiting) = waiting[1] /\ 1 \in 1..Len(waiting)
        /\ Total(Weighed(Weight, waiting')) = Total(Weighed(Weight, waiting)) - Weight[Head(waiting)]
    BY <1>0, <2>1, TailWeight
  <2>3. Weight[Head(waiting)] = 0
    BY <2>1, <2>2 DEF Weight, AdmissionConstants, Shrink
  <2>4. e \notin admitted
    BY <2>1, <2>2 DEF Places, OnePlace
  <2>5. Cardinality(admitted') = Cardinality(admitted) + 1
    BY <1>0, <2>1, <2>4, FS_AddElement
  <2> QED BY <1>0, <2>1, <2>2, <2>3, <2>5 DEF Counted
<1>5. ASSUME NEW e \in Episodes, StopWaiting(e)
      PROVE  Counted(free', admitted', spawned', waiting') = Counted(free, admitted, spawned, waiting)
  <2> DEFINE S == {x \in Waiters : x.who # e}
  <2>1. waiting' = Keep(waiting, S) /\ UNCHANGED <<admitted, free, spawned>>
    BY <1>5 DEF StopWaiting
  <2>2. \A x \in Waiters : x \notin S => Weight[x] = 0
    BY DEF Weight, AdmissionConstants, Shrink
  <2> HIDE DEF S
  <2>3. Total(Weighed(Weight, waiting')) = Total(Weighed(Weight, waiting))
    BY <1>0, <2>1, <2>2, KeepTotal
  <2> QED BY <2>1, <2>3 DEF Counted
<1>6. ASSUME NEW e \in Episodes, Finish(e)
      PROVE  Counted(free', admitted', spawned', waiting') = Counted(free, admitted, spawned, waiting)
  <2>1. e \in admitted /\ admitted' = admitted \ {e} /\ free' = free + 1
        /\ UNCHANGED <<spawned, waiting>>
    BY <1>6 DEF Finish
  <2>2. Cardinality(admitted') = Cardinality(admitted) - 1
    BY <1>0, <2>1, FS_RemoveElement
  <2> DEFINE rest == Total(spawned) + Total(Weighed(Weight, waiting))
             adm == Cardinality(admitted)
  <2>3. Counted(free, admitted, spawned, waiting) = free + adm - rest
        /\ Counted(free', admitted', spawned', waiting') = (free + 1) + (adm - 1) - rest
        /\ rest \in Int /\ adm \in Int /\ free \in Int
    BY <1>0, <2>1, <2>2 DEF Counted
  <2> HIDE DEF rest, adm
  <2> QED BY <2>3
<1> QED BY <1>1, <1>2, <1>3, <1>4, <1>5, <1>6

\* What the registry changes, the permits follow; what it forgets they keep.
LEMMA RegistryCovers ==
    ASSUME AdmissionConstants, Places, CoversRegistered, NEW w \in Workers,
           \/ \E c \in 1..MaxCapacity : register_worker(w, c) \/ heartbeat(w, c)
           \/ reserve(w) \/ release(w) \/ supersede(w)
    PROVE  Counted(free', admitted', spawned', waiting') >= SumOver(capacity', Workers)
<1>0. /\ Counted(free, admitted, spawned, waiting) >= SumOver(capacity, Workers)
      /\ capacity \in [Workers -> 0..MaxCapacity] /\ free \in Nat
      /\ spawned \in Seq(1..MaxCapacity)
      /\ MaxCapacity \in Nat \ {0} /\ IsFiniteSet(Workers)
  BY PermitsAreCounted DEF CoversRegistered, Places, TypeOK, AdmissionConstants
<1>i. /\ Cardinality(admitted) \in Nat /\ Total(spawned) \in Int
      /\ Total(Weighed(Weight, waiting)) \in Int /\ SumOver(capacity, Workers) \in Int
      /\ capacity \in [Workers -> Int]
  BY PermitsAreCounted
<1>1. ASSUME NEW g, NEW c \in Nat, c <= MaxCapacity, g = [capacity EXCEPT ![w] = c]
      PROVE  SumOver(g, Workers) = (SumOver(capacity, Workers) - capacity[w]) + c
  <2>1. g \in [Workers -> Int] /\ g[w] = c /\ \A y \in Workers : y # w => g[y] = capacity[y]
    BY <1>i, <1>1
  <2>0. IsFiniteSet(Workers) /\ capacity \in [Workers -> Int]
    BY <1>0, <1>i
  <2>2. SumOver(g, Workers) = (SumOver(capacity, Workers) - capacity[w]) + g[w]
    BY <2>0, <2>1, SumOverUpdate
  <2> QED BY <2>1, <2>2
<1>w. capacity[w] \in 0..MaxCapacity
  BY <1>0
<1> DEFINE sum == SumOver(capacity, Workers)  sumN == SumOver(capacity', Workers)
           spn == Total(spawned)  spnN == Total(spawned')
           que == Total(Weighed(Weight, waiting))  adm == Cardinality(admitted)  was == capacity[w]
<1>c. Counted(free, admitted, spawned, waiting) = free + adm - (spn + que)
  BY DEF Counted
<1>n. ASSUME UNCHANGED <<waiting, admitted>>
      PROVE  Counted(free', admitted', spawned', waiting') = free' + adm - (spnN + que)
  BY <1>n DEF Counted
<1>t. free + adm - (spn + que) >= sum /\ free \in Nat /\ adm \in Nat /\ spn \in Int
      /\ que \in Int /\ sum \in Int /\ was \in Nat
  BY <1>0, <1>i, <1>w, <1>c
<1>2. ASSUME NEW c \in 1..MaxCapacity, capacity' = [capacity EXCEPT ![w] = c],
             on_capacity_changed(capacity[w], c), UNCHANGED <<waiting, admitted>>
      PROVE  Counted(free', admitted', spawned', waiting') >= SumOver(capacity', Workers)
  <2>0. c \in Nat /\ c <= MaxCapacity /\ c \in 0..MaxCapacity
    BY <1>0
  <2>1. sumN = (sum - was) + c
    BY <1>1, <1>2, <2>0
  <2>2. /\ free' \in Nat /\ spawned' \in Seq(1..MaxCapacity)
        /\ free' - spnN = (free - spn) + (c - was)
    BY <1>0, <1>w, <1>2, <2>0, CapacityChange
  <2>3. spnN \in Int
    BY <2>2, NumbersType
  <2>4. Counted(free', admitted', spawned', waiting') = free' + adm - (spnN + que)
    BY <1>n, <1>2
  <2> DEFINE f == free  fN == free'
  <2>f. fN - spnN = (f - spn) + (c - was) /\ fN \in Nat /\ f \in Nat
        /\ f + adm - (spn + que) >= sum
    BY <1>t, <2>2
  <2> HIDE DEF sum, sumN, spn, spnN, que, adm, was, f, fN
  <2>5. fN + adm - (spnN + que) >= sumN
    BY <1>t, <2>0, <2>1, <2>f, <2>3
  <2> QED BY <2>4, <2>5 DEF sumN, fN
<1>3. ASSUME capacity' = [capacity EXCEPT ![w] = 0], UNCHANGED <<free, spawned, waiting, admitted>>
      PROVE  Counted(free', admitted', spawned', waiting') >= SumOver(capacity', Workers)
  <2>0. 0 \in Nat /\ 0 <= MaxCapacity
    BY <1>0
  <2>1. sumN = (sum - was) + 0
    BY <1>1, <1>3, <2>0
  <2>2. Counted(free', admitted', spawned', waiting') = free + adm - (spn + que)
    BY <1>n, <1>3
  <2> HIDE DEF sum, sumN, spn, spnN, que, adm, was
  <2>3. free + adm - (spn + que) >= sumN
    BY <1>t, <2>1
  <2> QED BY <2>2, <2>3 DEF sumN
<1>4. ASSUME UNCHANGED <<capacity, free, spawned, waiting, admitted>>
      PROVE  Counted(free', admitted', spawned', waiting') >= SumOver(capacity', Workers)
  BY <1>0, <1>4
<1>5. ASSUME NEW c \in 1..MaxCapacity, register_worker(w, c) \/ heartbeat(w, c)
      PROVE  Counted(free', admitted', spawned', waiting') >= SumOver(capacity', Workers)
  BY <1>2, <1>4, <1>5 DEF register_worker, heartbeat
<1>6. ASSUME reserve(w) \/ release(w) \/ supersede(w)
      PROVE  Counted(free', admitted', spawned', waiting') >= SumOver(capacity', Workers)
  BY <1>3, <1>4, <1>6 DEF reserve, release, supersede
<1> QED BY <1>5, <1>6

LEMMA CoversStep ==
    ASSUME AdmissionConstants, ~MayDrain, Covers, [Next]_admissionVars PROVE Covers'
<1>1. Places'
  BY PlacesStep DEF Covers
<1>2. drains' = {}
  BY DEF Covers, Next, admissionVars, ShrinkTakes, ShrinkQueues, acquire_until, Admit, StopWaiting,
         Finish, register_worker, heartbeat, reserve, release, drain_worker, supersede
<1>3. Counted(free', admitted', spawned', waiting') >= SumOver(capacity', Workers)
  <2>0. /\ Permits = Counted(free, admitted, spawned, waiting)
        /\ Counted(free, admitted, spawned, waiting) >= SumOver(capacity, Workers)
    BY PermitsAreCounted DEF Covers, CoversRegistered
  <2>1. CASE UNCHANGED admissionVars
    BY <2>0, <2>1 DEF admissionVars
  <2>2. CASE ShrinkTakes \/ \E i \in DOMAIN spawned : ShrinkQueues(i)
    BY <2>0, <2>2, EpisodesKeepCount DEF Covers, ShrinkTakes, ShrinkQueues
  <2>3. CASE \E e \in Episodes : acquire_until(e) \/ Admit(e) \/ StopWaiting(e) \/ Finish(e)
    BY <2>0, <2>3, EpisodesKeepCount DEF Covers, acquire_until, Admit, StopWaiting, Finish
  <2>4. ASSUME NEW w \in Workers,
               \/ \E c \in 1..MaxCapacity : register_worker(w, c) \/ heartbeat(w, c)
               \/ reserve(w) \/ release(w) \/ drain_worker(w) \/ supersede(w)
        PROVE  Counted(free', admitted', spawned', waiting') >= SumOver(capacity', Workers)
    BY <2>4, RegistryCovers DEF Covers, drain_worker
  <2>5. ASSUME NEW d \in drains PROVE FALSE
    BY <2>5 DEF Covers
  <2> QED BY <2>1, <2>2, <2>3, <2>4, <2>5 DEF Next
<1>4. Permits' = Counted(free', admitted', spawned', waiting')
  <2>1. waiting' \in Seq(Waiters)
    BY <1>1 DEF Places, TypeOK
  <2>2. Leaving(waiting') = Weighed(Weight, waiting')
    BY <2>1, QueuedShrinks
  <2> QED BY <2>2 DEF Permits, PendingShrinks, Counted
<1> QED BY <1>1, <1>2, <1>3, <1>4 DEF Covers, CoversRegistered

\* The workers that still take episodes are some of the registered ones.
LEMMA CoversImplies ==
    ASSUME AdmissionConstants, Covers PROVE NeverUnderAdmits
<1> DEFINE open == [w \in Workers |-> IF w \in Workers \ draining THEN capacity[w] ELSE 0]
<1>1. capacity \in [Workers -> 0..MaxCapacity] /\ capacity \in [Workers -> Int]
      /\ MaxCapacity \in Nat /\ SumOver(capacity, Workers) \in Int /\ Permits \in Int
  BY PermitsAreCounted DEF Covers, Places, TypeOK, AdmissionConstants
<1>2. open \in [Workers -> Int] /\ \A w \in Workers : open[w] <= capacity[w]
  BY <1>1
<1>3. CapacityOf(Workers \ draining) = SumOver(open, Workers)
  BY DEF CapacityOf
<1> HIDE DEF open
<1>4. SumOver(open, Workers) <= SumOver(capacity, Workers)
  BY <1>1, <1>2, SumOverMonotone DEF AdmissionConstants
<1>5. SumOver(open, Workers) \in Int
  <2>1. Listed(open, Workers) \in Seq(Int)
        /\ SumOver(open, Workers) = Total(Listed(open, Workers))
    BY <1>2, SumOverIsTotal DEF AdmissionConstants
  <2> QED BY <2>1, TotalAppend
<1> QED BY <1>1, <1>3, <1>4, <1>5 DEF Covers, CoversRegistered, NeverUnderAdmits

LEMMA CoversInit == ASSUME AdmissionConstants PROVE Init => Covers
<1> SUFFICES ASSUME Init PROVE Covers
  OBVIOUS
<1>1. Places /\ drains = {}
  BY PlacesInit DEF Init
<1>2. Permits = 0
  <2>1. Total(spawned) = 0 /\ Weighed(Weight, waiting) = <<>> /\ Cardinality(admitted) = 0 /\ free = 0
    BY TotalEmpty, FS_EmptySet DEF Init, Weighed
  <2> QED BY <1>1, <2>1, TotalEmpty, PermitsAreCounted DEF Counted
<1>3. SumOver(capacity, Workers) = 0
  <2> DEFINE z == Listed(capacity, Workers)
  <2>1. /\ z \in Seq(Int) /\ SumOver(capacity, Workers) = Total(z) /\ Len(z) \in Nat
        /\ \A i \in 1..Len(z) : z[i] = 0
    <3>1. capacity \in [Workers -> Int] /\ \A w \in Workers : capacity[w] = 0
      BY DEF Init
    <3> QED BY <3>1, SumOverIsTotal DEF AdmissionConstants
  <2> HIDE DEF z
  <2>2. Sums([n \in 0 .. Len(z) |-> 0], z)
    BY <2>1 DEF Sums
  <2> QED BY <2>1, <2>2, TotalIs
<1> QED BY <1>1, <1>2, <1>3 DEF Covers, CoversRegistered

\* While nobody drains a worker, the semaphore has a permit for every slot of
\* the workers that still take episodes (on_capacity_changed, shrink_async):
\* for any number of workers, episodes and changes.
THEOREM NeverStarvesWorkers ==
    ASSUME AdmissionConstants, ~MayDrain PROVE Spec => []NeverUnderAdmits
<1>1. Init => Covers
  BY CoversInit
<1>2. Covers /\ [Next]_admissionVars => Covers'
  BY CoversStep
<1>3. Covers => NeverUnderAdmits
  BY CoversImplies
<1> QED BY <1>1, <1>2, <1>3, PTL DEF Spec

-----------------------------------------------------------------------------
(* AgentPool: the permits of a pool follow its agents.  The invariant adds *)
(* to the property that no agent is silent before one fell silent: only    *)
(* then is an agent's share in the capacity of its pool the same after any *)
(* other step than a registration.                                         *)

Entries == [pool : Pools, max_concurrent : Nat, bridges : {o.bridges : o \in Offers},
            labels : {o.labels : o \in Offers}, reserved_load : Int, reported_load : Int, stale : BOOLEAN]
Books == [granted : Int, free : Int, due : Int, debt : Int]

OneEntry(reg) ==
    /\ reg \in [Agents -> SUBSET Entries]
    /\ \A x \in Agents : reg[x] = {} \/ \E a \in Entries : reg[x] = {a}

PoolTypes ==
    /\ ages \in Nat
    /\ OneEntry(agents)
    /\ admission \in [Pools -> Books]

Heard == ages = 0 => \A x \in Agents : \A a \in agents[x] : ~a.stale
Follows == PoolTypes /\ Heard /\ GrantFollowsRegistrations

\* What an agent contributes to the capacity of a pool.
Share(reg, p) == [x \in Agents |-> IF x \in Live(reg, p) THEN capacity_of(EntryOf(reg, x)) ELSE 0]

LEMMA TheEntry == ASSUME NEW reg, NEW x, NEW a, reg[x] = {a} PROVE EntryOf(reg, x) = a
  BY DEF EntryOf

LEMMA CapacityIsNumber ==
    ASSUME PoolConstants, NEW reg, OneEntry(reg), NEW p
    PROVE  pool_capacity(reg, p) = SumOver(Share(reg, p), Agents) /\ pool_capacity(reg, p) \in Int
<1>1. pool_capacity(reg, p) = SumOver(Share(reg, p), Agents)
  BY DEF pool_capacity, OverLive, Share
<1>2. Share(reg, p) \in [Agents -> Int]
  <2> SUFFICES ASSUME NEW x \in Agents, x \in Live(reg, p) PROVE capacity_of(EntryOf(reg, x)) \in Int
    BY DEF Share
  <2>1. PICK a \in Entries : reg[x] = {a}
    BY DEF Live, OneEntry
  <2>2. EntryOf(reg, x) = a
    BY <2>1, TheEntry
  <2> QED
    BY <2>2 DEF Entries, capacity_of
<1>3. SumOver(Share(reg, p), Agents) \in Int
  <2> DEFINE f == Share(reg, p)
  <2>1. f \in [Agents -> Int] /\ IsFiniteSet(Agents)
    BY <1>2 DEF PoolConstants
  <2> HIDE DEF f
  <2>2. SumOver(f, Agents) = Total(Listed(f, Agents)) /\ Listed(f, Agents) \in Seq(Int)
    BY <2>1, SumOverIsTotal
  <2>3. Total(Listed(f, Agents)) \in Int
    BY <2>2, TotalAppend
  <2> QED
    BY <2>2, <2>3 DEF f
<1> QED
  BY <1>1, <1>3

\* An agent counts the same when its pool, its slots and its silence are.
Same(was, new) ==
    \/ was = new
    \/ \E a, b \in Entries : /\ was = {a} /\ new = {b} /\ b.pool = a.pool
                             /\ b.max_concurrent = a.max_concurrent /\ b.stale = a.stale

LEMMA SameCapacity ==
    ASSUME NEW reg, NEW new, NEW p,
           \A x \in Agents : Same(reg[x], new[x]) \/ (x \notin Live(reg, p) /\ x \notin Live(new, p))
    PROVE  pool_capacity(new, p) = pool_capacity(reg, p)
<1>1. ASSUME NEW x \in Agents PROVE Share(reg, p)[x] = Share(new, p)[x]
  <2>1. CASE x \notin Live(reg, p) /\ x \notin Live(new, p)
    BY <2>1 DEF Share
  <2>2. CASE reg[x] = new[x]
    <3>1. EntryOf(reg, x) = EntryOf(new, x)
      BY <2>2 DEF EntryOf
    <3>2. x \in Live(reg, p) <=> x \in Live(new, p)
      BY <2>2 DEF Live
    <3> QED
      BY <3>1, <3>2 DEF Share
  <2>3. CASE \E a, b \in Entries : /\ reg[x] = {a} /\ new[x] = {b} /\ b.pool = a.pool
                                   /\ b.max_concurrent = a.max_concurrent /\ b.stale = a.stale
    <3>1. PICK a, b \in Entries : /\ reg[x] = {a} /\ new[x] = {b} /\ b.pool = a.pool
                                  /\ b.max_concurrent = a.max_concurrent /\ b.stale = a.stale
      BY <2>3
    <3>2. EntryOf(reg, x) = a /\ EntryOf(new, x) = b
      BY <3>1 DEF EntryOf
    <3>3. x \in Live(reg, p) <=> x \in Live(new, p)
      BY <3>1 DEF Live
    <3>4. capacity_of(a) = capacity_of(b)
      BY <3>1 DEF capacity_of
    <3> QED
      BY <3>2, <3>3, <3>4 DEF Share
  <2> QED
    BY <1>1, <2>1, <2>2, <2>3 DEF Same
<1>2. Share(reg, p) = Share(new, p)
  BY <1>1 DEF Share
<1> QED
  BY <1>2 DEF pool_capacity, OverLive, Share

LEMMA AbsorbBooks ==
    ASSUME NEW adm \in Books PROVE Absorb(adm) \in Books /\ Absorb(adm).granted = adm.granted
<1> DEFINE taken == Min({adm.free, adm.debt})
<1>1. adm.free \in Int /\ adm.debt \in Int
  BY DEF Books
<1>2. taken \in Int
  <2>1. \E m \in {adm.free, adm.debt} : \A y \in {adm.free, adm.debt} : m <= y
    BY <1>1
  <2>2. taken \in {adm.free, adm.debt}
    BY <2>1 DEF Min
  <2> QED
    BY <1>1, <2>2
<1>3. Absorb(adm) = [adm EXCEPT !.free = adm.free - taken, !.debt = adm.debt - taken]
  BY DEF Absorb, Books
<1> HIDE DEF taken
<1>4. adm.free - taken \in Int /\ adm.debt - taken \in Int
  BY <1>1, <1>2
<1> QED
  BY <1>3, <1>4 DEF Books

LEMMA OtherBooks ==
    ASSUME NEW adm \in Books, NEW n \in Int
    PROVE  /\ [adm EXCEPT !.free = n] \in Books /\ [adm EXCEPT !.free = n].granted = adm.granted
           /\ [adm EXCEPT !.due = 0, !.debt = n] \in Books
           /\ [adm EXCEPT !.due = 0, !.debt = n].granted = adm.granted
<1>1. 0 \in Int
  OBVIOUS
<1>2. [adm EXCEPT !.free = n] \in Books /\ [adm EXCEPT !.free = n].granted = adm.granted
  BY DEF Books
<1> DEFINE c == [adm EXCEPT !.due = 0, !.debt = n]
<1>3. c \in Books
  BY <1>1 DEF Books
<1>4. c.granted = adm.granted
  BY DEF Books
<1> QED
  BY <1>2, <1>3, <1>4

\* Admission is brought in line with the capacity it is given.
LEMMA SyncBooks ==
    ASSUME NEW adm \in Books, NEW target \in Int
    PROVE  SyncTo(adm, target) \in Books /\ SyncTo(adm, target).granted = target
<1>1. adm.granted \in Int /\ adm.free \in Int /\ adm.due \in Int
  BY DEF Books
<1>2. CASE target > adm.granted
  <2> DEFINE more == adm.free + (target - adm.granted)
             up == [adm EXCEPT !.granted = target, !.free = more]
  <2>1. more \in Int
    BY <1>1
  <2>2. SyncTo(adm, target) = Absorb(up)
    BY <1>1, <1>2 DEF SyncTo, Books
  <2> HIDE DEF more
  <2>3. up \in Books /\ up.granted = target
    BY <2>1 DEF Books
  <2> HIDE DEF up
  <2> QED
    BY <2>2, <2>3, AbsorbBooks
<1>3. CASE target < adm.granted
  <2> DEFINE more == adm.due + (adm.granted - target)
             down == [adm EXCEPT !.granted = target, !.due = more]
  <2>1. more \in Int
    BY <1>1
  <2>2. SyncTo(adm, target) = down
    BY <1>1, <1>3 DEF SyncTo, Books
  <2> HIDE DEF more
  <2>3. down \in Books /\ down.granted = target
    BY <2>1 DEF Books
  <2> QED
    BY <2>2, <2>3
<1>4. CASE target = adm.granted
  BY <1>1, <1>4 DEF SyncTo
<1> QED
  BY <1>1, <1>2, <1>3, <1>4

LEMMA FollowsInit == ASSUME PoolConstants PROVE PoolInit => Follows
<1> SUFFICES ASSUME PoolInit PROVE Follows
  OBVIOUS
<1>1. PoolTypes /\ Heard
  BY DEF PoolInit, PoolTypes, OneEntry, Heard, Books
<1>2. ASSUME NEW p \in Pools PROVE admission[p].granted = pool_capacity(agents, p)
  <2>1. pool_capacity(agents, p) = SumOver(Share(agents, p), Agents)
    BY DEF pool_capacity, OverLive, Share
  <2>2. Share(agents, p) = [x \in Agents |-> 0]
    BY DEF PoolInit, Share, Live
  <2> DEFINE z == Listed([x \in Agents |-> 0], Agents)
  <2>3. /\ SumOver([x \in Agents |-> 0], Agents) = Total(z) /\ z \in Seq(Int)
        /\ \A i \in 1 .. Len(z) : z[i] = 0
    BY SumOverIsTotal DEF PoolConstants
  <2> HIDE DEF z
  <2>4. Sums([n \in 0 .. Len(z) |-> 0], z)
    BY <2>3 DEF Sums
  <2>5. Total(z) = 0
    BY <2>3, <2>4, TotalIs
  <2> QED
    BY <2>1, <2>2, <2>3, <2>5 DEF PoolInit
<1> QED
  BY <1>1, <1>2 DEF Follows, GrantFollowsRegistrations

\* An agent registers, anew or with another pool: both pools are brought in line.
LEMMA RegisterFollows ==
    ASSUME PoolConstants, Follows, NEW x \in Agents, NEW offer \in Offers, register(x, offer)
    PROVE  Follows'
<1> DEFINE n == [pool |-> offer.pool, max_concurrent |-> offer.max_concurrent,
                 bridges |-> offer.bridges, labels |-> offer.labels,
                 reserved_load |-> 0, reported_load |-> 0, stale |-> FALSE]
           ps == {offer.pool} \cup {a.pool : a \in agents[x]}
<1>1. agents' = [agents EXCEPT ![x] = {n}] /\ ages' = ages
  BY DEF register
<1>2. n \in Entries /\ n.pool = offer.pool /\ ~n.stale
  BY DEF PoolConstants, Entries
<1>3. admission' = [p \in Pools |-> IF p \in ps THEN SyncTo(admission[p], pool_capacity(agents', p)) ELSE admission[p]]
  BY DEF register, sync_pool_admission
<1> HIDE DEF n
<1>4. /\ agents' \in [Agents -> SUBSET Entries] /\ agents'[x] = {n}
      /\ \A y \in Agents : y # x => agents'[y] = agents[y]
  BY <1>1, <1>2 DEF Follows, PoolTypes, OneEntry
<1>5. OneEntry(agents')
  BY <1>2, <1>4 DEF Follows, PoolTypes, OneEntry
<1>6. Heard'
  BY <1>1, <1>2, <1>4 DEF Follows, Heard
<1>7. \A p \in Pools : pool_capacity(agents', p) \in Int
  BY <1>5, CapacityIsNumber
<1>8. \A p \in Pools : admission[p] \in Books
  BY DEF Follows, PoolTypes
<1>9. \A p \in ps \cap Pools : admission'[p] \in Books /\ admission'[p].granted = pool_capacity(agents', p)
  BY <1>3, <1>7, <1>8, SyncBooks
<1>10. \A p \in Pools \ ps : admission'[p] = admission[p]
  BY <1>3
<1>11. admission' \in [Pools -> Books]
  BY <1>3, <1>8, <1>9, <1>10
<1>12. PoolTypes'
  BY <1>1, <1>4, <1>5, <1>11 DEF Follows, PoolTypes
<1>13. ASSUME NEW p \in Pools \ ps PROVE pool_capacity(agents', p) = pool_capacity(agents, p)
  <2>1. x \notin Live(agents, p) /\ x \notin Live(agents', p)
    BY <1>2, <1>4 DEF Live
  <2>2. \A y \in Agents : y # x => Same(agents[y], agents'[y])
    BY <1>4 DEF Same
  <2> QED
    BY <2>1, <2>2, SameCapacity
<1> HIDE DEF ps
<1> QED
  BY <1>1, <1>6, <1>9, <1>10, <1>12, <1>13 DEF Follows, GrantFollowsRegistrations

\* A step that only changes what an agent has to do, or that it is heard.
LEMMA LoadFollows ==
    ASSUME PoolConstants, Follows, NEW x \in Agents, NEW a \in Entries, NEW b \in Entries,
           agents[x] = {a}, agents' = [agents EXCEPT ![x] = {b}], admission' = admission, ages' = ages,
           b.pool = a.pool, b.max_concurrent = a.max_concurrent, b.stale = a.stale \/ ~b.stale
    PROVE  Follows'
<1>1. /\ agents' \in [Agents -> SUBSET Entries] /\ agents'[x] = {b}
      /\ \A y \in Agents : y # x => agents'[y] = agents[y]
  BY DEF Follows, PoolTypes, OneEntry
<1>2. PoolTypes'
  BY <1>1 DEF Follows, PoolTypes, OneEntry
<1>3. Heard'
  BY <1>1 DEF Follows, Heard
<1>4. ASSUME ages = 0, NEW p \in Pools PROVE pool_capacity(agents', p) = pool_capacity(agents, p)
  <2>1. b.stale = a.stale
    BY <1>4 DEF Follows, Heard, Entries
  <2>2. \A y \in Agents : Same(agents[y], agents'[y])
    BY <1>1, <2>1 DEF Same
  <2> QED
    BY <2>2, SameCapacity
<1> QED
  BY <1>2, <1>3, <1>4 DEF Follows, GrantFollowsRegistrations

LEMMA AgentsFollow ==
    ASSUME PoolConstants, Follows, NEW x \in Agents,
           \/ \E active \in 0 .. 1 : heartbeat_agent(x, active)
           \/ Ages(x) \/ try_reserve_exact_agent(x) \/ decrement_load(x)
    PROVE  Follows'
<1>1. PICK a \in Entries : agents[x] = {a}
  BY DEF Follows, PoolTypes, OneEntry, heartbeat_agent, Ages, try_reserve_exact_agent, decrement_load
<1>2. CASE \E active \in 0 .. 1 : heartbeat_agent(x, active)
  <2>1. PICK active \in 0 .. 1 : heartbeat_agent(x, active)
    BY <1>2
  <2> DEFINE b == [a EXCEPT !.stale = FALSE, !.reported_load = active]
  <2>2. agents' = [agents EXCEPT ![x] = {b}] /\ admission' = admission /\ ages' = ages
    <3>1. {[c EXCEPT !.stale = FALSE, !.reported_load = active] : c \in agents[x]} = {b}
      BY <1>1
    <3> QED
      BY <2>1, <3>1 DEF heartbeat_agent
  <2>3. b \in Entries /\ b.pool = a.pool /\ b.max_concurrent = a.max_concurrent /\ ~b.stale
    <3>1. active \in Int
      OBVIOUS
    <3>2. b \in Entries
      BY <3>1 DEF Entries
    <3>3. b.pool = a.pool /\ b.max_concurrent = a.max_concurrent /\ b.stale = FALSE
      BY DEF Entries
    <3> QED
      BY <3>2, <3>3
  <2> HIDE DEF b
  <2> QED
    BY <1>1, <2>2, <2>3, LoadFollows
<1>3. CASE Ages(x)
  <2> DEFINE b == [a EXCEPT !["stale"] = TRUE]
  <2>1. agents' = [agents EXCEPT ![x] = {b}] /\ admission' = admission /\ ages' = ages + 1
    <3>1. {[c EXCEPT !["stale"] = TRUE] : c \in agents[x]} = {b}
      BY <1>1
    <3> QED
      BY <1>3, <3>1 DEF Ages, SetEntry
  <2>2. b \in Entries
    BY DEF Entries
  <2> HIDE DEF b
  <2>3. PoolTypes' /\ ages' # 0
    BY <2>1, <2>2 DEF Follows, PoolTypes, OneEntry
  <2> QED
    BY <2>3 DEF Follows, Heard, GrantFollowsRegistrations
<1>4. CASE try_reserve_exact_agent(x) \/ decrement_load(x)
  <2>1. PICK n \in {a.reserved_load + 1, a.reserved_load - 1} : SetEntry(x, "reserved_load", n)
    BY <1>1, <1>4 DEF try_reserve_exact_agent, decrement_load
  <2> DEFINE b == [a EXCEPT !["reserved_load"] = n]
  <2>2. agents' = [agents EXCEPT ![x] = {b}]
    <3>1. {[c EXCEPT !["reserved_load"] = n] : c \in agents[x]} = {b}
      BY <1>1
    <3> QED
      BY <2>1, <3>1 DEF SetEntry
  <2>3. n \in Int
    <3>1. a.reserved_load \in Int
      BY DEF Entries
    <3> QED
      BY <3>1
  <2>4. b \in Entries /\ b.pool = a.pool /\ b.max_concurrent = a.max_concurrent /\ b.stale = a.stale
    BY <2>3 DEF Entries
  <2>5. admission' = admission /\ ages' = ages
    BY <1>4 DEF try_reserve_exact_agent, decrement_load
  <2> HIDE DEF b
  <2> QED
    BY <1>1, <2>2, <2>4, <2>5, LoadFollows
<1> QED
  BY <1>2, <1>3, <1>4

\* An episode is submitted, or takes and gives back a permit.
LEMMA EpisodesFollow ==
    ASSUME PoolConstants, Follows,
           \/ \E p \in Pools : ShrinkStarts(p)
           \/ \E e \in PoolEpisodes : \/ \E req \in Requests : Submit(e, req)
                                      \/ try_acquire(e) \/ GiveUp(e) \/ EndEpisode(e)
    PROVE  Follows'
<1>1. agents' = agents /\ ages' = ages
  BY DEF ShrinkStarts, Submit, try_acquire, GiveUp, EndEpisode
<1>2. \A p \in Pools : admission[p] \in Books /\ pool_capacity(agents, p) \in Int
  BY CapacityIsNumber DEF Follows, PoolTypes
<1>3. /\ admission' \in [Pools -> Books]
      /\ \A p \in Pools : admission'[p].granted \in {admission[p].granted, pool_capacity(agents, p)}
  <2> DEFINE Goal == /\ admission' \in [Pools -> Books]
                     /\ \A p \in Pools : admission'[p].granted \in {admission[p].granted, pool_capacity(agents, p)}
  <2> SUFFICES Goal
    OBVIOUS
  <2>1. ASSUME NEW q, NEW b, admission' = [admission EXCEPT ![q] = b],
               q \in Pools => b \in Books /\ b.granted = admission[q].granted
        PROVE  Goal
    <3>1. admission \in [Pools -> Books]
      BY DEF Follows, PoolTypes
    <3> QED
      BY <2>1, <3>1
  <2>2. CASE \E p \in Pools : ShrinkStarts(p)
    <3>1. PICK p \in Pools : ShrinkStarts(p)
      BY <2>2
    <3> DEFINE adm == admission[p]
               c == [adm EXCEPT !.due = 0, !.debt = adm.debt + adm.due]
    <3>2. admission' = [admission EXCEPT ![p] = Absorb(c)]
      BY <3>1 DEF ShrinkStarts
    <3>3. c \in Books /\ c.granted = adm.granted
      <4>1. adm \in Books /\ adm.debt + adm.due \in Int
        BY <1>2 DEF Books
      <4> HIDE DEF adm
      <4> QED
        BY <4>1, OtherBooks
    <3> HIDE DEF c
    <3> DEFINE b == Absorb(c)
    <3>4. b \in Books /\ b.granted = adm.granted
      BY <3>3, AbsorbBooks
    <3>5. admission' = [admission EXCEPT ![p] = b]
      BY <3>2
    <3> HIDE DEF b, Goal
    <3> QED
      BY <2>1, <3>4, <3>5
  <2>3. CASE \E e \in PoolEpisodes, req \in Requests : Submit(e, req)
    <3>1. PICK e \in PoolEpisodes, req \in Requests : Submit(e, req)
      BY <2>3
    <3> DEFINE q == resolve_pool_id(agents, req)
    <3>2. CASE admission' = admission
      BY <3>2 DEF Follows, PoolTypes
    <3>3. CASE admission' = sync_pool_admission(agents, {q})
      <4> HIDE DEF q
      <4>1. admission' = [p \in Pools |-> IF p \in {q} THEN SyncTo(admission[p], pool_capacity(agents, p)) ELSE admission[p]]
        BY <3>3 DEF sync_pool_admission
      <4>2. \A p \in Pools : /\ SyncTo(admission[p], pool_capacity(agents, p)) \in Books
                             /\ SyncTo(admission[p], pool_capacity(agents, p)).granted = pool_capacity(agents, p)
        BY <1>2, SyncBooks
      <4> QED
        BY <1>2, <4>1, <4>2
    <3> QED
      BY <3>1, <3>2, <3>3 DEF Submit
  <2>4. CASE \E e \in PoolEpisodes : try_acquire(e)
    <3>1. PICK e \in PoolEpisodes : try_acquire(e)
      BY <2>4
    <3> DEFINE q == episode[e].pool  f == admission[q].free  b == [admission[q] EXCEPT !.free = f - 1]
    <3>2. admission' = [admission EXCEPT ![q] = b]
      BY <3>1 DEF try_acquire
    <3>3. ASSUME q \in Pools PROVE b \in Books /\ b.granted = admission[q].granted
      <4>1. f \in Int /\ f - 1 \in Int /\ admission[q] \in Books
        BY <1>2, <3>3 DEF Books
      <4> HIDE DEF f, q
      <4> QED
        BY <4>1 DEF Books
    <3> HIDE DEF b, q, Goal
    <3> QED
      BY <2>1, <3>2, <3>3
  <2>5. CASE \E e \in PoolEpisodes : EndEpisode(e)
    <3>1. PICK e \in PoolEpisodes : EndEpisode(e)
      BY <2>5
    <3> DEFINE q == episode[e].pool  adm == admission[q]
               c == [adm EXCEPT !.free = adm.free + 1]
               b == Absorb(c)
    <3>2. admission' = [admission EXCEPT ![q] = b]
      BY <3>1 DEF EndEpisode
    <3>3. ASSUME q \in Pools PROVE b \in Books /\ b.granted = adm.granted
      <4>1. adm \in Books /\ adm.free + 1 \in Int
        BY <1>2, <3>3 DEF Books
      <4>2. c \in Books /\ c.granted = adm.granted
        <5> HIDE DEF adm
        <5> QED
          BY <4>1, OtherBooks
      <4> HIDE DEF c
      <4> QED
        BY <4>2, AbsorbBooks
    <3> HIDE DEF b, q, Goal
    <3> QED
      BY <2>1, <3>2, <3>3
  <2>6. CASE \E e \in PoolEpisodes : GiveUp(e)
    <3>1. admission' = admission
      BY <2>6 DEF GiveUp
    <3> QED
      BY <3>1 DEF Follows, PoolTypes
  <2> QED
    BY <2>2, <2>3, <2>4, <2>5, <2>6
<1>4. PoolTypes' /\ Heard'
  BY <1>1, <1>3 DEF Follows, PoolTypes, Heard
<1> QED
  BY <1>1, <1>3, <1>4 DEF Follows, GrantFollowsRegistrations

\* Every pool is granted exactly the capacity of its agents until one of them
\* falls silent (sync_pool_admission): for any number of agents and pools,
\* also when agents move between pools while a decrease is still pending.
THEOREM GrantsFollowAgents == ASSUME PoolConstants PROVE PoolSpec => []GrantFollowsRegistrations
<1>1. PoolInit => Follows
  BY FollowsInit
<1>2. Follows /\ [PoolNext]_agentPoolVars => Follows'
  <2> SUFFICES ASSUME Follows, [PoolNext]_agentPoolVars PROVE Follows'
    OBVIOUS
  <2>1. CASE UNCHANGED agentPoolVars
    BY <2>1 DEF agentPoolVars, Follows, PoolTypes, OneEntry, Heard, GrantFollowsRegistrations
  <2>2. CASE PoolNext
    BY <2>2, RegisterFollows, AgentsFollow, EpisodesFollow DEF PoolNext
  <2> QED
    BY <2>1, <2>2
<1>3. Follows => GrantFollowsRegistrations
  BY DEF Follows
<1> QED BY <1>1, <1>2, <1>3, PTL DEF PoolSpec

-----------------------------------------------------------------------------
(* Trajectories: where each is kept while it is on its way.                *)

Requested == [from : Sealers, id : Ids, try : Nat]
Row(w, p) == [sha |-> w, present |-> p]

\* One operation at a time holds the lock, and an id has one row at most.
Operations ==
    /\ op \subseteq [kind : {"write", "row"}, req : Requested] \cup [kind : {"expire"}, id : Ids]
    /\ \A o, q \in op : o = q
Rows(t) == index[t] = {} \/ \E w \in Sealers, p \in BOOLEAN : index[t] = {Row(w, p)}

Copies == [seal : {"no", "body", "index", "over"}, body : BOOLEAN, index : BOOLEAN,
           marker : {"none", "pending", "failed"}, attempts : Nat]
Uploads == [at : {"idle", "posted", "failed", "acked", "unmarked", "bare"}, id : Ids \cup {"none"}, try : Nat]

WorkerTypes ==
    /\ local \in [Sealers -> [Ids -> Copies]]
    /\ upload \in [Sealers -> Uploads]
    /\ \A w \in Sealers : upload[w].at # "idle" => upload[w].id \in Ids
StoreTypes ==
    /\ requests \subseteq Requested
    /\ Operations
    /\ body \in [Ids -> SUBSET Sealers]
    /\ index \in [Ids -> SUBSET [sha : Sealers, present : BOOLEAN]]
    /\ \A t \in Ids : Rows(t)

\* What a body that is being written may replace, and what is in place when
\* its row is written; only what has expired is removed.
OperationsFit ==
    \A o \in op :
        /\ o.kind \in {"write", "row"} => index[o.req.id] = {} \/ index[o.req.id] = {Row(o.req.from, FALSE)}
        /\ o.kind = "row" => body[o.req.id] = {o.req.from}
        /\ o.kind = "expire" => o.id \in old

\* A row that shows a body has it, unless it expired or was lost.
ShownIsThere ==
    \A t \in Ids : t \notin old \cup lost => \A w \in Sealers : index[t] = {Row(w, TRUE)} => body[t] = {w}

\* The worker has been told that the server has the trajectory, or has acted
\* upon it: the row is the worker's own until it expires.
HandedOver(w, t) ==
    \/ local[w][t].seal # "no" /\ ~local[w][t].body
    \/ upload[w].at \in {"acked", "unmarked", "bare"} /\ upload[w].id = t
Kept(w, t) ==
    t \notin old => /\ \E p \in BOOLEAN : index[t] = {Row(w, p)}
                    /\ t \notin lost => index[t] = {Row(w, TRUE)} /\ body[t] = {w}
NothingLost == \A w \in Sealers, t \in Ids : HandedOver(w, t) => Kept(w, t)

Custody == WorkerTypes /\ StoreTypes /\ OperationsFit /\ ShownIsThere /\ NothingLost

-----------------------------------------------------------------------------
(* The actions by who takes them.                                          *)

WorkerStep ==
    \/ \E w \in Sealers, t \in Ids : SealBody(w, t) \/ SealIndex(w, t) \/ enqueue(w, t) \/ drain_once(w, t)
    \/ \E w \in Sealers : UploadTimesOut(w) \/ CountFailure(w) \/ RemoveLocal(w) \/ WorkerRestarts(w)
RequestStep == \E r \in requests : Refuse(r) \/ InsertChecks(r)
LockedStep == \E o \in op : InsertBody(o) \/ InsertRow(o) \/ RetentionRow(o)
StoreStep == \E t \in Ids : get_body(t) \/ reconcile(t) \/ Expires(t) \/ RetentionFile(t) \/ FileLost(t)
ServerStep == ServerCrashes \/ ServerStarts

LEMMA NextSteps ==
    [TrajectoryNext]_trajectoryVars =>
        \/ WorkerStep \/ RequestStep \/ LockedStep \/ StoreStep \/ ServerStep
        \/ UNCHANGED trajectoryVars
  BY DEF TrajectoryNext, WorkerStep, RequestStep, LockedStep, StoreStep, ServerStep

-----------------------------------------------------------------------------
(* Types.                                                                  *)

LEMMA InitCustody == TrajectoryInit => Custody
<1> SUFFICES ASSUME TrajectoryInit PROVE Custody
  OBVIOUS
<1>1. WorkerTypes
  BY DEF TrajectoryInit, WorkerTypes, Copies, Uploads, Unsealed, Idle
<1>2. StoreTypes
  BY DEF TrajectoryInit, StoreTypes, Operations, Rows
<1>3. NothingLost
  BY DEF TrajectoryInit, NothingLost, HandedOver, Unsealed, Idle
<1> QED
  BY <1>1, <1>2, <1>3 DEF TrajectoryInit, Custody, OperationsFit, ShownIsThere

\* A worker acts on its own copies, and whoever is handed over was before.
SameHandedOver == \A w \in Sealers, t \in Ids : HandedOver(w, t)' => HandedOver(w, t)

LEMMA SealSteps ==
    ASSUME WorkerTypes, NEW w \in Sealers, NEW t \in Ids, SealBody(w, t) \/ SealIndex(w, t) \/ enqueue(w, t)
    PROVE  WorkerTypes' /\ SameHandedOver
<1>1. upload' = upload
  BY DEF SealBody, SealIndex, enqueue
<1>2. local[w][t] \in Copies /\ local[w] \in [Ids -> Copies] /\ local \in [Sealers -> [Ids -> Copies]]
  BY DEF WorkerTypes
<1>3. PICK c \in Copies : /\ local' = [local EXCEPT ![w] = [local[w] EXCEPT ![t] = c]]
                          /\ c.seal # "no" /\ ~c.body => local[w][t].seal # "no" /\ ~local[w][t].body
  <2>1. CASE SealBody(w, t)
    <3> DEFINE c == [local[w][t] EXCEPT !.seal = "body", !.body = TRUE]
    <3>1. local' = [local EXCEPT ![w] = [local[w] EXCEPT ![t] = c]]
      BY <2>1, <1>2 DEF SealBody, Copies
    <3>2. c \in Copies /\ c.body
      BY <1>2 DEF Copies
    <3> QED
      BY <3>1, <3>2
  <2>2. CASE SealIndex(w, t)
    <3> DEFINE c == [local[w][t] EXCEPT !.seal = "index", !.index = TRUE]
    <3>1. local' = [local EXCEPT ![w] = [local[w] EXCEPT ![t] = c]]
      BY <2>2, <1>2 DEF SealIndex, Copies
    <3>2. c \in Copies /\ c.body = local[w][t].body /\ local[w][t].seal # "no"
      BY <1>2, <2>2 DEF Copies, SealIndex
    <3> QED
      BY <3>1, <3>2
  <2>3. CASE enqueue(w, t)
    <3>1. PICK m \in {"pending", "none"} : local' = [local EXCEPT ![w][t].seal = "over", ![w][t].marker = m]
      BY <2>3 DEF enqueue
    <3> DEFINE c == [local[w][t] EXCEPT !.seal = "over", !.marker = m]
    <3>2. local' = [local EXCEPT ![w] = [local[w] EXCEPT ![t] = c]]
      BY <3>1, <1>2 DEF Copies
    <3>3. c \in Copies /\ c.body = local[w][t].body /\ local[w][t].seal # "no"
      BY <1>2, <2>3 DEF Copies, enqueue
    <3> QED
      BY <3>2, <3>3
  <2> QED
    BY <2>1, <2>2, <2>3
<1>4. local' \in [Sealers -> [Ids -> Copies]]
  BY <1>2, <1>3
<1>5. \A x \in Sealers, u \in Ids : local'[x][u] = IF x = w /\ u = t THEN c ELSE local[x][u]
  BY <1>2, <1>3
<1> QED
  BY <1>1, <1>3, <1>4, <1>5 DEF WorkerTypes, SameHandedOver, HandedOver

LEMMA UploaderSteps ==
    ASSUME WorkerTypes, NEW w \in Sealers,
           \/ \E t \in Ids : drain_once(w, t)
           \/ UploadTimesOut(w) \/ CountFailure(w) \/ RemoveLocal(w) \/ WorkerRestarts(w)
    PROVE  WorkerTypes' /\ SameHandedOver
<1>1. /\ upload[w] \in Uploads /\ upload \in [Sealers -> Uploads] /\ Idle \in Uploads
      /\ local[w] \in [Ids -> Copies] /\ local \in [Sealers -> [Ids -> Copies]]
      /\ \A t \in Ids : local[w][t] \in Copies
  BY DEF WorkerTypes, Idle, Uploads
<1> DEFINE Moves(n) == /\ upload' = [upload EXCEPT ![w] = n]
                       /\ n \in Uploads /\ (n.at # "idle" => n.id \in Ids)
<1>2. ASSUME NEW n, Moves(n)
      PROVE  /\ upload' \in [Sealers -> Uploads]
             /\ \A x \in Sealers : upload'[x] = IF x = w THEN n ELSE upload[x]
             /\ \A x \in Sealers : upload'[x].at # "idle" => upload'[x].id \in Ids
  <2>1. upload' = [upload EXCEPT ![w] = n] /\ n \in Uploads
    BY <1>2
  <2>2. upload' \in [Sealers -> Uploads] /\ \A x \in Sealers : upload'[x] = IF x = w THEN n ELSE upload[x]
    BY <2>1, <1>1
  <2> QED
    BY <1>2, <2>2 DEF WorkerTypes
<1>3. CASE \E t \in Ids : drain_once(w, t)
  <2>1. PICK t \in Ids : drain_once(w, t)
    BY <1>3
  <2> DEFINE n == [at |-> "posted", id |-> t, try |-> local[w][t].attempts]
  <2>2. Moves(n) /\ local' = local
    BY <2>1, <1>1 DEF drain_once, Uploads, Copies
  <2> QED
    BY <1>1, <1>2, <2>2 DEF WorkerTypes, SameHandedOver, HandedOver
<1>4. CASE UploadTimesOut(w)
  <2> DEFINE n == [upload[w] EXCEPT !.at = "failed"]
  <2>1. Moves(n) /\ local' = local /\ n.at = "failed"
    BY <1>4, <1>1 DEF UploadTimesOut, Uploads, WorkerTypes
  <2> QED
    BY <1>1, <1>2, <2>1 DEF WorkerTypes, SameHandedOver, HandedOver
<1>5. CASE CountFailure(w)
  <2> DEFINE t == upload[w].id  k == local[w][t].attempts + 1
             m == IF k >= MaxRetries THEN "failed" ELSE "pending"
             c == [local[w][t] EXCEPT !.attempts = k, !.marker = m]
  <2>1. t \in Ids
    BY <1>5 DEF CountFailure, WorkerTypes
  <2>2. local' = [local EXCEPT ![w] = [local[w] EXCEPT ![t] = c]]
    BY <1>5, <1>1, <2>1 DEF CountFailure, Copies
  <2>3. c \in Copies /\ c.body = local[w][t].body /\ c.seal = local[w][t].seal
    <3>1. k \in Nat /\ m \in {"failed", "pending"} /\ local[w][t] \in Copies
      BY <1>1, <2>1 DEF Copies
    <3> HIDE DEF k, m
    <3> QED
      BY <3>1 DEF Copies
  <2>4. Moves(Idle)
    BY <1>5, <1>1 DEF CountFailure, Idle
  <2> HIDE DEF c, k, m
  <2>5. /\ local' \in [Sealers -> [Ids -> Copies]]
        /\ \A x \in Sealers, u \in Ids : local'[x][u] = IF x = w /\ u = t THEN c ELSE local[x][u]
    BY <1>1, <2>1, <2>2, <2>3
  <2>6. /\ upload' \in [Sealers -> Uploads]
        /\ \A x \in Sealers : upload'[x] = IF x = w THEN Idle ELSE upload[x]
        /\ \A x \in Sealers : upload'[x].at # "idle" => upload'[x].id \in Ids
    BY <1>2, <2>4
  <2> HIDE DEF Moves
  <2>7. \A x \in Sealers, u \in Ids : local'[x][u].body = local[x][u].body /\ local'[x][u].seal = local[x][u].seal
    BY <2>3, <2>5
  <2>8. \A x \in Sealers : upload'[x] = upload[x] \/ upload'[x].at = "idle"
    BY <2>6 DEF Idle
  <2> QED
    BY <2>5, <2>6, <2>7, <2>8 DEF WorkerTypes, SameHandedOver, HandedOver
<1>6. CASE RemoveLocal(w)
  <2> DEFINE t == upload[w].id
  <2>1. t \in Ids
    BY <1>6 DEF RemoveLocal, WorkerTypes
  <2>2. CASE upload[w].at = "acked"
    <3> DEFINE c == [local[w][t] EXCEPT !.marker = "none"]
               n == [upload[w] EXCEPT !.at = "unmarked"]
    <3>1. local' = [local EXCEPT ![w] = [local[w] EXCEPT ![t] = c]]
      BY <1>6, <1>1, <2>1, <2>2 DEF RemoveLocal, Copies
    <3>2. c \in Copies /\ c.body = local[w][t].body /\ c.seal = local[w][t].seal
      BY <1>1, <2>1 DEF Copies
    <3>3. Moves(n) /\ n.id = t
      BY <1>6, <1>1, <2>1, <2>2 DEF RemoveLocal, Uploads
    <3> HIDE DEF c
    <3>4. /\ local' \in [Sealers -> [Ids -> Copies]]
          /\ \A x \in Sealers, u \in Ids : local'[x][u] = IF x = w /\ u = t THEN c ELSE local[x][u]
      BY <1>1, <2>1, <3>1, <3>2
    <3>5. /\ upload' \in [Sealers -> Uploads]
          /\ \A x \in Sealers : upload'[x] = IF x = w THEN n ELSE upload[x]
          /\ \A x \in Sealers : upload'[x].at # "idle" => upload'[x].id \in Ids
      BY <1>2, <3>3
    <3> HIDE DEF Moves
    <3>6. n.id = t
      BY <3>3
    <3> HIDE DEF n
    <3> QED
      BY <1>1, <2>2, <3>2, <3>4, <3>5, <3>6 DEF WorkerTypes, SameHandedOver, HandedOver
  <2>3. CASE upload[w].at = "unmarked"
    <3> DEFINE c == [local[w][t] EXCEPT !.body = FALSE]
               n == [upload[w] EXCEPT !.at = "bare"]
    <3>1. local' = [local EXCEPT ![w] = [local[w] EXCEPT ![t] = c]]
      BY <1>6, <1>1, <2>1, <2>3 DEF RemoveLocal, Copies
    <3>2. c \in Copies
      BY <1>1, <2>1 DEF Copies
    <3>3. Moves(n) /\ n.id = t
      BY <1>6, <1>1, <2>1, <2>3 DEF RemoveLocal, Uploads
    <3> HIDE DEF c
    <3>4. /\ local' \in [Sealers -> [Ids -> Copies]]
          /\ \A x \in Sealers, u \in Ids : local'[x][u] = IF x = w /\ u = t THEN c ELSE local[x][u]
      BY <1>1, <2>1, <3>1, <3>2
    <3>5. /\ upload' \in [Sealers -> Uploads]
          /\ \A x \in Sealers : upload'[x] = IF x = w THEN n ELSE upload[x]
          /\ \A x \in Sealers : upload'[x].at # "idle" => upload'[x].id \in Ids
      BY <1>2, <3>3
    <3> HIDE DEF Moves
    <3>6. n.id = t
      BY <3>3
    <3> HIDE DEF n
    <3> QED
      BY <1>1, <2>3, <3>4, <3>5, <3>6 DEF WorkerTypes, SameHandedOver, HandedOver
  <2>4. CASE upload[w].at = "bare"
    <3> DEFINE c == [local[w][t] EXCEPT !.index = FALSE]
    <3>1. local' = [local EXCEPT ![w] = [local[w] EXCEPT ![t] = c]]
      BY <1>6, <1>1, <2>1, <2>4 DEF RemoveLocal, Copies
    <3>2. c \in Copies /\ c.body = local[w][t].body /\ c.seal = local[w][t].seal
      BY <1>1, <2>1 DEF Copies
    <3>3. Moves(Idle)
      BY <1>6, <1>1, <2>1, <2>4 DEF RemoveLocal, Uploads, Idle
    <3> HIDE DEF c
    <3>4. /\ local' \in [Sealers -> [Ids -> Copies]]
          /\ \A x \in Sealers, u \in Ids : local'[x][u] = IF x = w /\ u = t THEN c ELSE local[x][u]
      BY <1>1, <2>1, <3>1, <3>2
    <3>5. /\ upload' \in [Sealers -> Uploads]
          /\ \A x \in Sealers : upload'[x] = IF x = w THEN Idle ELSE upload[x]
          /\ \A x \in Sealers : upload'[x].at # "idle" => upload'[x].id \in Ids
      BY <1>2, <3>3
    <3> HIDE DEF Moves
    <3>6. \A x \in Sealers, u \in Ids : local'[x][u].body = local[x][u].body /\ local'[x][u].seal = local[x][u].seal
      BY <3>2, <3>4
    <3>7. \A x \in Sealers : upload'[x] = upload[x] \/ upload'[x].at = "idle"
      BY <3>5 DEF Idle
    <3> QED
      BY <3>4, <3>5, <3>6, <3>7 DEF WorkerTypes, SameHandedOver, HandedOver
  <2> QED
    BY <1>6, <2>2, <2>3, <2>4 DEF RemoveLocal
<1>7. CASE WorkerRestarts(w)
  <2> DEFINE c(t) == IF local[w][t].seal = "no" THEN local[w][t] ELSE [local[w][t] EXCEPT !.seal = "over"]
  <2>1. local' = [local EXCEPT ![w] = [t \in Ids |-> c(t)]]
    BY <1>7 DEF WorkerRestarts
  <2>2. \A t \in Ids : /\ c(t) \in Copies /\ c(t).body = local[w][t].body
                       /\ c(t).seal = "no" <=> local[w][t].seal = "no"
    BY <1>1 DEF Copies
  <2>3. Moves(Idle)
    BY <1>7, <1>1 DEF WorkerRestarts, Idle
  <2> HIDE DEF c
  <2>4. /\ local' \in [Sealers -> [Ids -> Copies]]
        /\ \A x \in Sealers, u \in Ids : local'[x][u] = IF x = w THEN c(u) ELSE local[x][u]
    BY <1>1, <2>1, <2>2
  <2>5. /\ upload' \in [Sealers -> Uploads]
        /\ \A x \in Sealers : upload'[x] = IF x = w THEN Idle ELSE upload[x]
        /\ \A x \in Sealers : upload'[x].at # "idle" => upload'[x].id \in Ids
    BY <1>2, <2>3
  <2> HIDE DEF Moves
  <2> QED
    BY <1>1, <2>2, <2>4, <2>5 DEF WorkerTypes, SameHandedOver, HandedOver, Idle
<1> QED
  BY <1>3, <1>4, <1>5, <1>6, <1>7

-----------------------------------------------------------------------------
(* What keeps a trajectory that has been handed over.                      *)

\* A step that leaves an id alone at the server leaves what is kept of it.
Untouched(t) == index'[t] = index[t] /\ body'[t] = body[t] /\ (t \in lost' <=> t \in lost) /\ (t \in old => t \in old')

LEMMA KeptStays ==
    ASSUME NEW w \in Sealers, NEW t \in Ids, Untouched(t), Kept(w, t)
    PROVE  Kept(w, t)'
  BY DEF Untouched, Kept, Row

LEMMA UntouchedIds ==
    ASSUME ShownIsThere, NothingLost, SameHandedOver, \A t \in Ids : Untouched(t)
    PROVE  ShownIsThere' /\ NothingLost'
<1>1. ShownIsThere'
  BY DEF ShownIsThere, Untouched, Row
<1>2. ASSUME NEW w \in Sealers, NEW t \in Ids, HandedOver(w, t)' PROVE Kept(w, t)'
  <2>1. HandedOver(w, t)
    BY <1>2 DEF SameHandedOver
  <2>2. Kept(w, t)
    BY <2>1 DEF NothingLost
  <2> QED
    BY <2>2, KeptStays
<1> QED
  BY <1>1, <1>2 DEF NothingLost

\* A step of the server on one id.
LEMMA OneId ==
    ASSUME ShownIsThere, NothingLost, NEW t \in Ids,
           \A u \in Ids \ {t} : Untouched(u),
           \A x \in Sealers, u \in Ids \ {t} : HandedOver(x, u)' => HandedOver(x, u),
           t \notin old' \cup lost' => \A w \in Sealers : index'[t] = {Row(w, TRUE)} => body'[t] = {w},
           \A w \in Sealers : HandedOver(w, t)' => Kept(w, t)'
    PROVE  ShownIsThere' /\ NothingLost'
<1>1. ShownIsThere'
  BY DEF ShownIsThere, Untouched, Row
<1>2. ASSUME NEW w \in Sealers, NEW u \in Ids, HandedOver(w, u)' PROVE Kept(w, u)'
  <2>1. CASE u = t
    BY <1>2, <2>1
  <2>2. CASE u # t
    <3>1. Kept(w, u)
      BY <1>2, <2>2 DEF NothingLost
    <3> QED
      BY <2>2, <3>1, KeptStays
  <2> QED
    BY <2>1, <2>2
<1> QED
  BY <1>1, <1>2 DEF NothingLost

LEMMA RowForm ==
    ASSUME StoreTypes, NEW t \in Ids, NEW x \in index[t]
    PROVE  \E w \in Sealers, p \in BOOLEAN : index[t] = {Row(w, p)} /\ x = Row(w, p) /\ x.sha = w /\ x.present = p
<1>1. PICK w \in Sealers, p \in BOOLEAN : index[t] = {Row(w, p)}
  BY DEF StoreTypes, Rows
<1>2. x = Row(w, p)
  BY <1>1
<1> QED
  BY <1>1, <1>2 DEF Row

\* What an answer changes at a worker.
LEMMA Told ==
    ASSUME WorkerTypes, NEW r \in Requested, NEW answer \in {"failed", "acked"}, Tell(r, answer), local' = local
    PROVE  /\ WorkerTypes'
           /\ \A x \in Sealers, u \in Ids :
                HandedOver(x, u)' => HandedOver(x, u) \/ (answer = "acked" /\ x = r.from /\ u = r.id)
<1>1. CASE upload' = upload
  BY <1>1 DEF WorkerTypes, HandedOver
<1>2. CASE upload[r.from].at = "posted" /\ Request(r.from) = r /\ upload' = [upload EXCEPT ![r.from].at = answer]
  <2> DEFINE n == [upload[r.from] EXCEPT !.at = answer]
  <2>1. r.from \in Sealers /\ upload[r.from] \in Uploads /\ upload[r.from].id = r.id /\ r.id \in Ids
    BY <1>2 DEF WorkerTypes, Request, Requested
  <2>2. n \in Uploads /\ n.id = r.id /\ n.at = answer
    BY <2>1 DEF Uploads
  <2>3. upload' = [upload EXCEPT ![r.from] = n]
    BY <1>2, <2>1 DEF Uploads, WorkerTypes
  <2> HIDE DEF n
  <2>4. /\ upload' \in [Sealers -> Uploads]
        /\ \A x \in Sealers : upload'[x] = IF x = r.from THEN n ELSE upload[x]
    BY <2>1, <2>2, <2>3 DEF WorkerTypes
  <2>5. WorkerTypes'
    BY <2>1, <2>2, <2>4 DEF WorkerTypes
  <2>6. ASSUME NEW x \in Sealers, NEW u \in Ids, HandedOver(x, u)'
        PROVE  HandedOver(x, u) \/ (answer = "acked" /\ x = r.from /\ u = r.id)
    BY <2>6, <2>2, <2>4 DEF HandedOver
  <2> QED
    BY <2>5, <2>6
<1> QED
  BY <1>1, <1>2 DEF Tell

\* Rows are the same when their fields are.
LEMMA ShownOrNot == \A v, w : {Row(v, TRUE)} # {Row(w, FALSE)} /\ {} # {Row(v, TRUE)}
<1> TAKE v, w
<1>1. ASSUME {Row(v, TRUE)} = {Row(w, FALSE)} PROVE FALSE
  <2>1. Row(v, TRUE) = Row(w, FALSE)
    BY <1>1
  <2>2. Row(v, TRUE).present = Row(w, FALSE).present
    BY <2>1
  <2> QED
    BY <2>2 DEF Row
<1> QED
  BY <1>1

LEMMA SameOwner == ASSUME NEW v, NEW w, {Row(v, TRUE)} = {Row(w, TRUE)} PROVE v = w
<1>1. Row(v, TRUE) = Row(w, TRUE)
  OBVIOUS
<1>2. Row(v, TRUE).sha = Row(w, TRUE).sha
  BY <1>1
<1> QED
  BY <1>2 DEF Row

-----------------------------------------------------------------------------
(* The steps.                                                              *)

LEMMA WorkersKeep == ASSUME Custody, WorkerStep PROVE Custody'
<1>1. WorkerTypes' /\ SameHandedOver
  BY SealSteps, UploaderSteps DEF Custody, WorkerStep
<1>2. UNCHANGED <<op, body, index, old, lost>>
  BY DEF WorkerStep, SealBody, SealIndex, enqueue, drain_once, UploadTimesOut, CountFailure, RemoveLocal,
         WorkerRestarts, serverVars
<1>3. requests' \subseteq Requested
  <2>1. CASE \E w \in Sealers, t \in Ids : drain_once(w, t)
    <3>1. PICK w \in Sealers, t \in Ids : drain_once(w, t)
      BY <2>1
    <3>2. local[w][t].attempts \in Nat
      BY DEF Custody, WorkerTypes, Copies
    <3> QED
      BY <3>1, <3>2 DEF Custody, StoreTypes, Requested, drain_once
  <2>2. CASE requests' = requests
    BY <2>2 DEF Custody, StoreTypes
  <2> QED
    BY <2>1, <2>2 DEF WorkerStep, SealBody, SealIndex, enqueue, UploadTimesOut, CountFailure, RemoveLocal,
         WorkerRestarts, serverVars
<1>4. StoreTypes' /\ OperationsFit'
  BY <1>2, <1>3 DEF Custody, StoreTypes, Operations, Rows, OperationsFit
<1>5. \A t \in Ids : Untouched(t)
  BY <1>2 DEF Untouched
<1> QED
  BY <1>1, <1>4, <1>5, UntouchedIds DEF Custody

\* A request is refused, or the index is asked: a worker is told that the
\* server has its trajectory only when it has.
LEMMA RequestsKeep == ASSUME Custody, RequestStep PROVE Custody'
<1>1. PICK r \in requests : Refuse(r) \/ InsertChecks(r)
  BY DEF RequestStep
<1>2. r \in Requested /\ r.id \in Ids /\ r.from \in Sealers
  BY DEF Custody, StoreTypes, Requested
<1>3. /\ UNCHANGED <<local, body, index, old, lost>> /\ requests' \subseteq requests
      /\ \A t \in Ids : Untouched(t)
  BY <1>1 DEF Refuse, InsertChecks, Untouched
<1>4. CASE Refuse(r) \/ (InsertChecks(r) /\ \E x \in index[r.id] : x.sha # r.from /\ Tell(r, "failed") /\ op' = op)
  <2>1. Tell(r, "failed") /\ op' = op
    BY <1>4 DEF Refuse
  <2>2. WorkerTypes' /\ SameHandedOver
    BY <1>2, <1>3, <2>1, Told DEF SameHandedOver, Custody
  <2>3. StoreTypes' /\ OperationsFit'
    BY <1>3, <2>1 DEF Custody, StoreTypes, Operations, Rows, OperationsFit
  <2> QED
    BY <1>3, <2>2, <2>3, UntouchedIds DEF Custody
<1>5. CASE \E x \in index[r.id] : x.sha = r.from /\ x.present /\ Tell(r, "acked") /\ op' = op
  <2>1. Tell(r, "acked") /\ op' = op
    BY <1>5
  <2>2. index[r.id] = {Row(r.from, TRUE)}
    <3>1. PICK x \in index[r.id] : x.sha = r.from /\ x.present
      BY <1>5
    <3>2. PICK w \in Sealers, p \in BOOLEAN : index[r.id] = {Row(w, p)} /\ x.sha = w /\ x.present = p
      BY <1>2, RowForm DEF Custody
    <3>3. p = TRUE /\ w = r.from
      BY <3>1, <3>2
    <3> QED
      BY <3>2, <3>3
  <2>3. Kept(r.from, r.id)
    BY <1>2, <2>2 DEF Custody, ShownIsThere, Kept
  <2>4. Kept(r.from, r.id)'
    BY <1>2, <1>3, <2>3, KeptStays
  <2>5. WorkerTypes' /\ \A x \in Sealers, u \in Ids :
            HandedOver(x, u)' => HandedOver(x, u) \/ (x = r.from /\ u = r.id)
    BY <1>2, <1>3, <2>1, Told DEF Custody
  <2>6. ASSUME NEW w \in Sealers, HandedOver(w, r.id)' PROVE Kept(w, r.id)'
    <3>1. CASE w = r.from
      BY <3>1, <2>4
    <3>2. CASE w # r.from
      <4>1. Kept(w, r.id)
        BY <1>2, <2>5, <2>6, <3>2 DEF Custody, NothingLost
      <4> QED
        BY <1>2, <1>3, <4>1, KeptStays
    <3> QED
      BY <3>1, <3>2
  <2>7. StoreTypes' /\ OperationsFit'
    BY <1>3, <2>1 DEF Custody, StoreTypes, Operations, Rows, OperationsFit
  <2>8. r.id \notin old' \cup lost' => \A w \in Sealers : index'[r.id] = {Row(w, TRUE)} => body'[r.id] = {w}
    BY <1>2, <1>3 DEF Custody, ShownIsThere, Row
  <2>9. ShownIsThere /\ NothingLost
    BY DEF Custody
  <2>10. ShownIsThere' /\ NothingLost'
    BY <1>2, <1>3, <2>5, <2>6, <2>8, <2>9, OneId
  <2> QED
    BY <2>5, <2>7, <2>10 DEF Custody
<1>6. CASE /\ \A x \in index[r.id] : x.sha = r.from /\ ~x.present
           /\ op' = {[kind |-> "write", req |-> r]} /\ UNCHANGED upload
  <2>1. index[r.id] = {} \/ index[r.id] = {Row(r.from, FALSE)}
    <3> SUFFICES ASSUME NEW x \in index[r.id] PROVE index[r.id] = {Row(r.from, FALSE)}
      OBVIOUS
    <3>1. x.sha = r.from /\ ~x.present
      BY <1>6
    <3> QED
      BY <1>2, <3>1, RowForm DEF Custody
  <2>2. OperationsFit'
    BY <1>2, <1>3, <1>6, <2>1 DEF OperationsFit, Row
  <2>3. StoreTypes'
    BY <1>2, <1>3, <1>6 DEF Custody, StoreTypes, Operations, Rows
  <2>4. WorkerTypes' /\ SameHandedOver
    BY <1>3, <1>6 DEF Custody, WorkerTypes, SameHandedOver, HandedOver
  <2> QED
    BY <1>3, <2>2, <2>3, <2>4, UntouchedIds DEF Custody
<1> QED
  BY <1>1, <1>4, <1>5, <1>6 DEF InsertChecks

\* A step of the operation that holds the lock.
LEMMA LockedKeep == ASSUME Custody, LockedStep PROVE Custody'
<1>1. PICK o \in op : InsertBody(o) \/ InsertRow(o) \/ RetentionRow(o)
  BY DEF LockedStep
<1>2. /\ ShownIsThere /\ NothingLost /\ local' = local /\ requests' = requests /\ old' = old
      /\ StoreTypes /\ WorkerTypes
  BY <1>1 DEF Custody, InsertBody, InsertRow, RetentionRow, workerVars
<1>3. CASE InsertBody(o) \/ InsertRow(o)
  <2> DEFINE r == o.req  t == o.req.id
  <2>1. r \in Requested /\ t \in Ids /\ r.from \in Sealers
    BY <1>2, <1>3 DEF StoreTypes, Operations, Requested, InsertBody, InsertRow
  <2>2. index[t] = {} \/ index[t] = {Row(r.from, FALSE)}
    BY <1>3 DEF Custody, OperationsFit, InsertBody, InsertRow
  <2>3. \A u \in Ids \ {t} : Untouched(u)
    BY <1>3, <1>2, <2>1 DEF InsertBody, InsertRow, Untouched, StoreTypes
  \* Whoever else has handed this id over has seen it expire.
  <2>4. ASSUME NEW w \in Sealers, HandedOver(w, t), t \notin old
        PROVE  w = r.from /\ t \in lost /\ index[t] = {Row(r.from, FALSE)}
    <3>1. /\ \E p \in BOOLEAN : index[t] = {Row(w, p)}
          /\ t \notin lost => index[t] = {Row(w, TRUE)}
      BY <1>2, <2>1, <2>4 DEF NothingLost, Kept
    <3>2. PICK p \in BOOLEAN : index[t] = {Row(w, p)}
      BY <3>1
    <3>3. index[t] = {Row(r.from, FALSE)} /\ w = r.from
      <4>1. index[t] # {}
        BY <3>2
      <4>2. {Row(w, p)} = {Row(r.from, FALSE)}
        BY <2>2, <3>2, <4>1
      <4> DEFINE v == r.from
      <4>3. {Row(w, p)} = {Row(v, FALSE)}
        BY <4>2
      <4> HIDE DEF v
      <4>4. w = v
        <5>1. Row(w, p) = Row(v, FALSE)
          BY <4>3
        <5>2. Row(w, p).sha = Row(v, FALSE).sha
          BY <5>1
        <5> QED
          BY <5>2 DEF Row
      <4> QED
        BY <2>2, <4>1, <4>4 DEF v
    <3>4. index[t] # {Row(w, TRUE)}
      <4>1. {Row(w, TRUE)} # {Row(r.from, FALSE)}
        BY ShownOrNot
      <4> QED
        BY <3>3, <4>1
    <3> QED
      BY <3>1, <3>3, <3>4
  <2>5. CASE /\ body' = [body EXCEPT ![r.id] = {r.from}] /\ op' = {[o EXCEPT !.kind = "row"]}
             /\ UNCHANGED <<upload, index, lost>> /\ o.kind = "write"
    <3>1. o \in [kind : {"write", "row"}, req : Requested]
      BY <1>2, <2>5 DEF StoreTypes, Operations
    <3>2. op' = {[kind |-> "row", req |-> r]}
      BY <2>5, <3>1
    <3>3. body' \in [Ids -> SUBSET Sealers] /\ body'[t] = {r.from}
      BY <1>2, <2>1, <2>5 DEF StoreTypes
    <3>4. StoreTypes' /\ OperationsFit'
      BY <1>2, <2>1, <2>2, <2>5, <3>2, <3>3 DEF StoreTypes, Operations, Rows, OperationsFit
    <3>5. WorkerTypes' /\ SameHandedOver
      BY <1>2, <2>5 DEF WorkerTypes, SameHandedOver, HandedOver
    <3>6. ASSUME NEW w \in Sealers, HandedOver(w, t)' PROVE Kept(w, t)'
      BY <1>2, <2>1, <2>4, <2>5, <3>5, <3>6 DEF SameHandedOver, Kept
    <3>7. \A w \in Sealers : index'[t] # {Row(w, TRUE)}
      BY <2>2, <2>5, ShownOrNot
    <3>8. ShownIsThere' /\ NothingLost'
      BY <1>2, <2>1, <2>3, <3>5, <3>6, <3>7, OneId DEF SameHandedOver
    <3> QED
      BY <3>4, <3>5, <3>8 DEF Custody
  <2>6. CASE Tell(r, "failed") /\ op' = {} /\ UNCHANGED <<body, index, lost>>
    <3>1. WorkerTypes' /\ SameHandedOver
      BY <1>2, <2>1, <2>6, Told DEF SameHandedOver
    <3>2. StoreTypes' /\ OperationsFit'
      BY <1>2, <2>6 DEF StoreTypes, Operations, Rows, OperationsFit
    <3>3. \A u \in Ids : Untouched(u)
      BY <1>2, <2>6 DEF Untouched
    <3> QED
      BY <1>2, <3>1, <3>2, <3>3, UntouchedIds DEF Custody
  <2>7. CASE /\ o.kind = "row" /\ op' = {} /\ UNCHANGED body
             /\ index' = [index EXCEPT ![r.id] = {[sha |-> r.from, present |-> TRUE]}]
             /\ lost' = lost \ {r.id} /\ Tell(r, "acked")
    <3>1. index'[t] = {Row(r.from, TRUE)} /\ body'[t] = {r.from}
      BY <1>2, <2>1, <2>7 DEF StoreTypes, Custody, OperationsFit, Row
    <3>2. WorkerTypes' /\ \A x \in Sealers, u \in Ids :
              HandedOver(x, u)' => HandedOver(x, u) \/ (x = r.from /\ u = r.id)
      BY <1>2, <2>1, <2>7, Told
    <3>3. StoreTypes'
      <4>1. index' \in [Ids -> SUBSET [sha : Sealers, present : BOOLEAN]]
        BY <1>2, <2>1, <2>7 DEF StoreTypes
      <4>2. \A u \in Ids : u # t => index'[u] = index[u]
        BY <1>2, <2>1, <2>7 DEF StoreTypes
      <4>3. \A u \in Ids : Rows(u)'
        <5> SUFFICES ASSUME NEW u \in Ids PROVE Rows(u)'
          OBVIOUS
        <5>1. CASE u = t
          BY <2>1, <3>1, <5>1 DEF Rows
        <5>2. CASE u # t
          BY <1>2, <4>2, <5>2 DEF StoreTypes, Rows
        <5> QED
          BY <5>1, <5>2
      <4> QED
        BY <1>2, <2>7, <4>1, <4>3 DEF StoreTypes, Operations
    <3>4. OperationsFit'
      BY <2>7 DEF OperationsFit
    <3>5. ASSUME NEW w \in Sealers, HandedOver(w, t)' PROVE Kept(w, t)'
      <4>1. t \notin old => w = r.from
        BY <2>1, <2>4, <3>2, <3>5
      <4> QED
        BY <1>2, <3>1, <4>1 DEF Kept
    <3>6. \A w \in Sealers : index'[t] = {Row(w, TRUE)} => body'[t] = {w}
      <4> SUFFICES ASSUME NEW w \in Sealers, index'[t] = {Row(w, TRUE)} PROVE body'[t] = {w}
        OBVIOUS
      <4> DEFINE v == r.from
      <4>1. {Row(w, TRUE)} = {Row(v, TRUE)}
        BY <3>1
      <4> HIDE DEF v
      <4>2. w = v
        BY <4>1, SameOwner
      <4> QED
        BY <3>1, <4>2 DEF v
    <3>7. ShownIsThere' /\ NothingLost'
      BY <1>2, <2>1, <2>3, <3>2, <3>5, <3>6, OneId
    <3> QED
      BY <3>2, <3>3, <3>4, <3>7 DEF Custody
  <2>8. CASE /\ op' = {} /\ UNCHANGED <<index, lost>> /\ Tell(r, "failed")
             /\ body' = IF index[r.id] = {} THEN [body EXCEPT ![r.id] = {}] ELSE body
    <3>1. WorkerTypes' /\ SameHandedOver
      BY <1>2, <2>1, <2>8, Told DEF SameHandedOver
    <3>2. StoreTypes' /\ OperationsFit'
      BY <1>2, <2>1, <2>8 DEF StoreTypes, Operations, Rows, OperationsFit
    <3>3. ASSUME NEW w \in Sealers, HandedOver(w, t)' PROVE Kept(w, t)'
      BY <1>2, <2>1, <2>4, <2>8, <3>1, <3>3 DEF SameHandedOver, Kept
    <3>4. \A w \in Sealers : index'[t] # {Row(w, TRUE)}
      BY <2>2, <2>8, ShownOrNot
    <3>5. ShownIsThere' /\ NothingLost'
      BY <1>2, <2>1, <2>3, <3>1, <3>3, <3>4, OneId DEF SameHandedOver
    <3> QED
      BY <3>1, <3>2, <3>5 DEF Custody
  <2> QED
    BY <1>3, <2>5, <2>6, <2>7, <2>8 DEF InsertBody, InsertRow
<1>4. CASE RetentionRow(o)
  <2>1. o.id \in Ids /\ o.id \in old
    BY <1>2, <1>4 DEF StoreTypes, Operations, Custody, OperationsFit, RetentionRow
  <2>2. /\ op' = {} /\ index' = [index EXCEPT ![o.id] = {}] /\ UNCHANGED <<workerVars, body, lost>>
    BY <1>4 DEF RetentionRow
  <2>3. WorkerTypes' /\ SameHandedOver
    BY <1>2, <2>2 DEF WorkerTypes, SameHandedOver, HandedOver, workerVars
  <2>4. StoreTypes' /\ OperationsFit'
    BY <1>2, <2>1, <2>2 DEF StoreTypes, Operations, Rows, OperationsFit
  <2>5. \A u \in Ids \ {o.id} : Untouched(u)
    BY <1>2, <2>1, <2>2 DEF Untouched, StoreTypes
  <2>6. \A w \in Sealers : Kept(w, o.id)'
    BY <1>2, <2>1 DEF Kept
  <2>7. ShownIsThere' /\ NothingLost'
    BY <1>2, <2>1, <2>3, <2>5, <2>6, OneId DEF SameHandedOver
  <2> QED
    BY <2>3, <2>4, <2>7 DEF Custody
<1> QED
  BY <1>1, <1>3, <1>4

\* What the store does by itself: a row is no longer shown when its body is
\* gone, a body goes when it has no row.
LEMMA StoreKeeps == ASSUME Custody, StoreStep PROVE Custody'
<1>1. PICK t \in Ids : get_body(t) \/ reconcile(t) \/ Expires(t) \/ RetentionFile(t) \/ FileLost(t)
  BY DEF StoreStep
<1>2. /\ StoreTypes /\ WorkerTypes /\ OperationsFit /\ ShownIsThere /\ NothingLost
      /\ requests' = requests /\ SameHandedOver /\ WorkerTypes'
  BY <1>1 DEF Custody, get_body, reconcile, Expires, RetentionFile, FileLost, workerVars, WorkerTypes,
              SameHandedOver, HandedOver
\* A body that is missing is only missed when it expired or was lost.
<1>3. CASE /\ op = {} /\ op' = {} /\ Shown(t) /\ body[t] = {} /\ UNCHANGED <<body, old, lost>>
           /\ index' = [index EXCEPT ![t] = {[x EXCEPT !.present = FALSE] : x \in index[t]}]
  <2>1. PICK w \in Sealers, p \in BOOLEAN : index[t] = {Row(w, p)}
    <3>1. PICK x \in index[t] : x.present
      BY <1>3 DEF Shown
    <3> QED
      BY <1>2, RowForm
  <2>2. index[t] = {Row(w, TRUE)}
    <3>1. Row(w, p).present = TRUE \/ Row(w, p).present = FALSE
      BY DEF Row
    <3>2. Row(w, p).present
      BY <1>3, <2>1 DEF Shown
    <3>3. p = TRUE
      BY <3>2 DEF Row
    <3> QED
      BY <2>1, <3>3
  <2>3. t \in old \cup lost
    BY <1>2, <1>3, <2>2 DEF ShownIsThere
  <2>4. index'[t] = {Row(w, FALSE)} /\ index' \in [Ids -> SUBSET [sha : Sealers, present : BOOLEAN]]
    <3>1. {[x EXCEPT !.present = FALSE] : x \in index[t]} = {Row(w, FALSE)}
      BY <2>2 DEF Row
    <3>2. {Row(w, FALSE)} \in SUBSET [sha : Sealers, present : BOOLEAN]
      BY DEF Row
    <3> QED
      BY <1>2, <1>3, <3>1, <3>2 DEF StoreTypes
  <2>5. \A u \in Ids \ {t} : index'[u] = index[u]
    BY <1>2, <1>3 DEF StoreTypes
  <2>6. StoreTypes' /\ OperationsFit'
    <3>1. \A u \in Ids : Rows(u)'
      <4> SUFFICES ASSUME NEW u \in Ids PROVE Rows(u)'
        OBVIOUS
      <4>1. CASE u = t
        BY <2>4, <4>1 DEF Rows
      <4>2. CASE u # t
        BY <1>2, <2>5, <4>2 DEF StoreTypes, Rows
      <4> QED
        BY <4>1, <4>2
    <3> QED
      BY <1>2, <1>3, <2>4, <3>1 DEF StoreTypes, Operations, OperationsFit
  <2>7. \A u \in Ids \ {t} : Untouched(u)
    BY <1>3, <2>5 DEF Untouched
  <2>8. ASSUME NEW x \in Sealers, HandedOver(x, t)' PROVE Kept(x, t)'
    <3>1. Kept(x, t)
      BY <1>2, <2>8 DEF SameHandedOver, NothingLost
    <3>2. CASE t \in old
      BY <1>3, <3>2 DEF Kept
    <3>3. CASE t \notin old
      <4>1. PICK q \in BOOLEAN : index[t] = {Row(x, q)}
        BY <3>1, <3>3 DEF Kept
      <4>2. {Row(x, q)} = {Row(w, TRUE)}
        BY <2>2, <4>1
      <4>3. x = w
        <5>1. Row(x, q) = Row(w, TRUE)
          BY <4>2
        <5>2. Row(x, q).sha = Row(w, TRUE).sha
          BY <5>1
        <5> QED
          BY <5>2 DEF Row
      <4> QED
        BY <1>3, <2>3, <2>4, <3>3, <4>3 DEF Kept
    <3> QED
      BY <3>2, <3>3
  <2>9. ShownIsThere' /\ NothingLost'
    <3>1. t \in old' \cup lost'
      BY <1>3, <2>3
    <3> QED
      BY <1>2, <2>7, <2>8, <3>1, OneId DEF SameHandedOver
  <2> QED
    BY <1>2, <2>6, <2>9 DEF Custody
\* A body without a row belongs to nobody.
<1>4. CASE /\ op = {} /\ op' = {} /\ index[t] = {} /\ UNCHANGED <<index, old, lost>>
           /\ body' = [body EXCEPT ![t] = {}]
  <2>1. StoreTypes' /\ OperationsFit'
    BY <1>2, <1>4 DEF StoreTypes, Operations, Rows, OperationsFit
  <2>2. \A u \in Ids \ {t} : Untouched(u)
    BY <1>2, <1>4 DEF Untouched, StoreTypes
  <2>3. \A x \in Sealers : index'[t] # {Row(x, TRUE)}
    BY <1>4
  <2>4. ASSUME NEW x \in Sealers, HandedOver(x, t)' PROVE Kept(x, t)'
    <3>1. Kept(x, t)
      BY <1>2, <2>4 DEF SameHandedOver, NothingLost
    <3>2. t \in old
      BY <1>4, <3>1 DEF Kept
    <3> QED
      BY <1>4, <3>2 DEF Kept
  <2>5. ShownIsThere' /\ NothingLost'
    BY <1>2, <2>2, <2>3, <2>4, OneId DEF SameHandedOver
  <2> QED
    BY <1>2, <2>1, <2>5 DEF Custody
\* From here on the id counts as expired, or as lost.
<1>5. CASE /\ t \in old' \cup lost' /\ index' = index /\ old \subseteq old' /\ lost \subseteq lost'
           /\ \A u \in Ids \ {t} : Untouched(u)
           /\ body' \in [Ids -> SUBSET Sealers]
           /\ \/ op' = op
              \/ op' = {[kind |-> "expire", id |-> t]} /\ t \in old'
           /\ op' = op => op = {} \/ body' = body
  <2>1. StoreTypes'
    <3>1. requests' = requests /\ index' = index /\ body' \in [Ids -> SUBSET Sealers]
      BY <1>2, <1>5
    <3>2. Operations'
      <4>1. CASE op' = op
        BY <1>2, <4>1 DEF StoreTypes, Operations
      <4>2. CASE op' = {[kind |-> "expire", id |-> t]}
        BY <4>2 DEF Operations
      <4> QED
        BY <1>5, <4>1, <4>2
    <3> QED
      BY <1>2, <3>1, <3>2 DEF StoreTypes, Rows
  <2>2. OperationsFit'
    <3>1. CASE op' = op
      BY <1>2, <1>5, <3>1 DEF OperationsFit
    <3>2. CASE op' = {[kind |-> "expire", id |-> t]} /\ t \in old'
      <4>1. \A q \in op' : q.kind = "expire" /\ q.id = t
        BY <3>2
      <4>2. \A q \in op' : q.kind \notin {"write", "row"} /\ q.kind # "row" /\ q.id \in old'
        BY <3>2, <4>1
      <4> QED
        BY <4>2 DEF OperationsFit
    <3> QED
      BY <1>5, <3>1, <3>2
  <2>3. ASSUME NEW x \in Sealers, HandedOver(x, t)' PROVE Kept(x, t)'
    <3>1. Kept(x, t)
      BY <1>2, <2>3 DEF SameHandedOver, NothingLost
    <3> QED
      BY <1>5, <3>1 DEF Kept
  <2>4. ShownIsThere' /\ NothingLost'
    BY <1>2, <1>5, <2>3, OneId DEF SameHandedOver
  <2> QED
    BY <1>2, <2>1, <2>2, <2>4 DEF Custody
<1>6. CASE get_body(t)
  BY <1>3, <1>6 DEF get_body
<1>7. CASE reconcile(t)
  BY <1>3, <1>4, <1>7 DEF reconcile
<1>8. CASE Expires(t)
  BY <1>2, <1>5, <1>8 DEF Expires, Untouched, StoreTypes
<1>9. CASE RetentionFile(t)
  BY <1>2, <1>5, <1>9 DEF RetentionFile, Untouched, StoreTypes
<1>10. CASE FileLost(t)
  BY <1>2, <1>5, <1>10 DEF FileLost, Untouched, StoreTypes
<1> QED
  BY <1>1, <1>6, <1>7, <1>8, <1>9, <1>10

\* A kill of the server ends what holds the lock and what waits for it.
LEMMA ServerKeeps == ASSUME Custody, ServerStep \/ UNCHANGED trajectoryVars PROVE Custody'
<1>1. /\ UNCHANGED <<workerVars, body, index, old, lost>> /\ requests' \subseteq requests
      /\ op' = {} \/ op' = op
  BY DEF ServerStep, ServerCrashes, ServerStarts, trajectoryVars, workerVars
<1>2. StoreTypes' /\ OperationsFit'
  BY <1>1 DEF Custody, StoreTypes, Operations, Rows, OperationsFit
<1>3. WorkerTypes' /\ SameHandedOver
  BY <1>1 DEF Custody, WorkerTypes, SameHandedOver, HandedOver, workerVars
<1>4. \A t \in Ids : Untouched(t)
  BY <1>1 DEF Untouched
<1> QED
  BY <1>2, <1>3, <1>4, UntouchedIds DEF Custody

LEMMA CustodyStep == Custody /\ [TrajectoryNext]_trajectoryVars => Custody'
  BY NextSteps, WorkersKeep, RequestsKeep, LockedKeep, StoreKeeps, ServerKeeps

-----------------------------------------------------------------------------
\* The invariant says what the property says.
LEMMA CustodyIsReadable == Custody => SealedIsReadable
<1> SUFFICES ASSUME Custody, NEW w \in Sealers, NEW t \in Ids, local[w][t].seal # "no",
                    t \notin old \cup lost, ~local[w][t].body
             PROVE  Readable(t, w)
  BY DEF SealedIsReadable
<1>1. Kept(w, t)
  BY DEF Custody, NothingLost, HandedOver
<1> QED
  BY <1>1 DEF Kept, Readable, Row

\* For any workers, ids, refusals and number of retries: until a worker's own
\* copy of a sealed trajectory is gone it has the body, and from then on the
\* server shows it with the bytes of this worker, whatever is repeated,
\* delayed or killed and whoever else sealed under the same id (insert,
\* reconcile and retention of the store, drain_once of the uploader).
THEOREM NothingIsLost == TrajectorySpec => []SealedIsReadable
<1>1. TrajectoryInit => Custody
  BY InitCustody
<1>2. Custody /\ [TrajectoryNext]_trajectoryVars => Custody'
  BY CustodyStep
<1>3. Custody => SealedIsReadable
  BY CustodyIsReadable
<1> QED
  BY <1>1, <1>2, <1>3, PTL DEF TrajectorySpec

-----------------------------------------------------------------------------
(* Lists.                                                                  *)

LEMMA ListAppend ==
    ASSUME NEW s, s \in Seq(Range(s)), NEW x
    PROVE  /\ Len(s) \in Nat /\ DOMAIN s = 1 .. Len(s)
           /\ Append(s, x) \in Seq(Range(Append(s, x)))
           /\ Len(Append(s, x)) = Len(s) + 1 /\ DOMAIN Append(s, x) = 1 .. Len(s) + 1
           /\ Append(s, x)[Len(s) + 1] = x /\ \A i \in 1 .. Len(s) : Append(s, x)[i] = s[i]
           /\ Range(Append(s, x)) = Range(s) \cup {x}
<1>1. PICK S, t : S = Range(s) /\ t = Append(s, x)
  OBVIOUS
<1>2. /\ t \in Seq(S \cup {x}) /\ Len(t) = Len(s) + 1 /\ Len(s) \in Nat
      /\ t[Len(s) + 1] = x /\ \A i \in 1 .. Len(s) : t[i] = s[i]
  BY <1>1
<1>3. DOMAIN s = 1 .. Len(s) /\ DOMAIN t = 1 .. Len(s) + 1
  BY <1>1, <1>2
<1>4. Range(t) = S \cup {x}
  <2>1. ASSUME NEW y \in S PROVE y \in Range(t)
    <3>1. PICK i \in 1 .. Len(s) : y = s[i]
      BY <1>1, <1>3, <2>1 DEF Range
    <3>2. i \in 1 .. Len(s) + 1 /\ t[i] = y
      BY <1>2, <3>1
    <3> QED BY <1>3, <3>2 DEF Range
  <2>2. x \in Range(t)
    <3>1. Len(s) + 1 \in 1 .. Len(s) + 1
      BY <1>2
    <3> QED BY <1>2, <1>3, <3>1 DEF Range
  <2>3. Range(t) \subseteq S \cup {x}
    BY <1>2 DEF Range
  <2> QED BY <2>1, <2>2, <2>3
<1> QED BY <1>1, <1>2, <1>3, <1>4

LEMMA ListTail ==
    ASSUME NEW s, s \in Seq(Range(s)), s # <<>>
    PROVE  /\ Tail(s) \in Seq(Range(Tail(s))) /\ Len(s) \in Nat /\ Len(Tail(s)) = Len(s) - 1
           /\ Range(s) = {Head(s)} \cup Range(Tail(s))
<1>1. PICK S, t : S = Range(s) /\ t = Tail(s)
  OBVIOUS
<1>2. /\ t \in Seq(S) /\ Len(t) = Len(s) - 1 /\ Len(s) \in Nat /\ Len(s) # 0
      /\ \A i \in 1 .. Len(s) - 1 : t[i] = s[i + 1]
      /\ Head(s) = s[1]
  BY <1>1
<1>3. DOMAIN s = 1 .. Len(s) /\ DOMAIN t = 1 .. Len(s) - 1
  BY <1>1, <1>2
<1>4. t \in Seq(Range(t))
  <2>1. t = [i \in 1 .. Len(s) - 1 |-> t[i]] /\ \A i \in 1 .. Len(s) - 1 : t[i] \in Range(t)
    BY <1>2, <1>3 DEF Range
  <2> QED BY <1>2, <2>1
<1>5. S = {Head(s)} \cup Range(t)
  <2>1. ASSUME NEW y \in S PROVE y = Head(s) \/ y \in Range(t)
    <3>1. PICK i \in 1 .. Len(s) : y = s[i]
      BY <1>1, <1>3, <2>1 DEF Range
    <3>2. CASE i = 1
      BY <1>2, <3>1, <3>2
    <3>3. CASE i # 1
      <4>1. i - 1 \in 1 .. Len(s) - 1 /\ (i - 1) + 1 = i
        BY <1>2, <3>3
      <4>2. t[i - 1] = y
        BY <1>2, <3>1, <4>1
      <4> QED BY <1>3, <4>1, <4>2 DEF Range
    <3> QED BY <3>2, <3>3
  <2>2. Head(s) \in S
    <3>1. 1 \in 1 .. Len(s)
      BY <1>2
    <3> QED BY <1>1, <1>2, <1>3, <3>1 DEF Range
  <2>3. ASSUME NEW y \in Range(t) PROVE y \in S
    <3>1. PICK i \in 1 .. Len(s) - 1 : y = t[i]
      BY <1>3, <2>3 DEF Range
    <3>2. i + 1 \in 1 .. Len(s) /\ s[i + 1] = y
      BY <1>2, <3>1
    <3> QED BY <1>1, <1>3, <3>2 DEF Range
  <2> QED BY <2>1, <2>2, <2>3
<1> QED BY <1>1, <1>2, <1>4, <1>5

LEMMA ListEmpty == <<>> \in Seq(Range(<<>>)) /\ Range(<<>>) = {} /\ DOMAIN <<>> = {} /\ Len(<<>>) = 0
BY DEF Range

\* A list made for the indices of another.
LEMMA ListOf ==
    ASSUME NEW n \in Nat, NEW f, f = [i \in 1 .. n |-> f[i]]
    PROVE  f \in Seq(Range(f)) /\ Len(f) = n /\ DOMAIN f = 1 .. n
<1>1. \A i \in 1 .. n : f[i] \in Range(f)
  BY DEF Range
<1> QED BY <1>1

LEMMA ListExcept ==
    ASSUME NEW s, s \in Seq(Range(s)), NEW i \in DOMAIN s, NEW x
    PROVE  LET t == [s EXCEPT ![i] = x] IN
           /\ t \in Seq(Range(t)) /\ DOMAIN t = DOMAIN s /\ Len(t) = Len(s)
           /\ t[i] = x /\ \A j \in DOMAIN s \ {i} : t[j] = s[j]
<1>1. PICK t : t = [s EXCEPT ![i] = x]
  OBVIOUS
<1>2. PICK n \in Nat : n = Len(s) /\ DOMAIN s = 1 .. n
  <2>1. PICK S : S = Range(s)
    OBVIOUS
  <2> QED BY <2>1
<1>3. DOMAIN t = 1 .. n /\ t[i] = x /\ \A j \in DOMAIN s \ {i} : t[j] = s[j]
  BY <1>1, <1>2
<1>4. t = [j \in 1 .. n |-> t[j]]
  BY <1>1, <1>2
<1>5. t \in Seq(Range(t)) /\ Len(t) = n
  BY <1>4, ListOf
<1> QED BY <1>1, <1>2, <1>3, <1>5

LEMMA ListOne == ASSUME NEW x PROVE /\ <<x>> \in Seq(Range(<<x>>)) /\ Len(<<x>>) = 1 /\ DOMAIN <<x>> = {1}
                                    /\ Range(<<x>>) = {x} /\ <<x>>[1] = x
<1>1. PICK s : s = <<x>>
  OBVIOUS
<1>2. s \in Seq({x}) /\ Len(s) = 1 /\ s[1] = x /\ DOMAIN s = {1}
  BY <1>1
<1>3. Range(s) = {x}
  BY <1>2 DEF Range
<1> QED BY <1>1, <1>2, <1>3

-----------------------------------------------------------------------------
(* The replay of rows is a recursion over their places.                    *)

StepAt(rows, n, eng) == apply(eng, rows[n].ev)

IsMerging(f, rows, n) == f = [k \in 0 .. n |-> IF k = 0 THEN EngineEmpty ELSE StepAt(rows, k, f[k - 1])]

\* What the first n rows merge to.
Merged(rows, n) == (CHOOSE f : IsMerging(f, rows, n))[n]

LEMMA MergingExists ==
    ASSUME NEW rows, NEW n \in Nat
    PROVE  \E f : IsMerging(f, rows, n)
<1> DEFINE T == {m \in Nat : \E f : IsMerging(f, rows, m)}
<1>1. 0 \in T
  <2> DEFINE f == [t \in 0 .. 0 |-> EngineEmpty]
             g == [t \in 0 .. 0 |-> IF t = 0 THEN EngineEmpty ELSE StepAt(rows, t, f[t - 1])]
  <2>1. \A t \in 0 .. 0 : f[t] = g[t]
    OBVIOUS
  <2>2. f = g
    BY <2>1
  <2>3. IsMerging(f, rows, 0)
    BY <2>2 DEF IsMerging
  <2> QED BY <2>3
<1>2. ASSUME NEW m \in T PROVE m + 1 \in T
  <2>1. PICK f : IsMerging(f, rows, m)
    OBVIOUS
  <2> DEFINE g == [t \in 0 .. m + 1 |-> IF t = m + 1 THEN StepAt(rows, m + 1, f[m]) ELSE f[t]]
             k == [t \in 0 .. m + 1 |-> IF t = 0 THEN EngineEmpty ELSE StepAt(rows, t, g[t - 1])]
  <2>2. ASSUME NEW t \in 0 .. m + 1 PROVE g[t] = k[t]
    <3>1. CASE t = m + 1
      <4>1. t # 0 /\ t - 1 = m /\ m \in 0 .. m + 1 /\ m # m + 1
        BY <3>1
      <4>2. g[m] = f[m]
        BY <4>1
      <4> QED BY <3>1, <4>1, <4>2
    <3>2. CASE t \in 1 .. m
      <4>1. t # 0 /\ t # m + 1 /\ t \in 0 .. m /\ t - 1 \in 0 .. m + 1 /\ t - 1 # m + 1
        BY <3>2
      <4>2. g[t] = f[t] /\ g[t - 1] = f[t - 1]
        BY <4>1
      <4>3. f[t] = StepAt(rows, t, f[t - 1])
        BY <2>1, <4>1 DEF IsMerging
      <4> QED BY <4>1, <4>2, <4>3
    <3>3. CASE t = 0
      <4>1. f[0] = EngineEmpty
        BY <2>1 DEF IsMerging
      <4> QED BY <3>3, <4>1
    <3> QED BY <3>1, <3>2, <3>3
  <2>3. g = k
    BY <2>2
  <2>4. IsMerging(g, rows, m + 1)
    BY <2>3 DEF IsMerging
  <2> QED BY <2>4
<1> HIDE DEF T
<1>3. T = Nat
  <2>1. T \in SUBSET Nat
    BY DEF T
  <2> QED BY <2>1, <1>1, <1>2, SetInduction
<1> QED BY <1>3 DEF T

\* There is one such recursion, and a longer one continues a shorter one.
LEMMA MergingsAgree ==
    ASSUME NEW A, NEW B, NEW m \in Nat, NEW n \in Nat, m <= n, NEW f, NEW g,
           IsMerging(f, A, m), IsMerging(g, B, n), \A k \in 1 .. m : A[k] = B[k]
    PROVE  f[m] = g[m]
<1> DEFINE T == {k \in Nat : k <= m => f[k] = g[k]}
<1>1. 0 \in T
  BY DEF IsMerging
<1>2. ASSUME NEW k \in T PROVE k + 1 \in T
  <2> SUFFICES ASSUME k + 1 <= m PROVE f[k + 1] = g[k + 1]
    OBVIOUS
  <2>1. k + 1 \in 0 .. m /\ k + 1 \in 0 .. n /\ k + 1 \in 1 .. m /\ k + 1 # 0 /\ (k + 1) - 1 = k /\ f[k] = g[k]
    OBVIOUS
  <2>2. f[k + 1] = StepAt(A, k + 1, f[k])
    BY <2>1 DEF IsMerging
  <2>3. g[k + 1] = StepAt(B, k + 1, g[k])
    BY <2>1 DEF IsMerging
  <2>4. A[k + 1] = B[k + 1]
    BY <2>1
  <2> QED BY <2>1, <2>2, <2>3, <2>4 DEF StepAt
<1> HIDE DEF T
<1>3. T = Nat
  <2>1. T \in SUBSET Nat
    BY DEF T
  <2> QED BY <2>1, <1>1, <1>2, SetInduction
<1>4. m \in T
  BY <1>3
<1> QED BY <1>4 DEF T

\* Each row is merged into what the rows before it merged to.
LEMMA MergedAt ==
    ASSUME NEW rows
    PROVE  /\ Merged(rows, 0) = EngineEmpty
           /\ \A n \in Nat : Merged(rows, n + 1) = StepAt(rows, n + 1, Merged(rows, n))
<1> DEFINE F(n) == CHOOSE f : IsMerging(f, rows, n)
<1>1. ASSUME NEW n \in Nat PROVE IsMerging(F(n), rows, n) /\ Merged(rows, n) = F(n)[n]
  BY MergingExists DEF Merged
<1> HIDE DEF F
<1>2. Merged(rows, 0) = EngineEmpty
  <2>1. IsMerging(F(0), rows, 0) /\ Merged(rows, 0) = F(0)[0]
    BY <1>1
  <2> QED BY <2>1 DEF IsMerging
<1>3. ASSUME NEW n \in Nat PROVE Merged(rows, n + 1) = StepAt(rows, n + 1, Merged(rows, n))
  <2>1. n + 1 \in Nat /\ n <= n + 1 /\ n + 1 \in 0 .. n + 1 /\ n + 1 # 0 /\ (n + 1) - 1 = n
    OBVIOUS
  <2>2. IsMerging(F(n), rows, n) /\ Merged(rows, n) = F(n)[n]
    BY <1>1
  <2>3. IsMerging(F(n + 1), rows, n + 1) /\ Merged(rows, n + 1) = F(n + 1)[n + 1]
    BY <1>1, <2>1
  <2>4. F(n + 1)[n + 1] = StepAt(rows, n + 1, F(n + 1)[n])
    BY <2>1, <2>3 DEF IsMerging
  <2>5. F(n)[n] = F(n + 1)[n]
    <3>1. PICK f, g : f = F(n) /\ g = F(n + 1)
      OBVIOUS
    <3>2. IsMerging(f, rows, n) /\ IsMerging(g, rows, n + 1)
      BY <2>2, <2>3, <3>1
    <3>3. PICK m, same : m = n + 1 /\ same = rows
      OBVIOUS
    <3>4. n \in Nat /\ m \in Nat /\ n <= m /\ \A k \in 1 .. n : rows[k] = same[k]
      BY <3>3
    <3>5. IsMerging(f, rows, n) /\ IsMerging(g, same, m)
      BY <3>2, <3>3
    <3>6. f[n] = g[n]
      BY <3>4, <3>5, MergingsAgree
    <3> QED BY <3>1, <3>6
  <2> QED BY <2>2, <2>3, <2>4, <2>5
<1> QED BY <1>2, <1>3

\* Only the first rows count for what they merge to.
LEMMA MergedSame ==
    ASSUME NEW A, NEW B, NEW n \in Nat, \A k \in 1 .. n : A[k] = B[k]
    PROVE  Merged(A, n) = Merged(B, n)
<1>1. PICK f : IsMerging(f, A, n) /\ f = CHOOSE x : IsMerging(x, A, n)
  BY MergingExists
<1>2. PICK g : IsMerging(g, B, n) /\ g = CHOOSE x : IsMerging(x, B, n)
  BY MergingExists
<1>3. f[n] = g[n]
  BY <1>1, <1>2, MergingsAgree
<1> QED BY <1>1, <1>2, <1>3 DEF Merged

LEMMA ReplayIs == ASSUME NEW rows PROVE Replay(rows) = Merged(rows, Len(rows))
BY DEF Replay, Merged, IsMerging, StepAt

LEMMA ReplayNone == Replay(<<>>) = EngineEmpty
<1>1. Len(<<>>) = 0
  OBVIOUS
<1> QED BY <1>1, ReplayIs, MergedAt

\* One more row is merged into the replay of the others.
LEMMA ReplayAppend ==
    ASSUME NEW rows, rows \in Seq(Range(rows)), NEW row
    PROVE  Replay(Append(rows, row)) = apply(Replay(rows), row.ev)
<1>1. PICK t, n : t = Append(rows, row) /\ n = Len(rows)
  OBVIOUS
<1>2. n \in Nat /\ Len(t) = n + 1 /\ t[n + 1] = row /\ \A i \in 1 .. n : t[i] = rows[i]
  BY <1>1, ListAppend
<1>3. Merged(t, n + 1) = apply(Merged(t, n), row.ev)
  BY <1>2, MergedAt DEF StepAt
<1>4. Merged(t, n) = Merged(rows, n)
  BY <1>2, MergedSame
<1>5. Replay(t) = Merged(t, n + 1) /\ Replay(rows) = Merged(rows, n)
  BY <1>1, <1>2, ReplayIs
<1> QED BY <1>1, <1>3, <1>4, <1>5

-----------------------------------------------------------------------------
(* Rows in the order in which they are read.                               *)

IsRow(row) == row.ts \in Nat /\ row.ev.seq \in Nat
AreRows(S) == \A row \in S : IsRow(row)

\* The rows of T come in that order, none twice.
SortedOn(rows, T) ==
    \A i, j \in DOMAIN rows : i < j /\ rows[i] \in T /\ rows[j] \in T => Precedes(rows[i], rows[j])

LEMMA PrecedesOrders ==
    ASSUME NEW a, NEW b, IsRow(a), IsRow(b)
    PROVE  ~Precedes(a, a) /\ ~(Precedes(a, b) /\ Precedes(b, a))
BY DEF IsRow, Precedes

\* Of two rows that were merged as they are read, one comes first.
LEMMA OneComesFirst ==
    ASSUME NEW rows, rows \in Seq(Range(rows)), NEW T, SortedOn(rows, T),
           NEW a \in Range(rows), NEW b \in Range(rows), a \in T, b \in T, a # b
    PROVE  Precedes(a, b) \/ Precedes(b, a)
<1>1. PICK n \in Nat : DOMAIN rows = 1 .. n
  <2>1. PICK S : S = Range(rows)
    OBVIOUS
  <2> QED BY <2>1
<1>2. PICK i \in 1 .. n, j \in 1 .. n : rows[i] = a /\ rows[j] = b
  BY <1>1 DEF Range
<1>3. i < j \/ j < i
  BY <1>2
<1> QED BY <1>1, <1>2, <1>3 DEF SortedOn

\* There is one way to list a set of rows in that order.
LEMMA SortedUnique ==
    ASSUME NEW s, s \in Seq(Range(s)), NEW t, t \in Seq(Range(t)), Range(s) = Range(t), AreRows(Range(s)),
           SortedOn(s, Range(s)), SortedOn(t, Range(s))
    PROVE  s = t
<1>1. PICK m \in Nat : m = Len(s) /\ DOMAIN s = 1 .. m /\ s = [i \in 1 .. m |-> s[i]]
  <2>1. PICK S : S = Range(s)
    OBVIOUS
  <2>2. s \in Seq(S)
    BY <2>1
  <2> QED BY <2>2
<1>2. PICK n \in Nat : n = Len(t) /\ DOMAIN t = 1 .. n /\ t = [i \in 1 .. n |-> t[i]]
  <2>1. PICK S : S = Range(t)
    OBVIOUS
  <2>2. t \in Seq(S)
    BY <2>1
  <2> QED BY <2>2
<1>3. /\ \A i \in 1 .. m : s[i] \in Range(s) /\ IsRow(s[i]) /\ \E j \in 1 .. n : t[j] = s[i]
      /\ \A i \in 1 .. n : t[i] \in Range(s) /\ IsRow(t[i]) /\ \E j \in 1 .. m : s[j] = t[i]
  <2>1. \A x : x \in Range(s) <=> \E i \in 1 .. m : s[i] = x
    BY <1>1 DEF Range
  <2>2. \A x : x \in Range(t) <=> \E i \in 1 .. n : t[i] = x
    BY <1>2 DEF Range
  <2>3. \A x \in Range(s) : IsRow(x) /\ x \in Range(t)
    BY DEF AreRows
  <2>4. ASSUME NEW i \in 1 .. m PROVE s[i] \in Range(s) /\ IsRow(s[i]) /\ \E j \in 1 .. n : t[j] = s[i]
    <3>1. s[i] \in Range(s)
      BY <2>1
    <3> QED BY <2>2, <2>3, <3>1
  <2>5. ASSUME NEW i \in 1 .. n PROVE t[i] \in Range(s) /\ IsRow(t[i]) /\ \E j \in 1 .. m : s[j] = t[i]
    <3>1. t[i] \in Range(t)
      BY <2>2
    <3>2. t[i] \in Range(s)
      BY <3>1
    <3> QED BY <2>1, <2>3, <3>2
  <2> QED BY <2>4, <2>5
<1>4. /\ \A i, j \in 1 .. m : i < j => Precedes(s[i], s[j]) /\ ~Precedes(s[j], s[i]) /\ s[i] # s[j]
      /\ \A i, j \in 1 .. n : i < j => Precedes(t[i], t[j]) /\ ~Precedes(t[j], t[i]) /\ t[i] # t[j]
  <2>1. ASSUME NEW i \in 1 .. m, NEW j \in 1 .. m, i < j PROVE Precedes(s[i], s[j]) /\ ~Precedes(s[j], s[i]) /\ s[i] # s[j]
    <3>1. Precedes(s[i], s[j]) /\ IsRow(s[i]) /\ IsRow(s[j])
      BY <1>1, <1>3, <2>1 DEF SortedOn
    <3> QED BY <3>1, PrecedesOrders
  <2>2. ASSUME NEW i \in 1 .. n, NEW j \in 1 .. n, i < j PROVE Precedes(t[i], t[j]) /\ ~Precedes(t[j], t[i]) /\ t[i] # t[j]
    <3>1. Precedes(t[i], t[j]) /\ IsRow(t[i]) /\ IsRow(t[j])
      BY <1>2, <1>3, <2>2 DEF SortedOn
    <3> QED BY <3>1, PrecedesOrders
  <2> QED BY <2>1, <2>2
<1> DEFINE Alike(k) == \A i \in 1 .. k : i \in 1 .. m /\ i \in 1 .. n => s[i] = t[i]
           T == {k \in Nat : Alike(k)}
<1>5. 0 \in T
  OBVIOUS
<1>6. ASSUME NEW k \in T PROVE k + 1 \in T
  <2>1. k \in Nat /\ k + 1 \in Nat /\ Alike(k)
    OBVIOUS
  <2>2. ASSUME k + 1 \in 1 .. m, k + 1 \in 1 .. n PROVE s[k + 1] = t[k + 1]
    <3>1. PICK j \in 1 .. n : t[j] = s[k + 1]
      BY <1>3, <2>2
    <3>2. PICK i \in 1 .. m : s[i] = t[k + 1]
      BY <1>3, <2>2
    <3>3. j >= k + 1
      <4> SUFFICES ASSUME j < k + 1 PROVE FALSE
        BY <2>1, <3>1
      <4>1. j \in 1 .. k /\ j \in 1 .. m
        BY <2>1, <2>2, <3>1
      <4>2. s[j] = t[j]
        BY <2>1, <4>1
      <4> QED BY <1>4, <2>2, <3>1, <4>1, <4>2
    <3>4. i >= k + 1
      <4> SUFFICES ASSUME i < k + 1 PROVE FALSE
        BY <2>1, <3>2
      <4>1. i \in 1 .. k /\ i \in 1 .. n
        BY <2>1, <2>2, <3>2
      <4>2. s[i] = t[i]
        BY <2>1, <4>1
      <4> QED BY <1>4, <2>2, <3>2, <4>1, <4>2
    <3>5. CASE j = k + 1
      BY <3>1, <3>5
    <3>6. CASE j > k + 1 /\ i > k + 1
      <4>1. Precedes(t[k + 1], t[j]) /\ ~Precedes(s[i], s[k + 1])
        BY <1>4, <2>2, <3>6
      <4> QED BY <3>1, <3>2, <4>1
    <3>7. CASE i = k + 1
      BY <3>2, <3>7
    <3> QED BY <2>1, <3>3, <3>4, <3>5, <3>6, <3>7
  <2>3. \A i \in 1 .. (k + 1) : i \in 1 .. k \/ i = k + 1
    BY <2>1
  <2> QED BY <2>1, <2>2, <2>3
<1>7. T = Nat
  <2> HIDE DEF Alike
  <2>1. T \in SUBSET Nat
    OBVIOUS
  <2> HIDE DEF T
  <2> QED BY <2>1, <1>5, <1>6, SetInduction
<1>8. \A i \in Nat : i \in 1 .. m /\ i \in 1 .. n => s[i] = t[i]
  <2> TAKE i \in Nat
  <2>1. Alike(i)
    BY <1>7
  <2> QED BY <2>1
<1> HIDE DEF T, Alike
<1>9. m = n
  <2>1. CASE m < n
    <3>1. m + 1 \in 1 .. n
      BY <2>1
    <3>2. PICK j \in 1 .. m : s[j] = t[m + 1]
      BY <1>3, <3>1
    <3>3. j \in 1 .. n /\ j < m + 1 /\ j \in Nat
      BY <2>1
    <3>4. s[j] = t[j]
      BY <1>8, <3>3
    <3> QED BY <1>4, <3>1, <3>2, <3>3, <3>4
  <2>2. CASE n < m
    <3>1. n + 1 \in 1 .. m
      BY <2>2
    <3>2. PICK j \in 1 .. n : t[j] = s[n + 1]
      BY <1>3, <3>1
    <3>3. j \in 1 .. m /\ j < n + 1 /\ j \in Nat
      BY <2>2
    <3>4. s[j] = t[j]
      BY <1>8, <3>3
    <3> QED BY <1>4, <3>1, <3>2, <3>3, <3>4
  <2> QED BY <2>1, <2>2
<1>10. \A i \in 1 .. m : s[i] = t[i]
  BY <1>8, <1>9
<1> QED BY <1>1, <1>2, <1>9, <1>10

\* A row at a place of its own.
LEMMA Inserted ==
    ASSUME NEW s, s \in Seq(Range(s)), NEW k \in 1 .. Len(s) + 1, NEW x
    PROVE  LET t == InsertAt(s, k, x) IN
           /\ t \in Seq(Range(t)) /\ Range(t) = Range(s) \cup {x}
           /\ Len(s) \in Nat /\ DOMAIN s = 1 .. Len(s) /\ DOMAIN t = 1 .. Len(s) + 1 /\ t[k] = x
           /\ \A i \in 1 .. Len(s) + 1 : (i < k => t[i] = s[i]) /\ (i > k => t[i] = s[i - 1])
<1>1. PICK S, n, t : S = Range(s) \cup {x} /\ n = Len(s) /\ t = InsertAt(s, k, x)
  OBVIOUS
<1>2. n \in Nat /\ s \in Seq(S) /\ DOMAIN s = 1 .. n /\ k \in 1 .. n + 1
  <2>1. \A i \in 1 .. n : s[i] \in S
    BY <1>1
  <2>2. n \in Nat /\ DOMAIN s = 1 .. n /\ s = [i \in 1 .. n |-> s[i]]
    BY <1>1
  <2> QED BY <1>1, <2>1, <2>2
<1> DEFINE a == SubSeq(s, 1, k - 1)
           b == SubSeq(s, k, n)
<1>3. a \in Seq(S) /\ Len(a) = k - 1 /\ \A i \in 1 .. k - 1 : a[i] = s[i]
  BY <1>1, <1>2
<1>4. b \in Seq(S) /\ Len(b) = n - k + 1 /\ \A i \in 1 .. n - k + 1 : b[i] = s[k + i - 1]
  BY <1>1, <1>2
<1>5. t = (a \o <<x>>) \o b
  BY <1>1 DEF InsertAt
<1> HIDE DEF a, b
<1> DEFINE c == a \o <<x>>
<1>6. c \in Seq(S) /\ Len(c) = k /\ c[k] = x /\ \A i \in 1 .. k - 1 : c[i] = s[i]
  <2>1. x \in S
    BY <1>1
  <2> QED BY <1>2, <1>3, <2>1
<1> HIDE DEF c
<1>7. t = c \o b
  BY <1>5 DEF c
<1>8. t \in Seq(S) /\ Len(t) = n + 1
  <2>1. c \in Seq(S) /\ b \in Seq(S) /\ t = c \o b
    BY <1>4, <1>6, <1>7
  <2>2. t \in Seq(S) /\ Len(t) = Len(c) + Len(b)
    BY <2>1
  <2> QED BY <1>2, <1>4, <1>6, <2>2
<1>9. ASSUME NEW i \in 1 .. k PROVE t[i] = c[i]
  BY <1>2, <1>4, <1>6, <1>7
<1>10. ASSUME NEW i \in (k + 1) .. n + 1 PROVE t[i] = s[i - 1]
  <2>1. i - k \in 1 .. n - k + 1 /\ k + (i - k) - 1 = i - 1
    BY <1>2
  <2>2. t[i] = b[i - k]
    BY <1>2, <1>4, <1>6, <1>7, <2>1
  <2> QED BY <1>4, <2>1, <2>2
<1>11. DOMAIN t = 1 .. n + 1 /\ t[k] = x /\ \A i \in 1 .. n + 1 : (i < k => t[i] = s[i]) /\ (i > k => t[i] = s[i - 1])
  <2>1. t[k] = x
    BY <1>2, <1>6, <1>9
  <2>2. ASSUME NEW i \in 1 .. n + 1, i < k PROVE t[i] = s[i]
    <3>1. i \in 1 .. k - 1 /\ i \in 1 .. k
      BY <1>2, <2>2
    <3> QED BY <1>6, <1>9, <3>1
  <2>3. ASSUME NEW i \in 1 .. n + 1, i > k PROVE t[i] = s[i - 1]
    BY <1>2, <1>10, <2>3
  <2> QED BY <1>8, <2>1, <2>2, <2>3
<1>12. Range(t) = S
  <2>1. Range(t) \subseteq S
    BY <1>8 DEF Range
  <2>2. x \in Range(t)
    BY <1>2, <1>11 DEF Range
  <2>3. ASSUME NEW j \in 1 .. n PROVE s[j] \in Range(t)
    <3>1. CASE j < k
      <4>1. j \in 1 .. n + 1 /\ t[j] = s[j]
        BY <1>2, <1>11, <3>1
      <4> QED BY <1>11, <4>1 DEF Range
    <3>2. CASE j >= k
      <4>1. j + 1 \in 1 .. n + 1 /\ j + 1 > k /\ (j + 1) - 1 = j
        BY <1>2, <3>2
      <4>2. t[j + 1] = s[j]
        BY <1>11, <4>1
      <4> QED BY <1>11, <4>1, <4>2 DEF Range
    <3> QED BY <1>2, <3>1, <3>2
  <2>4. Range(s) \subseteq Range(t)
    BY <1>2, <2>3 DEF Range
  <2> QED BY <1>1, <2>1, <2>2, <2>4
<1>13. t \in Seq(Range(t))
  BY <1>8, <1>12
<1> QED BY <1>1, <1>2, <1>11, <1>12, <1>13

-----------------------------------------------------------------------------
(* The engine, whatever events reach it.                                   *)

Undecided == {"pending", "running", "stopping"}

\* A run that has ended is closed and has a final status.
IsFinal(eng) == eng.life.closed /\ eng.run.status \notin Undecided
IsSound(eng) ==
    /\ eng = [cursor |-> eng.cursor, life |-> eng.life, run |-> eng.run, fleet |-> eng.fleet]
    /\ eng.life \in [closed : BOOLEAN, terminal : BOOLEAN]
    /\ "state" \in DOMAIN eng.run /\ "status" \in DOMAIN eng.run
    /\ eng.life.terminal => IsFinal(eng)

\* The events of episodes change the views of a run, not its status.
KeepsStatus(r, s) == "state" \in DOMAIN s /\ "status" \in DOMAIN s /\ s.state = r.state /\ s.status = r.status

LEMMA HelpersKeepStatus ==
    ASSUME NEW r, "state" \in DOMAIN r /\ "status" \in DOMAIN r, NEW ev, NEW a, NEW b, NEW c
    PROVE  /\ KeepsStatus(r, set_workflow_active(r, a, b))
           /\ KeepsStatus(r, bump_workflow_stage_count(r, a, b))
           /\ KeepsStatus(r, upsert_tree_episode(r, ev, a))
           /\ KeepsStatus(r, upsert_tree_step(r, ev))
           /\ KeepsStatus(r, close_tree_steps_for_episode(r, a, b))
           /\ KeepsStatus(r, SetView(r, a, b, c))
<1>1. KeepsStatus(r, set_workflow_active(r, a, b))
  BY DEF KeepsStatus, set_workflow_active
<1>2. KeepsStatus(r, bump_workflow_stage_count(r, a, b))
  BY DEF KeepsStatus, bump_workflow_stage_count
<1>3. \A s : KeepsStatus(r, upsert_tree_episode(r, ev, s))
  BY DEF KeepsStatus, upsert_tree_episode
<1>4. KeepsStatus(r, upsert_tree_step(r, ev))
  <2>1. KeepsStatus(r, upsert_tree_episode(r, ev, "ACTIVE"))
    BY <1>3
  <2> QED BY <2>1 DEF KeepsStatus, upsert_tree_step
<1>5. KeepsStatus(r, close_tree_steps_for_episode(r, a, b))
  BY DEF KeepsStatus, close_tree_steps_for_episode
<1>6. KeepsStatus(r, SetView(r, a, b, c))
  BY DEF KeepsStatus, SetView
<1> QED BY <1>1, <1>2, <1>3, <1>4, <1>5, <1>6

LEMMA EpisodeEventsKeepStatus ==
    ASSUME NEW r, "state" \in DOMAIN r /\ "status" \in DOMAIN r, NEW ev
    PROVE  /\ KeepsStatus(r, EpisodeSubmitted(r, ev))
           /\ KeepsStatus(r, EpisodeScheduling(r, ev))
           /\ KeepsStatus(r, EpisodeDispatched(r, ev))
           /\ KeepsStatus(r, EpisodeStep(r, ev))
           /\ KeepsStatus(r, EpisodeReporting(r, ev))
           /\ KeepsStatus(r, EpisodeEnded(r, ev))
<1> DEFINE Keeps(s) == KeepsStatus(r, s)
<1>1. ASSUME NEW s, Keeps(s), NEW a, NEW b, NEW c
      PROVE  /\ Keeps(set_workflow_active(s, a, b)) /\ Keeps(bump_workflow_stage_count(s, a, b))
             /\ Keeps(upsert_tree_episode(s, ev, a)) /\ Keeps(upsert_tree_step(s, ev))
             /\ Keeps(close_tree_steps_for_episode(s, a, b)) /\ Keeps(SetView(s, a, b, c))
  <2>1. "state" \in DOMAIN s /\ "status" \in DOMAIN s /\ s.state = r.state /\ s.status = r.status
    BY <1>1 DEF KeepsStatus
  <2> QED BY <2>1, HelpersKeepStatus DEF KeepsStatus
<1>2. Keeps(r)
  BY DEF KeepsStatus
<1>3. ASSUME NEW s, Keeps(s), NEW v PROVE Keeps([s EXCEPT !.view = v]) /\ Keeps([s EXCEPT !.busy = v])
  BY <1>3 DEF KeepsStatus
<1>4. Keeps(EpisodeSubmitted(r, ev))
  <2> DEFINE viewed == [r EXCEPT !.view[ev.ep] = [status |-> "ACTIVE", stage |-> "SUBMIT", worker |-> ev.w]]
  <2>1. Keeps(viewed)
    BY DEF KeepsStatus
  <2> HIDE DEF viewed, Keeps
  <2> QED BY <1>1, <2>1 DEF EpisodeSubmitted, viewed
<1>5. Keeps(EpisodeScheduling(r, ev))
  <2> HIDE DEF Keeps
  <2> QED BY <1>1, <1>2 DEF EpisodeScheduling
<1>6. Keeps(EpisodeDispatched(r, ev))
  <2> DEFINE seen == SetView(r, ev.ep, "ACTIVE", "EXECUTE")
             viewed == [seen EXCEPT
                      !.view[ev.ep].worker = IF r.view[ev.ep].status = "none" THEN @ ELSE ev.w,
                      !.busy[ev.w] = @ \cup {ev.ep}]
  <2>1. Keeps(seen)
    BY <1>1, <1>2
  <2>2. Keeps(viewed)
    BY <2>1 DEF KeepsStatus
  <2> HIDE DEF viewed, seen, Keeps
  <2> QED BY <1>1, <2>2 DEF EpisodeDispatched, viewed, seen
<1>7. Keeps(EpisodeStep(r, ev))
  <2> HIDE DEF Keeps
  <2> QED BY <1>1, <1>2 DEF EpisodeStep
<1>8. Keeps(EpisodeReporting(r, ev))
  <2> HIDE DEF Keeps
  <2> QED BY <1>1, <1>2 DEF EpisodeReporting
<1>9. Keeps(EpisodeEnded(r, ev))
  <2> DEFINE s == IF ev.type = "EPISODE_FAILED" \/ (ev.type = "EPISODE_CLOSED" /\ r.view[ev.ep].status = "FAILED")
                  THEN "FAILED" ELSE "DONE"
             viewed == SetView(r, ev.ep, s, s)
             freed == IF viewed.view[ev.ep].worker = nobody THEN viewed
                      ELSE [viewed EXCEPT !.busy[viewed.view[ev.ep].worker] = @ \ {ev.ep}]
  <2>1. Keeps(viewed)
    <3> HIDE DEF s, Keeps
    <3> QED BY <1>1, <1>2
  <2>2. Keeps(freed)
    <3> HIDE DEF viewed
    <3> QED BY <2>1 DEF KeepsStatus
  <2> DEFINE flowing(f, e) == set_workflow_active(set_workflow_active(set_workflow_active(f, "execute", "DONE"),
                                 "report", "DONE"), "done", e)
             closed(f, e) == close_tree_steps_for_episode(upsert_tree_episode(bump_workflow_stage_count(
                                bump_workflow_stage_count(f, "report", ev.ep), "done", ev.ep), ev, e), ev.ep, e)
  <2>3. EpisodeEnded(r, ev) = closed(flowing(freed, s), s)
    BY DEF EpisodeEnded
  <2> HIDE DEF freed, viewed, s, Keeps
  <2>4. Keeps(closed(flowing(freed, s), s))
    BY <1>1, <2>2
  <2> QED BY <2>3, <2>4
<1> QED BY <1>4, <1>5, <1>6, <1>7, <1>8, <1>9

RunEvents == {"RUN_STARTED", "RUN_HEARTBEAT", "RUN_STOPPED", "RUN_COMPLETED", "RUN_TERMINATED", "RUN_FAILED", "RUN_CLOSED"}
Endings == {"RUN_COMPLETED", "RUN_TERMINATED", "RUN_FAILED"}

LEMMA RunsSet ==
    ASSUME NEW r, "state" \in DOMAIN r /\ "status" \in DOMAIN r, NEW a, NEW s, NEW b, NEW c
    PROVE  /\ "state" \in DOMAIN Runs(a, s, b, r, c) /\ "status" \in DOMAIN Runs(a, s, b, r, c)
           /\ Runs(a, s, b, r, c).state = a /\ Runs(a, s, b, r, c).status = s
BY DEF Runs

\* What an event makes of the state and the status of a run.
StateAfter(state, ev) ==
    CASE ev.type = "RUN_STARTED" -> "RUNNING"
      [] ev.type = "RUN_HEARTBEAT" -> IF state = "CLOSED" THEN state ELSE "RUNNING"
      [] ev.type = "RUN_STOPPED" -> "STOPPING"
      [] ev.type \in Endings \cup {"RUN_CLOSED"} -> "CLOSED"
      [] OTHER -> state
EndStatus(type) ==
    CASE type = "RUN_COMPLETED" -> "completed" [] type = "RUN_TERMINATED" -> "terminated" [] OTHER -> "failed"
StatusAfter(state, status, ev) ==
    CASE ev.type = "RUN_STARTED" -> "running"
      [] ev.type = "RUN_HEARTBEAT" -> IF state = "CLOSED" THEN status ELSE "running"
      [] ev.type = "RUN_STOPPED" -> "stopping"
      [] ev.type \in Endings -> EndStatus(ev.type)
      [] ev.type = "RUN_CLOSED" -> IF status \in Undecided THEN IF ev.status = "" THEN "completed" ELSE ev.status ELSE status
      [] OTHER -> status

LEMMA ProjectedStatus ==
    ASSUME NEW r, "state" \in DOMAIN r /\ "status" \in DOMAIN r, NEW ev
    PROVE  LET p == project_event(r, ev) IN
           /\ "state" \in DOMAIN p /\ "status" \in DOMAIN p
           /\ p.state = StateAfter(r.state, ev) /\ p.status = StatusAfter(r.state, r.status, ev)
<1> DEFINE p == project_event(r, ev)
           Is(q, a, s) == "state" \in DOMAIN q /\ "status" \in DOMAIN q /\ q.state = a /\ q.status = s
<1>1. CASE ev.type = "RUN_STARTED"
  <2>1. p = RunStarted(r)
    BY <1>1 DEF project_event
  <2> DEFINE q == Runs("RUNNING", "running", "alive", r, "ACTIVE")
  <2>2. Is(q, "RUNNING", "running")
    BY RunsSet
  <2>3. Is(RunStarted(r), "RUNNING", "running")
    <3> HIDE DEF q
    <3> QED BY <2>2, HelpersKeepStatus DEF RunStarted, q, KeepsStatus
  <2> QED BY <1>1, <2>1, <2>3 DEF StateAfter, StatusAfter, Endings
<1>2. CASE ev.type = "RUN_HEARTBEAT"
  <2>1. p = RunHeartbeat(r)
    BY <1>2 DEF project_event
  <2>2. CASE r.state = "CLOSED"
    <3>1. RunHeartbeat(r) = r
      BY <2>2 DEF RunHeartbeat
    <3> QED BY <1>2, <2>1, <2>2, <3>1 DEF StateAfter, StatusAfter, Endings
  <2>3. CASE r.state # "CLOSED"
    <3>1. Is(RunHeartbeat(r), "RUNNING", "running")
      BY <2>3, RunsSet DEF RunHeartbeat
    <3> QED BY <1>2, <2>1, <2>3, <3>1 DEF StateAfter, StatusAfter, Endings
  <2> QED BY <2>2, <2>3
<1>3. CASE ev.type = "RUN_STOPPED"
  <2>1. p = RunStopped(r)
    BY <1>3 DEF project_event
  <2>2. Is(RunStopped(r), "STOPPING", "stopping")
    BY RunsSet DEF RunStopped
  <2> QED BY <1>3, <2>1, <2>2 DEF StateAfter, StatusAfter, Endings
<1>4. CASE ev.type \in Endings
  <2>1. p = RunEnded(r, ev.type)
    BY <1>4 DEF project_event, Endings
  <2> DEFINE q == Runs("CLOSED", EndStatus(ev.type), "closed", r, IF ev.type = "RUN_FAILED" THEN "FAILED" ELSE "CLOSED")
  <2>2. Is(q, "CLOSED", EndStatus(ev.type))
    BY RunsSet
  <2>3. Is(RunEnded(r, ev.type), "CLOSED", EndStatus(ev.type))
    <3> USE DEF q
    <3>1. RunEnded(r, ev.type) = set_workflow_active(q, "done", IF ev.type = "RUN_COMPLETED" THEN "DONE" ELSE "FAILED")
      BY DEF RunEnded, EndStatus
    <3> HIDE DEF q
    <3> QED BY <2>2, <3>1, HelpersKeepStatus DEF KeepsStatus
  <2>4. StateAfter(r.state, ev) = "CLOSED" /\ StatusAfter(r.state, r.status, ev) = EndStatus(ev.type)
    BY <1>4 DEF StateAfter, StatusAfter, Endings
  <2> QED BY <2>1, <2>3, <2>4
<1>5. CASE ev.type = "RUN_CLOSED"
  <2>1. p = RunClosed(r, ev)
    BY <1>5 DEF project_event
  <2> DEFINE s == IF r.status \in {"pending", "running", "stopping"}
                       THEN IF ev.status = "" THEN "completed" ELSE ev.status
                       ELSE r.status
             q == Runs("CLOSED", s, "closed", r, "CLOSED")
  <2>2. StateAfter(r.state, ev) = "CLOSED" /\ StatusAfter(r.state, r.status, ev) = s
    BY <1>5 DEF StateAfter, StatusAfter, Endings, Undecided
  <2>3. RunClosed(r, ev) = set_workflow_active(q, "done", "DONE")
    BY DEF RunClosed
  <2>4. Is(q, "CLOSED", s)
    <3> HIDE DEF s
    <3> QED BY RunsSet
  <2> HIDE DEF s, q
  <2>5. Is(RunClosed(r, ev), "CLOSED", s)
    BY <2>3, <2>4, HelpersKeepStatus DEF KeepsStatus
  <2> QED BY <2>1, <2>2, <2>5
<1>6. CASE ev.type \notin RunEvents
  <2>1. KeepsStatus(r, p)
    <3>1. \/ p = EpisodeSubmitted(r, ev) \/ p = EpisodeScheduling(r, ev) \/ p = EpisodeDispatched(r, ev)
          \/ p = EpisodeStep(r, ev) \/ p = EpisodeReporting(r, ev) \/ p = EpisodeEnded(r, ev) \/ p = r
      BY <1>6 DEF project_event, RunEvents
    <3>2. KeepsStatus(r, r)
      BY DEF KeepsStatus
    <3> QED BY <3>1, <3>2, EpisodeEventsKeepStatus
  <2>2. StateAfter(r.state, ev) = r.state /\ StatusAfter(r.state, r.status, ev) = r.status
    BY <1>6 DEF StateAfter, StatusAfter, Endings, RunEvents
  <2> QED BY <2>1, <2>2 DEF KeepsStatus
<1> QED BY <1>1, <1>2, <1>3, <1>4, <1>5, <1>6 DEF RunEvents, Endings

\* An end leaves a final status, and a close does not touch one.
LEMMA StatusesAfter ==
    ASSUME NEW state, NEW status, NEW ev
    PROVE  /\ ev.type \in Endings => StatusAfter(state, status, ev) \notin Undecided
           /\ ev.type = "RUN_CLOSED" /\ status \notin Undecided => StatusAfter(state, status, ev) = status
           /\ ev.type \notin RunEvents => StatusAfter(state, status, ev) = status /\ StateAfter(state, ev) = state
<1>1. ev.type \in Endings => StatusAfter(state, status, ev) \notin Undecided
  BY DEF StatusAfter, EndStatus, Endings, Undecided
<1>2. ev.type = "RUN_CLOSED" /\ status \notin Undecided => StatusAfter(state, status, ev) = status
  BY DEF StatusAfter, Endings, Undecided
<1>3. ev.type \notin RunEvents => StatusAfter(state, status, ev) = status /\ StateAfter(state, ev) = state
  BY DEF StatusAfter, StateAfter, Endings, RunEvents
<1> QED BY <1>1, <1>2, <1>3

\* What an event changes of the engine.
LEMMA Applied ==
    ASSUME NEW eng, IsSound(eng), NEW ev
    PROVE  LET next == apply(eng, ev)
               accepted == Disposition(eng, ev) = "accepted" IN
           /\ ~accepted => next = eng
           /\ accepted =>
                /\ next = [cursor |-> next.cursor, life |-> next.life, run |-> next.run, fleet |-> next.fleet]
                /\ next.cursor = [s \in DOMAIN eng.cursor \cup {ev.source} |-> IF s = ev.source THEN ev.seq ELSE eng.cursor[s]]
           /\ accepted /\ ev.type \in Orphan => next.life = eng.life /\ next.run = eng.run
           /\ accepted /\ ev.type \notin Orphan => next.life = life(eng.life, ev) /\ next.run = project_event(eng.run, ev)
<1> DEFINE cur == WithCursor(eng, ev)
           next == apply(eng, ev)
           accepted == Disposition(eng, ev) = "accepted"
<1>1. PICK c : c = [s \in DOMAIN eng.cursor \cup {ev.source} |-> IF s = ev.source THEN ev.seq ELSE eng.cursor[s]]
  OBVIOUS
<1>2. cur = [cursor |-> c, life |-> eng.life, run |-> eng.run, fleet |-> eng.fleet]
  BY <1>1 DEF IsSound, WithCursor
<1> HIDE DEF cur
<1>3. CASE ~accepted
  <2>1. next = eng
    BY <1>3 DEF apply
  <2> QED BY <1>3, <2>1
<1>4. CASE accepted /\ ev.type \in Orphan
  <2>1. next = [cur EXCEPT !.fleet = project_worker(@, ev)]
    BY <1>4 DEF apply, cur
  <2>2. next = [cursor |-> c, life |-> eng.life, run |-> eng.run, fleet |-> project_worker(eng.fleet, ev)]
    BY <1>2, <2>1
  <2> HIDE DEF next
  <2>3. /\ next = [cursor |-> next.cursor, life |-> next.life, run |-> next.run, fleet |-> next.fleet]
        /\ next.cursor = c /\ next.life = eng.life /\ next.run = eng.run
    BY <2>2
  <2> QED BY <1>1, <1>4, <2>3 DEF next
<1>5. CASE accepted /\ ev.type \notin Orphan
  <2>1. next = [cur EXCEPT !.run = project_event(@, ev), !.life = life(@, ev)]
    BY <1>5 DEF apply, cur
  <2>2. cur.life = eng.life /\ cur.run = eng.run
    BY <1>2
  <2>3. PICK l, q, n : l = life(eng.life, ev) /\ q = project_event(eng.run, ev) /\ n = next
    OBVIOUS
  <2>4. n = [cur EXCEPT !.run = q, !.life = l]
    BY <2>1, <2>2, <2>3
  <2> HIDE DEF next
  <2>5. n = [cursor |-> c, life |-> l, run |-> q, fleet |-> eng.fleet]
    BY <1>2, <2>4
  <2>6. n = [cursor |-> n.cursor, life |-> n.life, run |-> n.run, fleet |-> n.fleet] /\ n.cursor = c /\ n.life = l /\ n.run = q
    BY <2>5
  <2> QED BY <1>1, <1>5, <2>3, <2>6 DEF next
<1> QED BY <1>3, <1>4, <1>5

\* An accepted event leaves the engine sound, and an end final.
LEMMA ApplyIsSound ==
    ASSUME NEW eng, IsSound(eng), NEW ev
    PROVE  /\ IsSound(apply(eng, ev))
           /\ eng.life.terminal => apply(eng, ev).life.terminal /\ apply(eng, ev).run.status = eng.run.status
<1>0. PICK next : next = apply(eng, ev)
  OBVIOUS
<1>1. CASE Disposition(eng, ev) # "accepted"
  BY <1>1, Applied
<1>2. CASE Disposition(eng, ev) = "accepted" /\ ev.type \in Orphan
  <2>1. /\ next = [cursor |-> next.cursor, life |-> next.life, run |-> next.run, fleet |-> next.fleet]
        /\ next.life = eng.life /\ next.run = eng.run
    BY <1>0, <1>2, Applied
  <2> QED BY <1>0, <2>1 DEF IsSound, IsFinal
<1>3. CASE Disposition(eng, ev) = "accepted" /\ ev.type \notin Orphan
  <2>1. next = [cursor |-> next.cursor, life |-> next.life, run |-> next.run, fleet |-> next.fleet]
    BY <1>0, <1>3, Applied
  <2>2. next.life = life(eng.life, ev) /\ next.run = project_event(eng.run, ev)
    <3>1. apply(eng, ev).life = life(eng.life, ev) /\ apply(eng, ev).run = project_event(eng.run, ev)
      BY <1>3, Applied, Zenon
    <3> QED BY <1>0, <3>1
  <2>3. ~RejectedClosed(eng.life, ev)
    BY <1>3 DEF Disposition
  <2> DEFINE l == life(eng.life, ev)
             r == project_event(eng.run, ev)
  <2>4. /\ l \in [closed : BOOLEAN, terminal : BOOLEAN]
        /\ eng.life.terminal => l.terminal /\ l.closed /\ ev.type = "RUN_CLOSED"
        /\ ~eng.life.terminal /\ l.terminal => l.closed /\ ev.type \in Endings
    <3> DEFINE Lives == [closed : BOOLEAN, terminal : BOOLEAN]
    <3>1. eng.life \in Lives /\ (eng.life.terminal => eng.life.closed)
      BY DEF IsSound, IsFinal
    <3>2. eng.life.terminal => ev.type = "RUN_CLOSED"
      BY <2>3, <3>1 DEF RejectedClosed
    <3>3. CASE ev.type = "RUN_STARTED"
      <4>1. l = [closed |-> FALSE, terminal |-> FALSE]
        BY <3>3 DEF life
      <4> HIDE DEF l
      <4>2. l \in Lives /\ ~l.terminal
        BY <4>1
      <4> QED BY <3>2, <3>3, <4>2
    <3>4. CASE ev.type \in Endings
      <4>1. l = [closed |-> TRUE, terminal |-> TRUE]
        BY <3>4 DEF life, Endings
      <4> HIDE DEF l
      <4>2. l \in Lives /\ l.closed
        BY <4>1
      <4>3. ev.type # "RUN_CLOSED"
        BY <3>4 DEF Endings
      <4> QED BY <3>2, <3>4, <4>2, <4>3
    <3>5. CASE ev.type = "RUN_CLOSED"
      <4>1. l = [eng.life EXCEPT !.closed = TRUE]
        BY <3>5 DEF life
      <4> HIDE DEF l
      <4>2. l \in Lives /\ l.closed /\ l.terminal = eng.life.terminal
        BY <3>1, <4>1
      <4> QED BY <3>5, <4>2
    <3>6. CASE ev.type \notin Endings \cup {"RUN_CLOSED", "RUN_STARTED"}
      <4>1. l = eng.life
        BY <3>6 DEF life, Endings
      <4> HIDE DEF l
      <4> QED BY <3>1, <3>2, <3>6, <4>1
    <3> QED BY <3>3, <3>4, <3>5, <3>6
  <2>5. /\ "state" \in DOMAIN r /\ "status" \in DOMAIN r
        /\ ev.type \in Endings => r.status \notin Undecided
        /\ ev.type = "RUN_CLOSED" /\ eng.run.status \notin Undecided => r.status = eng.run.status
    BY ProjectedStatus, StatusesAfter DEF IsSound
  <2> HIDE DEF l, r
  <2>6. next.life = l /\ next.run = r /\ next = [cursor |-> next.cursor, life |-> l, run |-> r, fleet |-> next.fleet]
    BY <2>1, <2>2 DEF l, r
  <2>7. eng.life.terminal => r.status = eng.run.status /\ r.status \notin Undecided
    BY <2>4, <2>5 DEF IsSound, IsFinal
  <2>8. l.terminal => l.closed /\ r.status \notin Undecided
    BY <2>4, <2>5, <2>7
  <2>9. IsSound(next)
    BY <2>4, <2>5, <2>6, <2>8 DEF IsSound, IsFinal
  <2>10. eng.life.terminal => next.life.terminal /\ next.run.status = eng.run.status
    BY <2>4, <2>6, <2>7
  <2> QED BY <1>0, <2>9, <2>10
<1> QED BY <1>1, <1>2, <1>3

\* What two engines of one outcome have in common.
LEMMA OutcomeSame ==
    ASSUME NEW a, NEW b
    PROVE  Outcome(a) = Outcome(b) <=>
             /\ a.life = b.life /\ a.run.state = b.run.state /\ a.run.status = b.run.status
             /\ Trainer \in DOMAIN a.cursor <=> Trainer \in DOMAIN b.cursor
             /\ Trainer \in DOMAIN a.cursor => a.cursor[Trainer] = b.cursor[Trainer]
<1> DEFINE C(e) == {e.cursor[s] : s \in DOMAIN e.cursor \cap {Trainer}}
<1>1. ASSUME NEW e PROVE IF Trainer \in DOMAIN e.cursor THEN C(e) = {e.cursor[Trainer]} ELSE C(e) = {}
  OBVIOUS
<1>2. ASSUME NEW e PROVE Outcome(e) = [life |-> e.life, state |-> e.run.state, status |-> e.run.status, cursor |-> C(e)]
  BY DEF Outcome
<1> HIDE DEF C
<1>3. Outcome(a) = Outcome(b) <=> a.life = b.life /\ a.run.state = b.run.state /\ a.run.status = b.run.status /\ C(a) = C(b)
  <2>1. PICK x, y : x = C(a) /\ y = C(b)
    OBVIOUS
  <2>2. /\ Outcome(a) = [life |-> a.life, state |-> a.run.state, status |-> a.run.status, cursor |-> x]
        /\ Outcome(b) = [life |-> b.life, state |-> b.run.state, status |-> b.run.status, cursor |-> y]
    BY <1>2, <2>1
  <2> QED BY <2>1, <2>2
<1>4. C(a) = C(b) <=> /\ Trainer \in DOMAIN a.cursor <=> Trainer \in DOMAIN b.cursor
                      /\ Trainer \in DOMAIN a.cursor => a.cursor[Trainer] = b.cursor[Trainer]
  <2>1. /\ IF Trainer \in DOMAIN a.cursor THEN C(a) = {a.cursor[Trainer]} ELSE C(a) = {}
        /\ IF Trainer \in DOMAIN b.cursor THEN C(b) = {b.cursor[Trainer]} ELSE C(b) = {}
    BY <1>1
  <2> QED BY <2>1
<1> QED BY <1>3, <1>4

\* The events of the server and of its workers leave the outcome alone.
LEMMA ServerKeepsOutcome ==
    ASSUME NEW eng, IsSound(eng), NEW ev, ev.source # Trainer, ev.type \notin RunEvents
    PROVE  Outcome(apply(eng, ev)) = Outcome(eng)
<1>1. PICK next : next = apply(eng, ev)
  OBVIOUS
<1>2. CASE Disposition(eng, ev) # "accepted"
  BY <1>1, <1>2, Applied
<1>3. CASE Disposition(eng, ev) = "accepted"
  <2>1. next.cursor = [s \in DOMAIN eng.cursor \cup {ev.source} |-> IF s = ev.source THEN ev.seq ELSE eng.cursor[s]]
    BY <1>1, <1>3, Applied
  <2>2. /\ Trainer \in DOMAIN next.cursor <=> Trainer \in DOMAIN eng.cursor
        /\ Trainer \in DOMAIN next.cursor => next.cursor[Trainer] = eng.cursor[Trainer]
    BY <2>1
  <2>3. life(eng.life, ev) = eng.life
    BY DEF life, RunEvents
  <2>4. project_event(eng.run, ev).state = eng.run.state /\ project_event(eng.run, ev).status = eng.run.status
    BY ProjectedStatus, StatusesAfter DEF IsSound
  <2>5. \/ next.life = eng.life /\ next.run = eng.run
        \/ next.life = life(eng.life, ev) /\ next.run = project_event(eng.run, ev)
    BY <1>1, <1>3, Applied
  <2>6. next.life = eng.life /\ next.run.state = eng.run.state /\ next.run.status = eng.run.status
    BY <2>3, <2>4, <2>5
  <2> QED BY <1>1, <2>2, <2>6, OutcomeSame
<1> QED BY <1>2, <1>3

\* Engines of one outcome have one outcome after an event of the trainer.
LEMMA TrainerAlike ==
    ASSUME NEW a, NEW b, IsSound(a), IsSound(b), Outcome(a) = Outcome(b), NEW ev, ev.source = Trainer
    PROVE  Outcome(apply(a, ev)) = Outcome(apply(b, ev))
<1>1. PICK x, y : x = apply(a, ev) /\ y = apply(b, ev)
  OBVIOUS
<1>2. /\ a.life = b.life /\ a.run.state = b.run.state /\ a.run.status = b.run.status
      /\ Trainer \in DOMAIN a.cursor <=> Trainer \in DOMAIN b.cursor
      /\ Trainer \in DOMAIN a.cursor => a.cursor[Trainer] = b.cursor[Trainer]
  BY OutcomeSame
<1>3. Disposition(a, ev) = Disposition(b, ev)
  BY <1>2 DEF Disposition
<1>4. CASE Disposition(a, ev) # "accepted"
  <2>1. x = a /\ y = b
    BY <1>1, <1>3, <1>4, Applied
  <2> QED BY <1>1, <2>1
<1>5. CASE Disposition(a, ev) = "accepted"
  <2>0. /\ x.cursor = [s \in DOMAIN a.cursor \cup {ev.source} |-> IF s = ev.source THEN ev.seq ELSE a.cursor[s]]
        /\ ev.type \in Orphan => x.life = a.life /\ x.run = a.run
        /\ ev.type \notin Orphan => x.life = life(a.life, ev) /\ x.run = project_event(a.run, ev)
    BY <1>1, <1>5, Applied
  <2>1. /\ y.cursor = [s \in DOMAIN b.cursor \cup {ev.source} |-> IF s = ev.source THEN ev.seq ELSE b.cursor[s]]
        /\ ev.type \in Orphan => y.life = b.life /\ y.run = b.run
        /\ ev.type \notin Orphan => y.life = life(b.life, ev) /\ y.run = project_event(b.run, ev)
    <3>1. Disposition(b, ev) = "accepted"
      BY <1>3, <1>5
    <3> QED BY <1>1, <3>1, Applied
  <2>2. Trainer \in DOMAIN x.cursor /\ Trainer \in DOMAIN y.cursor /\ x.cursor[Trainer] = y.cursor[Trainer]
    BY <2>0, <2>1
  <2>3. x.life = y.life /\ x.run.state = y.run.state /\ x.run.status = y.run.status
    <3>1. CASE ev.type \in Orphan
      <4>1. x.life = a.life /\ x.run = a.run /\ y.life = b.life /\ y.run = b.run
        BY <2>0, <2>1, <3>1
      <4> QED BY <1>2, <4>1
    <3>2. CASE ev.type \notin Orphan
      <4>1. /\ x.life = life(a.life, ev) /\ x.run = project_event(a.run, ev)
            /\ y.life = life(b.life, ev) /\ y.run = project_event(b.run, ev)
        BY <2>0, <2>1, <3>2
      <4>2. /\ x.run.state = StateAfter(a.run.state, ev) /\ x.run.status = StatusAfter(a.run.state, a.run.status, ev)
            /\ y.run.state = StateAfter(b.run.state, ev) /\ y.run.status = StatusAfter(b.run.state, b.run.status, ev)
        BY <4>1, ProjectedStatus DEF IsSound
      <4> QED BY <1>2, <4>1, <4>2
    <3> QED BY <3>1, <3>2
  <2> QED BY <1>1, <2>2, <2>3, OutcomeSame
<1> QED BY <1>4, <1>5

\* So the merge of any rows is sound.
LEMMA MergedIsSound == ASSUME NEW rows, NEW n \in Nat PROVE IsSound(Merged(rows, n))
<1> DEFINE T == {k \in Nat : IsSound(Merged(rows, k))}
<1>1. 0 \in T
  <2>1. IsSound(EngineEmpty)
    BY DEF EngineEmpty, ChainEmpty, IsSound
  <2> QED BY <2>1, MergedAt
<1>2. ASSUME NEW k \in T PROVE k + 1 \in T
  <2>1. k \in Nat /\ k + 1 \in Nat /\ IsSound(Merged(rows, k))
    OBVIOUS
  <2>2. Merged(rows, k + 1) = StepAt(rows, k + 1, Merged(rows, k))
    BY <2>1, MergedAt
  <2>3. IsSound(StepAt(rows, k + 1, Merged(rows, k)))
    BY <2>1, ApplyIsSound DEF StepAt
  <2> QED BY <2>1, <2>2, <2>3
<1> HIDE DEF T
<1>3. T = Nat
  <2>1. T \in SUBSET Nat
    BY DEF T
  <2> QED BY <2>1, <1>1, <1>2, SetInduction
<1> QED BY <1>3 DEF T

LEMMA ReplayIsSound == ASSUME NEW rows, rows \in Seq(Range(rows)) PROVE IsSound(Replay(rows))
<1>1. PICK S : S = Range(rows)
  OBVIOUS
<1>2. Len(rows) \in Nat
  BY <1>1
<1> QED BY <1>2, ReplayIs, MergedIsSound

LEMMA ListIn == ASSUME NEW A, NEW s \in Seq(A) PROVE s \in Seq(Range(s)) /\ Len(s) \in Nat /\ DOMAIN s = 1 .. Len(s)
<1>1. PICK n \in Nat : n = Len(s) /\ s = [i \in 1 .. n |-> s[i]] /\ DOMAIN s = 1 .. n
  OBVIOUS
<1> QED BY <1>1, ListOf

\* The rows of T alone, in their order.
LEMMA KeptRows ==
    ASSUME NEW s, s \in Seq(Range(s)), NEW T
    PROVE  LET t == Keep(s, T) IN
           /\ t \in Seq(Range(t)) /\ Range(t) = Range(s) \cap T
           /\ SortedOn(s, T) => SortedOn(t, T)
<1>1. PICK A, t : A = Range(s) /\ t = Keep(s, T)
  OBVIOUS
<1>2. s \in Seq(A) /\ DOMAIN s = 1 .. Len(s)
  <2>1. s \in Seq(A)
    BY <1>1
  <2> QED BY <2>1, ListIn
<1>3. t \in Seq(A) /\ \E h : Picked(t, s, T, Len(s), h)
  BY <1>1, <1>2, KeepProperties
<1>4. t \in Seq(Range(t)) /\ Len(t) \in Nat /\ DOMAIN t = 1 .. Len(t)
  BY <1>3, ListIn
<1>5. PICK h : /\ h \in [1 .. Len(t) -> 1 .. Len(s)]
               /\ \A i \in 1 .. Len(t) : t[i] = s[h[i]] /\ s[h[i]] \in T
               /\ \A i, j \in 1 .. Len(t) : i < j => h[i] < h[j]
               /\ \A k \in 1 .. Len(s) : s[k] \in T => \E i \in 1 .. Len(t) : h[i] = k
  BY <1>3 DEF Picked
<1>6. Range(t) = Range(s) \cap T
  <2>1. ASSUME NEW x \in Range(t) PROVE x \in Range(s) \cap T
    <3>1. PICK i \in 1 .. Len(t) : x = t[i]
      BY <1>4 DEF Range
    <3>2. h[i] \in 1 .. Len(s) /\ x = s[h[i]] /\ x \in T
      BY <1>5, <3>1
    <3> QED BY <1>2, <3>2 DEF Range
  <2>2. ASSUME NEW x \in Range(s) \cap T PROVE x \in Range(t)
    <3>1. PICK k \in 1 .. Len(s) : x = s[k]
      BY <1>2 DEF Range
    <3>2. PICK i \in 1 .. Len(t) : h[i] = k
      BY <1>5, <3>1
    <3>3. t[i] = x
      BY <1>5, <3>1, <3>2
    <3> QED BY <1>4, <3>3 DEF Range
  <2> QED BY <2>1, <2>2
<1>7. ASSUME SortedOn(s, T) PROVE SortedOn(t, T)
  <2>1. ASSUME NEW i \in 1 .. Len(t), NEW j \in 1 .. Len(t), i < j PROVE Precedes(t[i], t[j])
    <3>1. h[i] < h[j] /\ h[i] \in 1 .. Len(s) /\ h[j] \in 1 .. Len(s) /\ s[h[i]] \in T /\ s[h[j]] \in T
      BY <1>5, <2>1
    <3>2. Precedes(s[h[i]], s[h[j]])
      BY <1>2, <1>7, <3>1 DEF SortedOn
    <3> QED BY <1>5, <3>2
  <2> QED BY <1>4, <2>1 DEF SortedOn
<1> QED BY <1>1, <1>4, <1>6, <1>7

\* The outcome of a run is what its trainer's rows alone make it.
LEMMA OutcomeOfTrainer ==
    ASSUME NEW s, s \in Seq(Range(s)), NEW T,
           \A row \in Range(s) : row \in T <=> row.ev.source = Trainer,
           \A row \in Range(s) : row.ev.source = Trainer \/ row.ev.type \notin RunEvents
    PROVE  Outcome(Replay(Keep(s, T))) = Outcome(Replay(s))
<1>1. PICK A : A = Range(s)
  OBVIOUS
<1>2. s \in Seq(A)
  BY <1>1
<1>3. PICK f : KeptPrefixes(f, A, s, T)
  BY <1>2, KeepPrefixes
<1>4. Len(s) \in Nat /\ DOMAIN s = 1 .. Len(s)
  BY <1>2, ListIn
<1> DEFINE U == {n \in Nat : n <= Len(s) => Outcome(Replay(f[n])) = Outcome(Merged(s, n))}
<1>5. 0 \in U
  <2>1. f[0] = <<>>
    BY <1>3 DEF KeptPrefixes
  <2> QED BY <2>1, ReplayNone, MergedAt
<1>6. ASSUME NEW n \in U PROVE n + 1 \in U
  <2> SUFFICES ASSUME n + 1 <= Len(s) PROVE Outcome(Replay(f[n + 1])) = Outcome(Merged(s, n + 1))
    OBVIOUS
  <2>1. n \in Nat /\ n \in 0 .. Len(s) /\ n + 1 \in 1 .. Len(s) /\ (n + 1) - 1 = n /\ Outcome(Replay(f[n])) = Outcome(Merged(s, n))
    BY <1>4
  <2>2. PICK row, t, u : row = s[n + 1] /\ t = f[n] /\ u = f[n + 1]
    OBVIOUS
  <2>3. u = IF row \in T THEN Append(t, row) ELSE t
    BY <1>3, <2>1, <2>2 DEF KeptPrefixes
  <2>4. t \in Seq(A)
    BY <1>3, <2>1, <2>2 DEF KeptPrefixes
  <2>5. t \in Seq(Range(t)) /\ IsSound(Replay(t)) /\ IsSound(Merged(s, n))
    BY <2>1, <2>4, ListIn, ReplayIsSound, MergedIsSound
  <2>6. Merged(s, n + 1) = apply(Merged(s, n), row.ev)
    BY <2>1, <2>2, MergedAt DEF StepAt
  <2>7. row \in Range(s)
    BY <1>4, <2>1, <2>2 DEF Range
  <2>8. Outcome(Replay(t)) = Outcome(Merged(s, n))
    BY <2>1, <2>2
  <2>9. Outcome(Replay(u)) = Outcome(Merged(s, n + 1))
    <3>1. CASE row \in T
      <4>1. Replay(u) = apply(Replay(t), row.ev)
        BY <2>3, <2>5, <3>1, ReplayAppend
      <4>2. row.ev.source = Trainer
        BY <2>7, <3>1
      <4> QED BY <2>5, <2>6, <2>8, <4>1, <4>2, TrainerAlike
    <3>2. CASE row \notin T
      <4>1. row.ev.source # Trainer /\ row.ev.type \notin RunEvents
        BY <2>7, <3>2
      <4>2. Outcome(Merged(s, n + 1)) = Outcome(Merged(s, n))
        BY <2>5, <2>6, <4>1, ServerKeepsOutcome
      <4> QED BY <2>3, <2>8, <3>2, <4>2
    <3> QED BY <3>1, <3>2
  <2> QED BY <2>2, <2>9
<1>7. Len(s) \in U
  <2>1. U \in SUBSET Nat
    OBVIOUS
  <2> HIDE DEF U
  <2> QED BY <1>4, <1>5, <1>6, <2>1, SetInduction
<1>8. Outcome(Replay(f[Len(s)])) = Outcome(Merged(s, Len(s)))
  BY <1>4, <1>7
<1>9. Keep(s, T) = f[Len(s)]
  BY <1>3 DEF KeptPrefixes
<1> QED BY <1>8, <1>9, ReplayIs

-----------------------------------------------------------------------------
(* Memory and store.                                                       *)

Handlers == Posters \cup {Consumer}

\* The state and the status of the run are the trainer's to change.
IsEvent(ev) ==
    {"seq", "source", "type"} \subseteq DOMAIN ev /\ ev.seq \in Nat /\ (ev.source = Trainer \/ ev.type \notin RunEvents)
IsReport(ev) == {"id", "seq", "source", "type"} \subseteq DOMAIN ev /\ ev.seq \in Nat /\ ev.type \notin RunEvents
IsReading(row) == row.ts \in Nat /\ IsEvent(row.ev)
ListOfEvents(s) == s \in Seq(Range(s)) /\ \A ev \in Range(s) : IsEvent(ev)

\* What is on its way to the handlers.
Intake ==
    /\ ListOfEvents(bus) /\ Len(bus) <= QueueSize
    /\ ListOfEvents(posted)
    /\ {"seq", "restarts"} \subseteq DOMAIN count /\ count.seq \in Nat /\ count.restarts \in Nat

Pipeline ==
    /\ IsSound(engine)
    /\ store \in Seq(Range(store)) /\ \A row \in Range(store) : IsReading(row)
    /\ handler = [h \in Handlers |-> handler[h]]
    /\ \A h \in Handlers :
          /\ handler[h] = [at |-> handler[h].at, ev |-> handler[h].ev, ts |-> handler[h].ts]
          /\ handler[h].at \in {"idle", "apply", "append"} /\ IsReading(handler[h])
    /\ {"merged", "failed"} \subseteq DOMAIN history /\ history.failed \in BOOLEAN
    /\ history.merged \in Seq(Range(history.merged))

\* The rows that are merged and about to be written.
Underway == {RowOf(h) : h \in {g \in Handlers : handler[g].at = "append"}}

\* No row is stored before one that is read first.
Ordered == \A i, j \in DOMAIN store : i < j => ~Precedes(store[j], store[i])

\* Those of T differ from the stored ones and from each other.
Apart(T) ==
    \A h \in Handlers : handler[h].at = "append" /\ RowOf(h) \in T =>
        /\ RowOf(h) \notin Range(store)
        /\ \A g \in Handlers : handler[g].at = "append" /\ RowOf(g) = RowOf(h) => g = h

\* While no write failed, the engine is the replay of what was merged, in the
\* order of the merges; it is stored or about to be; and rows that were merged
\* in the order in which they are read are stored in it.
Matches ==
    ~history.failed =>
        /\ engine = Replay(history.merged)
        /\ Range(history.merged) = Range(store) \cup Underway
        /\ \A T : SortedOn(history.merged, T) => SortedOn(store, T) /\ Apart(T)

ObsInv == Intake /\ Pipeline /\ Ordered /\ Matches

LEMMA NothingHandled ==
    /\ NoHandling = [at |-> "idle", ev |-> NoHandling.ev, ts |-> 0] /\ NoHandling.at = "idle" /\ IsReading(NoHandling)
<1>1. PICK ev : ev = Event("", nobody, nobody)
  OBVIOUS
<1>2. IsEvent(ev)
  BY <1>1 DEF Event, IsEvent, Trainer
<1>3. NoHandling = [at |-> "idle", ev |-> ev, ts |-> 0]
  BY <1>1 DEF NoHandling
<1> QED BY <1>2, <1>3 DEF IsReading

LEMMA ServerEvents == ASSUME NEW t, t \notin RunEvents, NEW e, NEW w PROVE IsReport(Event(t, e, w))
BY DEF Event, IsReport

LEMMA ReportSent == ASSUME NEW ev, IsReport(ev), NEW i, NEW s PROVE IsEvent([ev EXCEPT !.id = i, !.source = s])
BY DEF IsReport, IsEvent

LEMMA EventNumbered == ASSUME NEW ev, IsEvent(ev), NEW n \in Nat PROVE IsEvent([ev EXCEPT !.seq = n])
BY DEF IsEvent

LEMMA TrainerEvents == ASSUME NEW t, NEW i, NEW n \in Nat PROVE IsEvent([TrainerEvent(t) EXCEPT !.id = i, !.seq = n])
<1>1. PICK ev : ev = TrainerEvent(t)
  OBVIOUS
<1>2. {"id", "seq", "source", "type"} \subseteq DOMAIN ev /\ ev.source = Trainer
  BY <1>1 DEF TrainerEvent, Event
<1> QED BY <1>1, <1>2 DEF IsEvent

LEMMA ListConcat ==
    ASSUME NEW s, s \in Seq(Range(s)), NEW t, t \in Seq(Range(t))
    PROVE  /\ s \o t \in Seq(Range(s \o t)) /\ Range(s \o t) = Range(s) \cup Range(t)
           /\ Len(s) \in Nat /\ Len(t) \in Nat /\ Len(s \o t) = Len(s) + Len(t)
<1>1. PICK S, m, n, u : S = Range(s) \cup Range(t) /\ m = Len(s) /\ n = Len(t) /\ u = s \o t
  OBVIOUS
<1>2. PICK A, B : A = Range(s) /\ B = Range(t)
  OBVIOUS
<1>3. s \in Seq(A) /\ t \in Seq(B)
  BY <1>2
<1>4. /\ m \in Nat /\ DOMAIN s = 1 .. m /\ s = [i \in 1 .. m |-> s[i]] /\ \A i \in 1 .. m : s[i] \in A
      /\ n \in Nat /\ DOMAIN t = 1 .. n /\ t = [i \in 1 .. n |-> t[i]] /\ \A i \in 1 .. n : t[i] \in B
  BY <1>1, <1>3
<1>5. A \subseteq S /\ B \subseteq S
  BY <1>1, <1>2
<1>6. s \in Seq(S) /\ t \in Seq(S)
  <2>1. \A i \in 1 .. m : s[i] \in S
    BY <1>4, <1>5
  <2>2. \A i \in 1 .. n : t[i] \in S
    BY <1>4, <1>5
  <2>3. m \in Nat /\ s = [i \in 1 .. m |-> s[i]] /\ n \in Nat /\ t = [i \in 1 .. n |-> t[i]]
    BY <1>4
  <2>4. s \in Seq(S)
    BY <2>1, <2>3
  <2>5. t \in Seq(S)
    BY <2>2, <2>3
  <2> QED BY <2>4, <2>5
<1>7. u \in Seq(S) /\ Len(u) = m + n
  BY <1>1, <1>6
<1>8. \A i \in 1 .. m : u[i] = s[i]
  BY <1>1, <1>4, <1>6
<1>9. ASSUME NEW i \in 1 .. n PROVE m + i \in 1 .. m + n /\ u[m + i] = t[i]
  <2>1. m + i \in 1 .. m + n /\ m + i > m /\ (m + i) - m = i
    BY <1>4
  <2> QED BY <1>1, <1>4, <1>6, <2>1
<1>10. u \in Seq(Range(u)) /\ DOMAIN u = 1 .. m + n
  BY <1>7, ListIn
<1>11. Range(u) = S
  <2>1. Range(u) \subseteq S
    BY <1>7, <1>10 DEF Range
  <2>2. A \subseteq Range(u)
    <3>1. ASSUME NEW i \in 1 .. m PROVE s[i] \in Range(u)
      <4>1. i \in 1 .. m + n
        BY <1>4
      <4> QED BY <1>8, <1>10, <4>1 DEF Range
    <3> QED BY <1>2, <1>4, <3>1 DEF Range
  <2>3. B \subseteq Range(u)
    <3>1. ASSUME NEW i \in 1 .. n PROVE t[i] \in Range(u)
      BY <1>9, <1>10 DEF Range
    <3> QED BY <1>2, <1>4, <3>1 DEF Range
  <2> QED BY <1>1, <1>2, <2>1, <2>2, <2>3
<1> QED BY <1>1, <1>4, <1>7, <1>10, <1>11

\* A step that leaves the pipeline behind the queue alone.
LEMMA PipelineUntouched ==
    ASSUME ObsInv, UNCHANGED <<engine, store, handler>>, {"merged", "failed"} \subseteq DOMAIN history',
           history'.merged = history.merged, history'.failed = history.failed
    PROVE  Pipeline' /\ Ordered' /\ Matches'
<1>1. Pipeline'
  BY DEF ObsInv, Pipeline
<1>2. Ordered'
  BY DEF ObsInv, Ordered
<1>3. Underway' = Underway /\ \A h : RowOf(h)' = RowOf(h)
  BY DEF Underway, RowOf
<1>4. \A T : Apart(T)' <=> Apart(T)
  BY <1>3 DEF Apart
<1>5. Matches'
  BY <1>3, <1>4 DEF ObsInv, Matches
<1> QED BY <1>1, <1>2, <1>5

\* A handler that goes on to x.
LEMMA HandlerMoves ==
    ASSUME Pipeline, NEW h \in Handlers, NEW x, handler' = [handler EXCEPT ![h] = x]
    PROVE  /\ handler' = [g \in Handlers |-> handler'[g]]
           /\ handler'[h] = x /\ \A g \in Handlers : g # h => handler'[g] = handler[g] /\ RowOf(g)' = RowOf(g)
           /\ DOMAIN handler = Handlers /\ DOMAIN handler' = Handlers
<1>1. /\ handler' = [g \in Handlers |-> handler'[g]]
      /\ handler'[h] = x /\ \A g \in Handlers : g # h => handler'[g] = handler[g]
      /\ DOMAIN handler = Handlers /\ DOMAIN handler' = Handlers
  BY DEF Pipeline
<1> QED BY <1>1 DEF RowOf

\* A handler takes an event, or finds it stored.
LEMMA BeginKeeps ==
    ASSUME ObsInv, NEW h \in Handlers, handler[h].at = "idle", NEW ev, IsEvent(ev), Begin(h, ev),
           UNCHANGED <<engine, store, history>>
    PROVE  Pipeline' /\ Ordered' /\ Matches'
<1>1. PICK x : /\ handler' = [handler EXCEPT ![h] = x]
               /\ x = [at |-> x.at, ev |-> x.ev, ts |-> x.ts] /\ IsReading(x) /\ x.at \in {"idle", "apply"}
  <2>1. CASE Stored(ev)
    <3>1. handler' = [handler EXCEPT ![h] = NoHandling]
      BY <2>1 DEF Begin
    <3>2. PICK x : x = NoHandling
      OBVIOUS
    <3>3. x = [at |-> x.at, ev |-> x.ev, ts |-> x.ts] /\ IsReading(x) /\ x.at = "idle"
      BY <3>2, NothingHandled
    <3> QED BY <3>1, <3>2, <3>3
  <2>2. CASE ~Stored(ev)
    <3>1. PICK now \in 1 .. MaxClock : handler' = [handler EXCEPT ![h] = [at |-> "apply", ev |-> ev, ts |-> now]]
      BY <2>2 DEF Begin
    <3>2. PICK x : x = [at |-> "apply", ev |-> ev, ts |-> now]
      OBVIOUS
    <3>3. now \in Nat
      OBVIOUS
    <3>4. x.at = "apply" /\ IsReading(x) /\ x = [at |-> x.at, ev |-> x.ev, ts |-> x.ts]
      BY <3>2, <3>3 DEF IsReading
    <3>5. handler' = [handler EXCEPT ![h] = x]
      BY <3>1, <3>2
    <3> QED BY <3>4, <3>5
  <2> QED BY <2>1, <2>2
<1>2. /\ handler' = [g \in Handlers |-> handler'[g]]
      /\ handler'[h] = x /\ \A g \in Handlers : g # h => handler'[g] = handler[g] /\ RowOf(g)' = RowOf(g)
  BY <1>1, HandlerMoves DEF ObsInv
<1>3. Pipeline'
  <2>1. ASSUME NEW g \in Handlers
        PROVE  /\ handler'[g] = [at |-> handler'[g].at, ev |-> handler'[g].ev, ts |-> handler'[g].ts]
               /\ handler'[g].at \in {"idle", "apply", "append"} /\ IsReading(handler'[g])
    <3>1. CASE g = h
      BY <1>1, <1>2, <3>1
    <3>2. CASE g # h
      BY <1>2, <3>2 DEF ObsInv, Pipeline
    <3> QED BY <3>1, <3>2
  <2> QED BY <1>2, <2>1 DEF ObsInv, Pipeline
<1>4. Ordered'
  BY DEF ObsInv, Ordered
<1>5. \A g \in Handlers : /\ handler'[g].at = "append" <=> handler[g].at = "append"
                          /\ handler[g].at = "append" => RowOf(g)' = RowOf(g)
  BY <1>1, <1>2
<1>6. Underway' = Underway
  BY <1>5 DEF Underway
<1>7. ASSUME NEW T, Apart(T) PROVE Apart(T)'
  BY <1>5, <1>7 DEF Apart
<1>8. Matches'
  BY <1>6, <1>7 DEF ObsInv, Matches
<1> QED BY <1>3, <1>4, <1>8

\* process_one: the merge.
LEMMA MergeKeeps ==
    ASSUME ObsInv, NEW h \in Handlers, Merge(h)
    PROVE  Pipeline' /\ Ordered' /\ Matches'
<1> DEFINE ev == handler[h].ev
           accepted == Disposition(engine, ev) = "accepted"
<1>1. DOMAIN handler = Handlers /\ handler[h].at = "apply" /\ UNCHANGED store
  BY DEF Merge, ObsInv, Pipeline
<1>2. engine' = apply(engine, ev)
  BY DEF Merge
<1>3. PICK x : /\ handler' = [handler EXCEPT ![h] = x]
               /\ accepted => x = [handler[h] EXCEPT !.at = "append"]
               /\ ~accepted => x = NoHandling
  BY DEF Merge
<1>4. PICK row : row = RowOf(h) /\ IsReading(row) /\ row.ev = ev
  <2>1. PICK row : row = RowOf(h)
    OBVIOUS
  <2>2. row.ev = handler[h].ev /\ row.ts = handler[h].ts
    BY <2>1 DEF RowOf
  <2>3. IsReading(handler[h])
    BY DEF ObsInv, Pipeline
  <2> QED BY <2>1, <2>2, <2>3 DEF IsReading
<1>5. /\ {"merged", "failed"} \subseteq DOMAIN history' /\ history'.failed = history.failed
      /\ history'.merged = IF accepted /\ ~history.failed THEN Append(history.merged, row) ELSE history.merged
  <2>1. history' = IF accepted /\ ~history.failed THEN [history EXCEPT !.merged = Append(@, row)] ELSE history
    BY <1>4 DEF Merge
  <2> QED BY <2>1 DEF ObsInv, Pipeline
<1>6. /\ handler' = [g \in Handlers |-> handler'[g]]
      /\ handler'[h] = x /\ \A g \in Handlers : g # h => handler'[g] = handler[g] /\ RowOf(g)' = RowOf(g)
  BY <1>3, HandlerMoves DEF ObsInv
<1>7. /\ x = [at |-> x.at, ev |-> x.ev, ts |-> x.ts] /\ IsReading(x)
      /\ x.at = IF accepted THEN "append" ELSE "idle"
      /\ accepted => x.ev = ev /\ x.ts = handler[h].ts
  <2>1. PICK y, e, n : y = handler[h] /\ e = y.ev /\ n = y.ts
    OBVIOUS
  <2>2. y = [at |-> y.at, ev |-> e, ts |-> n] /\ IsReading(y)
    BY <2>1 DEF ObsInv, Pipeline
  <2>3. CASE accepted
    <3>1. x = [at |-> "append", ev |-> e, ts |-> n]
      BY <1>3, <2>1, <2>2, <2>3
    <3>2. x.at = "append" /\ x.ev = e /\ x.ts = n /\ x = [at |-> x.at, ev |-> x.ev, ts |-> x.ts]
      BY <3>1
    <3>3. IsReading(x)
      BY <2>1, <2>2, <3>2 DEF IsReading
    <3> QED BY <2>1, <2>3, <3>2, <3>3
  <2>4. CASE ~accepted
    <3>1. x = NoHandling
      BY <1>3, <2>4
    <3>2. x.at = "idle" /\ IsReading(x) /\ x = [at |-> x.at, ev |-> x.ev, ts |-> x.ts]
      BY <3>1, NothingHandled
    <3> QED BY <2>4, <3>2
  <2> QED BY <2>3, <2>4
<1> HIDE DEF accepted
<1>8. Pipeline'
  <2>1. ASSUME NEW g \in Handlers
        PROVE  /\ handler'[g] = [at |-> handler'[g].at, ev |-> handler'[g].ev, ts |-> handler'[g].ts]
               /\ handler'[g].at \in {"idle", "apply", "append"} /\ IsReading(handler'[g])
    <3>1. CASE g = h
      BY <1>6, <1>7, <3>1
    <3>2. CASE g # h
      BY <1>6, <3>2 DEF ObsInv, Pipeline
    <3> QED BY <3>1, <3>2
  <2>2. IsSound(engine')
    BY <1>2, ApplyIsSound DEF ObsInv, Pipeline
  <2>3. history'.failed \in BOOLEAN /\ history'.merged \in Seq(Range(history'.merged))
    <3>1. history.merged \in Seq(Range(history.merged)) /\ history.failed \in BOOLEAN
      BY DEF ObsInv, Pipeline
    <3>2. PICK s : s = history.merged
      OBVIOUS
    <3>3. s \in Seq(Range(s)) /\ Append(s, row) \in Seq(Range(Append(s, row)))
      BY <3>1, <3>2, ListAppend
    <3> QED BY <1>5, <3>1, <3>2, <3>3
  <2>4. store' \in Seq(Range(store')) /\ \A r \in Range(store') : IsReading(r)
    BY <1>1 DEF ObsInv, Pipeline
  <2> QED BY <1>5, <1>6, <2>1, <2>2, <2>3, <2>4 DEF Pipeline
<1>9. Ordered'
  BY <1>1 DEF ObsInv, Ordered
<1>10. \A g \in Handlers : g # h => (handler'[g].at = "append" <=> handler[g].at = "append") /\ RowOf(g)' = RowOf(g)
  BY <1>6
<1>11. /\ accepted => handler'[h].at = "append" /\ RowOf(h)' = row
       /\ ~accepted => handler'[h].at # "append"
  BY <1>4, <1>6, <1>7 DEF RowOf
<1>12. Underway' = IF accepted THEN Underway \cup {row} ELSE Underway
  BY <1>1, <1>10, <1>11 DEF Underway
<1>13. Matches'
  <2> SUFFICES ASSUME ~history'.failed
               PROVE  /\ engine' = Replay(history'.merged)
                      /\ Range(history'.merged) = Range(store) \cup Underway'
                      /\ \A T : SortedOn(history'.merged, T) => SortedOn(store, T) /\ Apart(T)'
    BY <1>1 DEF Matches
  <2>1. PICK s : s = history.merged
    OBVIOUS
  <2>2. /\ engine = Replay(s) /\ Range(s) = Range(store) \cup Underway /\ s \in Seq(Range(s))
        /\ \A T : SortedOn(s, T) => SortedOn(store, T) /\ Apart(T)
    BY <1>5, <2>1 DEF ObsInv, Matches, Pipeline
  <2>3. CASE accepted
    <3>1. PICK t : t = Append(s, row) /\ t = history'.merged
      BY <1>5, <2>1, <2>3
    <3>2. /\ Len(s) \in Nat /\ DOMAIN s = 1 .. Len(s) /\ DOMAIN t = 1 .. Len(s) + 1
          /\ t[Len(s) + 1] = row /\ \A i \in 1 .. Len(s) : t[i] = s[i]
          /\ Range(t) = Range(s) \cup {row}
      <4>1. s \in Seq(Range(s)) /\ t = Append(s, row)
        BY <2>2, <3>1
      <4> QED BY <4>1, ListAppend
    <3>3. engine' = Replay(t)
      BY <1>2, <1>4, <2>2, <3>1, ReplayAppend
    <3>4. Range(t) = Range(store) \cup Underway'
      BY <1>12, <2>2, <2>3, <3>2
    <3>5. ASSUME NEW T, SortedOn(t, T) PROVE SortedOn(store, T) /\ Apart(T)'
      <4>1. SortedOn(s, T)
        BY <3>2, <3>5 DEF SortedOn
      <4>2. SortedOn(store, T) /\ Apart(T)
        BY <2>2, <4>1
      <4>3. ASSUME row \in T PROVE row \notin Range(s)
        <5> SUFFICES ASSUME NEW i \in 1 .. Len(s), s[i] = row PROVE FALSE
          BY <3>2 DEF Range
        <5>1. i \in 1 .. Len(s) + 1 /\ Len(s) + 1 \in 1 .. Len(s) + 1 /\ i < Len(s) + 1
          BY <3>2
        <5>2. Precedes(t[i], t[Len(s) + 1])
          BY <3>2, <3>5, <4>3, <5>1 DEF SortedOn
        <5>3. Precedes(row, row)
          BY <3>2, <5>2
        <5>4. IsRow(row)
          BY <1>4 DEF IsReading, IsRow, IsEvent
        <5> QED BY <5>3, <5>4, PrecedesOrders
      <4>4. \A g \in Handlers : g # h /\ handler[g].at = "append" => RowOf(g) \in Underway
        BY DEF Underway
      <4>5. Apart(T)'
        <5> SUFFICES ASSUME NEW g \in Handlers, handler'[g].at = "append", RowOf(g)' \in T
                     PROVE  /\ RowOf(g)' \notin Range(store)
                            /\ \A k \in Handlers : handler'[k].at = "append" /\ RowOf(k)' = RowOf(g)' => k = g
          BY <1>1 DEF Apart
        <5>1. CASE g = h
          <6>1. row \notin Range(store) /\ row \notin Underway
            BY <1>11, <2>2, <2>3, <4>3, <5>1
          <6>2. \A k \in Handlers : k # h /\ handler'[k].at = "append" => RowOf(k)' # row
            BY <1>10, <4>4, <6>1
          <6> QED BY <1>11, <2>3, <5>1, <6>1, <6>2
        <5>2. CASE g # h
          <6>1. handler[g].at = "append" /\ RowOf(g)' = RowOf(g) /\ RowOf(g) \in T /\ RowOf(g) \in Underway
            BY <1>10, <4>4, <5>2
          <6>2. RowOf(g) \notin Range(store) /\ \A k \in Handlers : handler[k].at = "append" /\ RowOf(k) = RowOf(g) => k = g
            BY <4>2, <6>1 DEF Apart
          <6>3. RowOf(h)' # RowOf(g)
            BY <1>11, <2>2, <2>3, <4>3, <6>1
          <6>4. ASSUME NEW k \in Handlers, handler'[k].at = "append", RowOf(k)' = RowOf(g)' PROVE k = g
            BY <1>10, <6>1, <6>2, <6>3, <6>4
          <6> QED BY <6>1, <6>2, <6>4
        <5> QED BY <5>1, <5>2
      <4> QED BY <4>2, <4>5
    <3> QED BY <3>1, <3>3, <3>4, <3>5
  <2>4. CASE ~accepted
    <3>1. engine' = engine
      BY <1>2, <2>4 DEF apply, accepted
    <3>2. Underway' = Underway /\ history'.merged = s
      BY <1>5, <1>12, <2>1, <2>4
    <3>3. ASSUME NEW T, Apart(T) PROVE Apart(T)'
      BY <1>1, <1>10, <1>11, <2>4, <3>3 DEF Apart
    <3> QED BY <2>2, <3>1, <3>2, <3>3
  <2> QED BY <2>3, <2>4
<1> QED BY <1>8, <1>9, <1>13

\* process_one: the row.
LEMMA AppendKeeps ==
    ASSUME ObsInv, NEW h \in Handlers, AppendRow(h)
    PROVE  Pipeline' /\ Ordered' /\ Matches'
<1>1. DOMAIN handler = Handlers /\ handler[h].at = "append" /\ UNCHANGED engine
  BY DEF AppendRow, ObsInv, Pipeline
<1>2. /\ handler' = [g \in Handlers |-> handler'[g]]
      /\ handler'[h] = NoHandling /\ \A g \in Handlers : g # h => handler'[g] = handler[g] /\ RowOf(g)' = RowOf(g)
  <2>1. handler' = [handler EXCEPT ![h] = NoHandling]
    BY DEF AppendRow
  <2> QED BY <2>1, HandlerMoves DEF ObsInv
<1>3. \A g \in Handlers : /\ handler'[g] = [at |-> handler'[g].at, ev |-> handler'[g].ev, ts |-> handler'[g].ts]
                          /\ handler'[g].at \in {"idle", "apply", "append"} /\ IsReading(handler'[g])
  <2> TAKE g \in Handlers
  <2>1. CASE g = h
    BY <1>2, <2>1, NothingHandled
  <2>2. CASE g # h
    BY <1>2, <2>2 DEF ObsInv, Pipeline
  <2> QED BY <2>1, <2>2
<1>4. PICK row : row = RowOf(h) /\ IsReading(row)
  <2>1. PICK row : row = RowOf(h)
    OBVIOUS
  <2>2. row.ev = handler[h].ev /\ row.ts = handler[h].ts
    BY <2>1 DEF RowOf
  <2>3. IsReading(handler[h])
    BY DEF ObsInv, Pipeline
  <2> QED BY <2>1, <2>2, <2>3 DEF IsReading
<1>5. CASE store' = store /\ history' = [history EXCEPT !.failed = TRUE, !.merged = <<>>]
  <2>1. /\ {"merged", "failed"} \subseteq DOMAIN history' /\ history'.failed = TRUE /\ history'.merged = <<>>
    BY <1>5 DEF ObsInv, Pipeline
  <2>2. history'.merged \in Seq(Range(history'.merged))
    BY <2>1, ListEmpty
  <2>3. Pipeline'
    BY <1>1, <1>2, <1>3, <1>5, <2>1, <2>2 DEF ObsInv, Pipeline
  <2>4. Ordered' /\ Matches'
    BY <1>5, <2>1 DEF ObsInv, Ordered, Matches
  <2> QED BY <2>3, <2>4
<1>6. CASE store' \in append(store, row) /\ UNCHANGED history
  <2>1. PICK s, t : s = store /\ t = store'
    OBVIOUS
  <2>2. /\ s \in Seq(Range(s)) /\ \A r \in Range(s) : IsReading(r)
        /\ \A i, j \in DOMAIN s : i < j => ~Precedes(s[j], s[i])
    BY <2>1 DEF ObsInv, Pipeline, Ordered
  <2>3. PICK n \in Nat : n = Len(s) /\ DOMAIN s = 1 .. n
    BY <2>2, ListIn
  <2>4. PICK k \in 1 .. n + 1 : /\ t = InsertAt(s, k, row)
                                /\ \A j \in 1 .. k - 1 : ~Precedes(row, s[j])
                                /\ \A j \in k .. n : ~Precedes(s[j], row)
    BY <1>6, <2>1, <2>3 DEF append
  <2>5. /\ t \in Seq(Range(t)) /\ Range(t) = Range(s) \cup {row} /\ DOMAIN t = 1 .. n + 1 /\ t[k] = row
        /\ \A i \in 1 .. n + 1 : (i < k => t[i] = s[i]) /\ (i > k => t[i] = s[i - 1])
    BY <2>2, <2>3, <2>4, Inserted
  <2>6. Pipeline'
    <3>1. \A r \in Range(t) : IsReading(r)
      BY <1>4, <2>2, <2>5
    <3> QED BY <1>1, <1>2, <1>3, <1>6, <2>1, <2>5, <3>1 DEF ObsInv, Pipeline
  \* Where a pair of rows of the longer list comes from.
  <2>7. ASSUME NEW i \in 1 .. n + 1, NEW j \in 1 .. n + 1, i < j
        PROVE  \/ \E a, b \in 1 .. n : a < b /\ t[i] = s[a] /\ t[j] = s[b]
               \/ t[i] = row /\ \E b \in k .. n : t[j] = s[b]
               \/ t[j] = row /\ \E a \in 1 .. k - 1 : t[i] = s[a]
    <3>1. CASE i = k
      <4>1. j - 1 \in k .. n /\ t[j] = s[j - 1]
        BY <2>5, <2>7, <3>1
      <4> QED BY <2>5, <3>1, <4>1
    <3>2. CASE j = k
      <4>1. i \in 1 .. k - 1 /\ t[i] = s[i]
        BY <2>5, <2>7, <3>2
      <4> QED BY <2>5, <3>2, <4>1
    <3>3. CASE i # k /\ j # k
      <4> DEFINE a == IF i < k THEN i ELSE i - 1
                 b == IF j < k THEN j ELSE j - 1
      <4>1. a \in 1 .. n /\ b \in 1 .. n /\ a < b
        BY <2>7, <3>3
      <4>2. t[i] = s[a] /\ t[j] = s[b]
        BY <2>5, <3>3
      <4> HIDE DEF a, b
      <4> QED BY <4>1, <4>2
    <3> QED BY <3>1, <3>2, <3>3
  <2>8. Ordered'
    <3> SUFFICES ASSUME NEW i \in 1 .. n + 1, NEW j \in 1 .. n + 1, i < j PROVE ~Precedes(t[j], t[i])
      BY <2>1, <2>5 DEF Ordered
    <3>1. CASE \E a, b \in 1 .. n : a < b /\ t[i] = s[a] /\ t[j] = s[b]
      BY <2>2, <2>3, <3>1
    <3>2. CASE t[i] = row /\ \E b \in k .. n : t[j] = s[b]
      BY <2>4, <3>2
    <3>3. CASE t[j] = row /\ \E a \in 1 .. k - 1 : t[i] = s[a]
      BY <2>4, <3>3
    <3> QED BY <2>7, <3>1, <3>2, <3>3
  <2>9. Matches'
    <3> SUFFICES ASSUME ~history.failed
                 PROVE  /\ engine = Replay(history.merged)
                        /\ Range(history.merged) = Range(t) \cup Underway'
                        /\ \A T : SortedOn(history.merged, T) => SortedOn(t, T) /\ Apart(T)'
      BY <1>1, <1>6, <2>1 DEF Matches
    <3>1. PICK m : m = history.merged
      OBVIOUS
    <3>2. /\ engine = Replay(m) /\ Range(m) = Range(s) \cup Underway /\ m \in Seq(Range(m))
          /\ \A T : SortedOn(m, T) => SortedOn(s, T) /\ Apart(T)
      BY <2>1, <3>1 DEF ObsInv, Matches, Pipeline
    <3>3. \A g \in Handlers : handler'[g].at = "append" <=> g # h /\ handler[g].at = "append"
      BY <1>2, NothingHandled
    <3>4. \A g \in Handlers : g # h => RowOf(g)' = RowOf(g)
      BY <1>2
    <3>5. Underway = Underway' \cup {row}
      BY <1>1, <1>4, <3>3, <3>4 DEF Underway
    <3>6. Range(m) = Range(t) \cup Underway'
      BY <2>5, <3>2, <3>5
    <3>7. ASSUME NEW T, SortedOn(m, T) PROVE SortedOn(t, T) /\ Apart(T)'
      <4>1. SortedOn(s, T) /\ Apart(T)
        BY <3>2, <3>7
      <4>2. row \in T => row \notin Range(s)
        BY <1>1, <1>4, <2>1, <4>1 DEF Apart
      <4>3. ASSUME NEW r \in Range(s), r \in T, row \in T PROVE Precedes(r, row) \/ Precedes(row, r)
        <5>1. r \in Range(m) /\ row \in Range(m) /\ r # row
          BY <3>2, <3>5, <4>2, <4>3
        <5> QED BY <3>2, <3>7, <4>3, <5>1, OneComesFirst
      <4>4. SortedOn(t, T)
        <5> SUFFICES ASSUME NEW i \in 1 .. n + 1, NEW j \in 1 .. n + 1, i < j, t[i] \in T, t[j] \in T
                     PROVE  Precedes(t[i], t[j])
          BY <2>5 DEF SortedOn
        <5>1. CASE \E a, b \in 1 .. n : a < b /\ t[i] = s[a] /\ t[j] = s[b]
          BY <2>3, <4>1, <5>1 DEF SortedOn
        <5>2. CASE t[i] = row /\ \E b \in k .. n : t[j] = s[b]
          <6>1. PICK b \in k .. n : t[j] = s[b]
            BY <5>2
          <6>2. ~Precedes(s[b], row) /\ b \in 1 .. n
            BY <2>4
          <6>3. s[b] \in Range(s)
            BY <2>3, <6>2 DEF Range
          <6> QED BY <4>3, <5>2, <6>1, <6>2, <6>3
        <5>3. CASE t[j] = row /\ \E a \in 1 .. k - 1 : t[i] = s[a]
          <6>1. PICK a \in 1 .. k - 1 : t[i] = s[a]
            BY <5>3
          <6>2. ~Precedes(row, s[a]) /\ a \in 1 .. n
            BY <2>4
          <6>3. s[a] \in Range(s)
            BY <2>3, <6>2 DEF Range
          <6> QED BY <4>3, <5>3, <6>1, <6>2, <6>3
        <5> QED BY <2>7, <5>1, <5>2, <5>3
      <4>5. Apart(T)'
        <5> SUFFICES ASSUME NEW g \in Handlers, handler'[g].at = "append", RowOf(g)' \in T
                     PROVE  /\ RowOf(g)' \notin Range(t)
                            /\ \A f \in Handlers : handler'[f].at = "append" /\ RowOf(f)' = RowOf(g)' => f = g
          BY <2>1 DEF Apart
        <5>1. g # h /\ handler[g].at = "append" /\ RowOf(g)' = RowOf(g) /\ RowOf(g) \in T
          BY <3>3, <3>4
        <5>2. RowOf(g) \notin Range(s) /\ \A f \in Handlers : handler[f].at = "append" /\ RowOf(f) = RowOf(g) => f = g
          BY <2>1, <4>1, <5>1 DEF Apart
        <5>3. RowOf(g) # row
          BY <1>1, <1>4, <5>1, <5>2
        <5>4. ASSUME NEW f \in Handlers, handler'[f].at = "append", RowOf(f)' = RowOf(g)' PROVE f = g
          BY <3>3, <3>4, <5>1, <5>2, <5>4
        <5> QED BY <2>5, <5>1, <5>2, <5>3, <5>4
      <4> QED BY <4>4, <4>5
    <3> QED BY <3>1, <3>2, <3>6, <3>7
  <2> QED BY <2>6, <2>8, <2>9
<1> QED BY <1>4, <1>5, <1>6 DEF AppendRow

\* A crash, and the start after it.
LEMMA RestartKeeps == ASSUME ObsInv, Restart PROVE Pipeline' /\ Ordered' /\ Matches'
<1>1. /\ handler' = [h \in DOMAIN handler |-> NoHandling] /\ UNCHANGED store
      /\ engine' = Replay(store)
      /\ history' = [merged |-> store, failed |-> FALSE, dropped |-> FALSE]
  BY DEF Restart
<1>2. DOMAIN handler = Handlers /\ store \in Seq(Range(store)) /\ \A row \in Range(store) : IsReading(row)
  BY DEF ObsInv, Pipeline
<1>3. handler' = [h \in Handlers |-> handler'[h]] /\ \A h \in Handlers : handler'[h] = NoHandling
  BY <1>1, <1>2
<1>4. {"merged", "failed"} \subseteq DOMAIN history' /\ history'.failed = FALSE /\ history'.merged = store
  BY <1>1
<1>5. \A h \in Handlers : handler'[h].at = "idle"
  BY <1>3, NothingHandled
<1>6. Pipeline'
  <2>1. \A h \in Handlers : /\ handler'[h] = [at |-> handler'[h].at, ev |-> handler'[h].ev, ts |-> handler'[h].ts]
                            /\ handler'[h].at \in {"idle", "apply", "append"} /\ IsReading(handler'[h])
    BY <1>3, NothingHandled
  <2>2. IsSound(engine')
    BY <1>1, <1>2, ReplayIsSound
  <2>3. store' \in Seq(Range(store')) /\ \A row \in Range(store') : IsReading(row)
    BY <1>1, <1>2
  <2> QED BY <1>2, <1>3, <1>4, <2>1, <2>2, <2>3 DEF Pipeline
<1>7. Ordered'
  BY <1>1 DEF ObsInv, Ordered
<1>8. Underway' = {}
  BY <1>5 DEF Underway
<1>9. \A T : Apart(T)'
  BY <1>5 DEF Apart
<1>10. Matches'
  BY <1>1, <1>4, <1>8, <1>9 DEF Matches
<1> QED BY <1>6, <1>7, <1>10

\* The lists of events that the server makes.
LEMMA ReportsAre ==
    ASSUME NEW from, NEW e, NEW w, NEW r \in Reports(from, e, w)
    PROVE  r[2] \in Seq(Range(r[2])) /\ \A ev \in Range(r[2]) : IsReport(ev)
<1> DEFINE Types == {"EPISODE_SUBMITTED", "EPISODE_SCHEDULING", "EPISODE_DISPATCHED", "STEP_STARTED", "STEP_COMPLETE",
                     "EPISODE_REPORTING", "EPISODE_COMPLETED", "EPISODE_FAILED", "EPISODE_CLOSED", "ATTEMPT_CLOSED"}
           R == {Event(t, e, w) : t \in Types} \cup {Event(t, e, nobody) : t \in Types}
<1>1. \A t \in Types : t \notin RunEvents
  BY DEF RunEvents
<1> HIDE DEF Types
<1>2. \A t \in Types : Event(t, e, w) \in R /\ Event(t, e, nobody) \in R
  OBVIOUS
<1>3. \A ev \in R : IsReport(ev)
  BY <1>1, ServerEvents
<1> HIDE DEF R
<1> USE DEF Types
<1>4. /\ episode_submitted(e) \in Seq(R) /\ episode_scheduling(e) \in Seq(R) /\ episode_dispatched(e, w) \in Seq(R)
      /\ episode_reporting(e) \in Seq(R) /\ attempt_closed(e) \in Seq(R)
  BY <1>2 DEF episode_submitted, episode_scheduling, episode_dispatched, episode_reporting, attempt_closed
<1>5. episode_terminal(e, "EPISODE_COMPLETED") \in Seq(R) /\ episode_terminal(e, "EPISODE_FAILED") \in Seq(R)
  BY <1>2 DEF episode_terminal
<1>6. attempt_closed(e) \o episode_terminal(e, "EPISODE_FAILED") \in Seq(R)
  BY <1>4, <1>5
<1>7. \A s \in from_stream_report(e, w) : s \in Seq(R)
  <2> SUFFICES ASSUME NEW t \in {"STEP_STARTED", "STEP_COMPLETE"} PROVE <<Event(t, e, w)>> \in Seq(R)
    BY DEF from_stream_report
  <2>1. Event(t, e, w) \in R
    BY <1>2
  <2> QED BY <2>1
<1>8. PICK a, s : r = <<a, s>> /\ s \in Seq(R)
  <2>1. CASE from = "new"
    <3>1. r = <<"submitted", episode_submitted(e)>>
      BY <2>1 DEF Reports
    <3> QED BY <1>4, <3>1
  <2>2. CASE from = "submitted"
    <3>1. r = <<"scheduling", episode_scheduling(e)>>
      BY <2>2 DEF Reports
    <3> QED BY <1>4, <3>1
  <2>3. CASE from = "scheduling"
    <3>1. r = <<"dispatched", episode_dispatched(e, w)>>
      BY <2>3 DEF Reports
    <3> QED BY <1>4, <3>1
  <2>4. CASE from = "dispatched"
    <3>1. \/ \E s \in from_stream_report(e, w) : r = <<"dispatched", s>>
          \/ r = <<"scheduling", attempt_closed(e)>>
          \/ r = <<"ended", attempt_closed(e) \o episode_terminal(e, "EPISODE_FAILED")>>
          \/ r = <<"reporting", episode_reporting(e)>>
      BY <2>4 DEF Reports
    <3> QED BY <1>4, <1>6, <1>7, <3>1
  <2>5. CASE from = "reporting"
    <3>1. \/ r = <<"ended", episode_terminal(e, "EPISODE_COMPLETED")>>
          \/ r = <<"ended", episode_terminal(e, "EPISODE_FAILED")>>
      BY <2>5 DEF Reports
    <3> QED BY <1>5, <3>1
  <2>6. from \in {"new", "submitted", "scheduling", "dispatched", "reporting"}
    BY DEF Reports
  <2> QED BY <2>1, <2>2, <2>3, <2>4, <2>5, <2>6
<1>9. r[2] = s
  BY <1>8
<1>10. s \in Seq(Range(s)) /\ \A ev \in Range(s) : ev \in R
  <2>1. DOMAIN s = 1 .. Len(s)
    BY <1>8, ListIn
  <2> QED BY <1>8, <2>1, ListIn DEF Range
<1> QED BY <1>3, <1>9, <1>10

\* What the server reports only reaches the queue, what fits of it.
LEMMA EmitKeeps ==
    ASSUME ObsConstants, ObsInv, NEW evs, evs \in Seq(Range(evs)), \A ev \in Range(evs) : IsReport(ev), emit(evs),
           UNCHANGED <<engine, store, handler, posted>>
    PROVE  ObsInv'
<1>1. count.seq \in Nat /\ count.restarts \in Nat /\ {"seq", "restarts"} \subseteq DOMAIN count
  BY DEF ObsInv, Intake
<1>2. count'.seq = count.seq /\ count'.restarts = count.restarts /\ {"seq", "restarts"} \subseteq DOMAIN count'
  BY <1>1 DEF emit
<1>3. /\ {"merged", "failed"} \subseteq DOMAIN history' /\ history'.merged = history.merged /\ history'.failed = history.failed
  BY DEF emit, ObsInv, Pipeline
<1>4. bus \in Seq(Range(bus)) /\ Len(bus) \in Nat /\ Len(bus) <= QueueSize /\ QueueSize \in Nat
  <2>1. PICK b : b = bus /\ b \in Seq(Range(b)) /\ Len(b) <= QueueSize
    BY DEF ObsInv, Intake, ListOfEvents
  <2>2. Len(b) \in Nat
    BY <2>1, ListIn
  <2> QED BY <2>1, <2>2 DEF ObsConstants
<1> DEFINE room == QueueSize - Len(bus)
           taken == SubSeq(evs, 1, IF Len(evs) < room THEN Len(evs) ELSE room)
           sent == [i \in DOMAIN taken |-> [taken[i] EXCEPT !.id = count.ids + i, !.source = Server]]
<1>5. bus' = bus \o sent
  BY DEF emit
<1>6. PICK n \in Nat : /\ n <= QueueSize - Len(bus) /\ DOMAIN taken = 1 .. n
                       /\ \A i \in 1 .. n : taken[i] \in Range(evs)
  <2>1. PICK E : E = Range(evs)
    OBVIOUS
  <2>2. evs \in Seq(E) /\ Len(evs) \in Nat
    BY <2>1
  <2>3. PICK n \in Nat : n = (IF Len(evs) < room THEN Len(evs) ELSE room) /\ n <= room /\ n <= Len(evs)
    BY <1>4, <2>2
  <2>4. taken = SubSeq(evs, 1, n)
    BY <2>3
  <2> HIDE DEF taken, room
  <2>5. taken \in Seq(E) /\ Len(taken) = n
    BY <2>2, <2>3, <2>4
  <2>6. DOMAIN taken = 1 .. n /\ \A i \in 1 .. n : taken[i] \in E
    BY <2>5
  <2> QED BY <2>1, <2>3, <2>6 DEF room
<1> HIDE DEF taken
<1>7. sent \in Seq(Range(sent)) /\ Len(sent) = n /\ DOMAIN sent = 1 .. n /\ \A i \in 1 .. n : IsEvent(sent[i])
  <2>1. \A i \in 1 .. n : IsEvent(sent[i])
    BY <1>6, ReportSent
  <2>2. sent = [i \in 1 .. n |-> sent[i]]
    BY <1>6
  <2> HIDE DEF sent
  <2> QED BY <2>1, <2>2, ListOf
<1> HIDE DEF sent
<1>8. \A ev \in Range(sent) : IsEvent(ev)
  BY <1>7 DEF Range
<1>9. \A ev \in Range(bus) : IsEvent(ev)
  BY DEF ObsInv, Intake, ListOfEvents
<1>10. ListOfEvents(bus') /\ Len(bus') <= QueueSize
  <2>1. PICK b, s, c : b = bus /\ s = sent /\ c = b \o s
    OBVIOUS
  <2>2. c \in Seq(Range(c)) /\ Range(c) = Range(b) \cup Range(s) /\ Len(c) = Len(b) + n
    BY <1>4, <1>7, <2>1, ListConcat
  <2>3. Len(c) <= QueueSize
    BY <1>4, <1>6, <2>1, <2>2
  <2> QED BY <1>5, <1>8, <1>9, <2>1, <2>2, <2>3 DEF ListOfEvents
<1>11. Intake'
  BY <1>1, <1>2, <1>10 DEF ObsInv, Intake
<1> QED BY <1>3, <1>11, PipelineUntouched DEF ObsInv

\* An episode that has come some way has its events stored.
LEMMA InitObs == ASSUME ObsConstants, OInit PROVE ObsInv
<1>1. PICK p \in {"new", "dispatched", "reporting"}, e \in OEpisodes, w \in OWorkers :
         LET evs == Before(p, e, w) IN
         /\ store = [i \in DOMAIN evs |-> [ev |-> [evs[i] EXCEPT !.id = i, !.seq = i, !.source = <<"server", 0>>],
                                           ts |-> 1]]
         /\ progress = [f \in OEpisodes |-> IF f = e THEN p ELSE "new"]
         /\ count = [emits |-> 0, ids |-> Len(evs), restarts |-> 0, seq |-> Len(evs)]
  BY DEF OInit
<1>2. PICK evs : evs = Before(p, e, w)
  OBVIOUS
<1>3. PICK n \in Nat : n = Len(evs) /\ DOMAIN evs = 1 .. n /\ \A i \in 1 .. n : IsReport(evs[i])
  <2> DEFINE all == episode_submitted(e) \o episode_scheduling(e) \o episode_dispatched(e, w) \o episode_reporting(e)
             k == CASE p = "new" -> 0 [] p = "dispatched" -> 3 [] p = "reporting" -> 4
  <2>1. PICK S : {Event("EPISODE_SUBMITTED", e, nobody), Event("EPISODE_SCHEDULING", e, nobody),
                  Event("EPISODE_DISPATCHED", e, w), Event("EPISODE_REPORTING", e, nobody)} = S
    OBVIOUS
  <2>2. \A ev \in S : IsReport(ev)
    <3>1. \A t \in {"EPISODE_SUBMITTED", "EPISODE_SCHEDULING", "EPISODE_DISPATCHED", "EPISODE_REPORTING"} : t \notin RunEvents
      BY DEF RunEvents
    <3> QED BY <2>1, <3>1, ServerEvents
  <2>3. all \in Seq(S) /\ Len(all) = 4
    BY <2>1 DEF episode_submitted, episode_scheduling, episode_dispatched, episode_reporting
  <2>4. k \in 0 .. 4
    OBVIOUS
  <2>5. evs = SubSeq(all, 1, k)
    BY <1>2 DEF Before
  <2> HIDE DEF all, k
  <2>6. evs \in Seq(S)
    BY <2>3, <2>4, <2>5
  <2>7. Len(evs) \in Nat /\ DOMAIN evs = 1 .. Len(evs) /\ \A i \in 1 .. Len(evs) : evs[i] \in S
    BY <2>6
  <2> QED BY <2>2, <2>7
<1> DEFINE Stamped(i) == [evs[i] EXCEPT !.id = i, !.seq = i, !.source = <<"server", 0>>]
<1>4. /\ store = [i \in 1 .. n |-> [ev |-> Stamped(i), ts |-> 1]]
      /\ count.restarts = 0 /\ count.seq = n /\ {"seq", "restarts"} \subseteq DOMAIN count
  BY <1>1, <1>2, <1>3
<1>5. ASSUME NEW i \in 1 .. n PROVE IsEvent(Stamped(i)) /\ Stamped(i).seq = i
  <2>1. PICK ev : ev = evs[i] /\ IsReport(ev)
    BY <1>3
  <2>2. PICK x : x = [ev EXCEPT !.id = i, !.seq = i, !.source = <<"server", 0>>]
    OBVIOUS
  <2>3. {"seq", "source", "type"} \subseteq DOMAIN x /\ x.seq = i /\ x.type = ev.type /\ ev.type \notin RunEvents
    BY <2>1, <2>2 DEF IsReport
  <2> QED BY <2>1, <2>2, <2>3 DEF IsEvent
<1> HIDE DEF Stamped
<1>6. DOMAIN store = 1 .. n /\ \A i \in 1 .. n : store[i].ts = 1 /\ IsReading(store[i]) /\ store[i].ev.seq = i
  <2>1. \A i \in 1 .. n : store[i].ev = Stamped(i) /\ store[i].ts = 1
    BY <1>4
  <2> QED BY <1>4, <1>5, <2>1 DEF IsReading
<1>7. store \in Seq(Range(store)) /\ \A row \in Range(store) : IsReading(row)
  <2>1. store = [i \in 1 .. n |-> store[i]]
    BY <1>4
  <2> QED BY <1>6, <2>1, ListOf DEF Range
<1>8. /\ bus = <<>> /\ posted = <<>> /\ engine = Replay(store) /\ handler = [h \in Handlers |-> NoHandling]
      /\ history = [merged |-> store, failed |-> FALSE, dropped |-> FALSE]
  BY DEF OInit, Handlers
<1>9. Intake
  <2>1. ListOfEvents(<<>>) /\ Len(<<>>) = 0
    BY ListEmpty DEF ListOfEvents
  <2> QED BY <1>4, <1>8, <2>1 DEF Intake, ObsConstants
<1>10. {"merged", "failed"} \subseteq DOMAIN history /\ history.failed = FALSE /\ history.merged = store
  BY <1>8
<1>11. Pipeline
  <2>1. IsSound(engine)
    BY <1>7, <1>8, ReplayIsSound
  <2>2. \A h \in Handlers : /\ handler[h] = [at |-> handler[h].at, ev |-> handler[h].ev, ts |-> handler[h].ts]
                            /\ handler[h].at \in {"idle", "apply", "append"} /\ IsReading(handler[h])
    BY <1>8, NothingHandled
  <2>3. handler = [h \in Handlers |-> handler[h]]
    BY <1>8
  <2> QED BY <1>7, <1>10, <2>1, <2>2, <2>3 DEF Pipeline
<1>12. Ordered
  BY <1>6 DEF Ordered, Precedes
<1>13. \A h \in Handlers : handler[h].at = "idle"
  BY <1>8, NothingHandled
<1>14. Underway = {} /\ \A T : Apart(T)
  BY <1>13 DEF Underway, Apart
<1>15. Matches
  BY <1>8, <1>10, <1>14 DEF Matches
<1> QED BY <1>9, <1>11, <1>12, <1>15 DEF ObsInv

\* Every step of the pipeline keeps the invariant; only a merge and a restart
\* change the engine.
LEMMA ObsStep ==
    ASSUME ObsConstants, ObsInv, [ONext]_ovars
    PROVE  ObsInv' /\ (\/ engine' = engine
                       \/ \E ev : engine' = apply(engine, ev)
                       \/ count'.restarts # count.restarts)
<1>0. /\ ListOfEvents(bus) /\ Len(bus) <= QueueSize /\ ListOfEvents(posted)
      /\ {"seq", "restarts"} \subseteq DOMAIN count /\ count.seq \in Nat /\ count.restarts \in Nat
  BY DEF ObsInv, Intake
<1>1. CASE UNCHANGED ovars
  <2>1. UNCHANGED <<engine, store, handler, history>> /\ UNCHANGED <<bus, posted, count>>
    BY <1>1 DEF ovars
  <2>2. Pipeline' /\ Ordered' /\ Matches'
    BY <2>1, PipelineUntouched DEF ObsInv, Pipeline
  <2>3. Intake'
    BY <1>0, <2>1 DEF Intake
  <2> QED BY <2>1, <2>2, <2>3 DEF ObsInv
<1>2. CASE Consume
  <2>1. bus \in Seq(Range(bus)) /\ bus # <<>>
    BY <1>0, <1>2 DEF Consume, ListOfEvents
  <2>2. PICK b, first, rest : b = bus /\ first = Head(bus) /\ rest = Tail(bus)
    OBVIOUS
  <2>3. /\ rest \in Seq(Range(rest)) /\ Len(b) \in Nat /\ Len(rest) = Len(b) - 1
        /\ Range(b) = {first} \cup Range(rest)
    BY <2>1, <2>2, ListTail
  <2>4. \A ev \in Range(b) : IsEvent(ev)
    BY <1>0, <2>2 DEF ListOfEvents
  <2> DEFINE ev == [first EXCEPT !.seq = count.seq + 1]
  <2>5. IsEvent(ev)
    <3>1. count.seq + 1 \in Nat /\ IsEvent(first)
      BY <1>0, <2>3, <2>4
    <3> QED BY <3>1, EventNumbered
  <2>6. /\ handler[Consumer].at = "idle" /\ Begin(Consumer, ev) /\ UNCHANGED <<engine, store, history, posted>>
        /\ count' = [count EXCEPT !.seq = @ + 1] /\ bus' = rest
    BY <1>2, <2>2 DEF Consume
  <2>7. count'.seq \in Nat /\ count'.restarts = count.restarts /\ {"seq", "restarts"} \subseteq DOMAIN count'
    BY <1>0, <2>6
  <2>8. ListOfEvents(rest) /\ Len(rest) <= QueueSize
    <3>1. Len(b) <= QueueSize /\ QueueSize \in Nat
      BY <1>0, <2>2 DEF ObsConstants
    <3>2. Len(rest) <= QueueSize
      BY <2>3, <3>1
    <3> QED BY <2>3, <2>4, <3>2 DEF ListOfEvents
  <2>9. Intake'
    BY <1>0, <2>6, <2>7, <2>8 DEF Intake
  <2> HIDE DEF ev
  <2>10. Consumer \in Handlers
    BY DEF Handlers
  <2>11. Pipeline' /\ Ordered' /\ Matches'
    BY <2>5, <2>6, <2>10, BeginKeeps
  <2> QED BY <2>6, <2>9, <2>11 DEF ObsInv
<1>3. CASE Restart
  <2>1. count' = [count EXCEPT !.restarts = @ + 1, !.seq = 0] /\ bus' = <<>> /\ UNCHANGED posted
    BY <1>3 DEF Restart
  <2>2. /\ count'.restarts = count.restarts + 1 /\ count'.seq = 0 /\ {"seq", "restarts"} \subseteq DOMAIN count'
    BY <1>0, <2>1
  <2>3. count'.restarts # count.restarts /\ count'.restarts \in Nat
    BY <1>0, <2>2
  <2>4. ListOfEvents(<<>>) /\ Len(<<>>) = 0
    BY ListEmpty DEF ListOfEvents
  <2>5. Intake'
    BY <1>0, <2>1, <2>2, <2>3, <2>4 DEF Intake, ObsConstants
  <2> QED BY <1>3, <2>3, <2>5, RestartKeeps DEF ObsInv
<1>4. ASSUME NEW sched, SyncTick(sched) PROVE ObsInv' /\ engine' = engine
  <2>1. PICK s, b : emit(<<[Event("WORKER_STATUS_SNAPSHOT", nobody, nobody) EXCEPT !.seen = s, !.replace = b]>>)
    BY <1>4 DEF SyncTick
  <2>2. PICK x : x = [Event("WORKER_STATUS_SNAPSHOT", nobody, nobody) EXCEPT !.seen = s, !.replace = b]
    OBVIOUS
  <2>3. IsReport(x)
    BY <2>2 DEF IsReport, Event, RunEvents
  <2>4. <<x>> \in Seq(Range(<<x>>)) /\ \A ev \in Range(<<x>>) : IsReport(ev)
    BY <2>3, ListOne
  <2>5. emit(<<x>>)
    BY <2>1, <2>2
  <2>6. UNCHANGED <<engine, store, handler, posted>>
    BY <1>4 DEF SyncTick
  <2> QED BY <2>4, <2>5, <2>6, EmitKeeps
<1>5. ASSUME NEW h \in Posters, post_event(h) PROVE ObsInv' /\ engine' = engine
  <2>1. /\ handler[h].at = "idle" /\ UNCHANGED <<engine, store, history, bus>> /\ h \in Handlers
    BY <1>5 DEF post_event, Handlers
  <2>2. posted \in Seq(Range(posted)) /\ \A ev \in Range(posted) : IsEvent(ev)
    BY <1>0 DEF ListOfEvents
  <2>3. PICK ev : Begin(h, ev) /\ IsEvent(ev) /\ ListOfEvents(posted') /\ (count' = count \/ count' = [count EXCEPT !.ids = @ + 1])
    <3>1. CASE \E i \in DOMAIN posted : Begin(h, posted[i]) /\ UNCHANGED <<posted, count>>
      <4>1. PICK i \in DOMAIN posted : Begin(h, posted[i]) /\ UNCHANGED <<posted, count>>
        BY <3>1
      <4>2. IsEvent(posted[i])
        BY <2>2 DEF Range
      <4> QED BY <1>0, <4>1, <4>2
    <3>2. CASE /\ \E t : LET ev == [TrainerEvent(t) EXCEPT !.id = count.ids + 1, !.seq = Len(posted) + 1] IN
                         posted' = Append(posted, ev) /\ Begin(h, ev)
               /\ count' = [count EXCEPT !.ids = @ + 1]
      <4>1. PICK t : LET ev == [TrainerEvent(t) EXCEPT !.id = count.ids + 1, !.seq = Len(posted) + 1] IN
                     posted' = Append(posted, ev) /\ Begin(h, ev)
        BY <3>2
      <4>2. PICK p, ev : p = posted /\ ev = [TrainerEvent(t) EXCEPT !.id = count.ids + 1, !.seq = Len(posted) + 1]
        OBVIOUS
      <4>3. posted' = Append(p, ev) /\ Begin(h, ev)
        BY <4>1, <4>2
      <4>4. Len(p) \in Nat /\ Append(p, ev) \in Seq(Range(Append(p, ev))) /\ Range(Append(p, ev)) = Range(p) \cup {ev}
        BY <2>2, <4>2, ListAppend
      <4>5. Len(posted) + 1 \in Nat
        BY <4>2, <4>4
      <4>6. IsEvent(ev)
        BY <4>2, <4>5, TrainerEvents
      <4>7. ListOfEvents(Append(p, ev))
        BY <2>2, <4>2, <4>4, <4>6 DEF ListOfEvents
      <4> QED BY <3>2, <4>3, <4>6, <4>7
    <3> QED BY <1>5, <3>1, <3>2 DEF post_event
  <2>4. count'.seq = count.seq /\ count'.restarts = count.restarts /\ {"seq", "restarts"} \subseteq DOMAIN count'
    BY <1>0, <2>3
  <2>5. Intake'
    BY <1>0, <2>1, <2>3, <2>4 DEF Intake
  <2>6. Pipeline' /\ Ordered' /\ Matches'
    BY <2>1, <2>3, BeginKeeps
  <2> QED BY <2>1, <2>5, <2>6 DEF ObsInv
<1>6. DOMAIN handler = Handlers
  BY DEF ObsInv, Pipeline
<1>7. ASSUME NEW h \in DOMAIN handler, Merge(h) PROVE ObsInv' /\ \E ev : engine' = apply(engine, ev)
  <2>1. engine' = apply(engine, handler[h].ev) /\ UNCHANGED <<bus, posted, count>>
    BY <1>7 DEF Merge
  <2>2. Intake'
    BY <1>0, <2>1 DEF Intake
  <2> QED BY <1>6, <1>7, <2>1, <2>2, MergeKeeps DEF ObsInv
<1>8. ASSUME NEW h \in DOMAIN handler, AppendRow(h) PROVE ObsInv' /\ engine' = engine
  <2>1. UNCHANGED <<engine, bus, posted, count>>
    BY <1>8 DEF AppendRow
  <2>2. Intake'
    BY <1>0, <2>1 DEF Intake
  <2> QED BY <1>6, <1>8, <2>1, <2>2, AppendKeeps DEF ObsInv
<1>9. ASSUME NEW w, NEW e, ReportEpisode(e, w) PROVE ObsInv' /\ engine' = engine
  <2>1. PICK r \in Reports(progress[e], e, w) : emit(r[2])
    BY <1>9 DEF ReportEpisode
  <2>2. UNCHANGED <<engine, store, handler, posted>>
    BY <1>9 DEF ReportEpisode
  <2>3. r[2] \in Seq(Range(r[2])) /\ \A ev \in Range(r[2]) : IsReport(ev)
    BY ReportsAre
  <2> QED BY <2>1, <2>2, <2>3, EmitKeeps
<1>10. ASSUME NEW w, NEW t \in {"WORKER_REGISTERED", "WORKER_HEARTBEAT"}, ReportWorker(w, t) PROVE ObsInv' /\ engine' = engine
  <2>1. PICK x : x = Event(t, nobody, w)
    OBVIOUS
  <2>2. IsReport(x)
    <3>1. t \notin RunEvents
      BY DEF RunEvents
    <3> QED BY <2>1, <3>1, ServerEvents
  <2>3. <<x>> \in Seq(Range(<<x>>)) /\ \A ev \in Range(<<x>>) : IsReport(ev)
    BY <2>2, ListOne
  <2>4. emit(<<x>>) /\ UNCHANGED <<engine, store, handler, posted>>
    BY <1>10, <2>1 DEF ReportWorker
  <2> QED BY <2>3, <2>4, EmitKeeps
<1>11. \/ UNCHANGED ovars \/ Consume \/ Restart \/ (\E sched : SyncTick(sched)) \/ (\E h \in Posters : post_event(h))
       \/ (\E h \in DOMAIN handler : Merge(h)) \/ (\E h \in DOMAIN handler : AppendRow(h))
       \/ (\E w, e : ReportEpisode(e, w)) \/ (\E w : \E t \in {"WORKER_REGISTERED", "WORKER_HEARTBEAT"} : ReportWorker(w, t))
  BY DEF ONext
<1> QED BY <1>1, <1>2, <1>3, <1>4, <1>5, <1>7, <1>8, <1>9, <1>10, <1>11

LEMMA ObsAlways == ASSUME ObsConstants PROVE OSpec => []ObsInv
<1>1. OInit => ObsInv
  BY InitObs
<1>2. ObsInv /\ [ONext]_ovars => ObsInv'
  BY ObsStep
<1> QED BY <1>1, <1>2, PTL DEF OSpec

\* What a restart (open) finds: for any number of handlers, events,
\* repetitions and restarts, when every merged event has been appended and no
\* write failed, the replay of the rows in the order in which they are read,
\* by their times and then by their sequence numbers, gives the engine that is
\* in memory, cursors included, if the events were merged in that order; and
\* it gives the outcome of the run that is in memory, if the trainer's own
\* events were, whatever the order of all others.
THEOREM RestartFindsTheSame == ASSUME ObsConstants PROVE OSpec => []ReplayAgrees
<1>1. ASSUME ObsInv PROVE ReplayAgrees
  <2> SUFFICES ASSUME ~history.failed, \A h \in DOMAIN handler : handler[h].at # "append"
               PROVE  /\ MergedAsRead(history.merged, DOMAIN history.merged) => Replay(store) = engine
                      /\ MergedAsRead(history.merged, OfTrainer(history.merged)) => Outcome(Replay(store)) = Outcome(engine)
    BY DEF ReplayAgrees
  <2>1. PICK m, s : m = history.merged /\ s = store
    OBVIOUS
  <2>2. DOMAIN handler = Handlers
    BY <1>1 DEF ObsInv, Pipeline
  <2>3. Underway = {}
    BY <2>2 DEF Underway
  <2>4. /\ m \in Seq(Range(m)) /\ s \in Seq(Range(s)) /\ Range(m) = Range(s) /\ engine = Replay(m)
        /\ \A row \in Range(s) : IsReading(row)
    BY <1>1, <2>1, <2>3 DEF ObsInv, Pipeline, Matches
  <2>5. ASSUME NEW T, SortedOn(m, T) PROVE SortedOn(s, T)
    BY <1>1, <2>1, <2>5 DEF ObsInv, Matches
  <2>6. AreRows(Range(m))
    BY <2>4 DEF AreRows, IsRow, IsReading, IsEvent
  <2>7. ASSUME MergedAsRead(m, DOMAIN m) PROVE Replay(s) = engine
    <3>1. SortedOn(m, Range(m))
      BY <2>7 DEF MergedAsRead, SortedOn
    <3>2. m = s
      BY <2>4, <2>5, <2>6, <3>1, SortedUnique
    <3> QED BY <2>4, <3>2
  <2>8. ASSUME MergedAsRead(m, OfTrainer(m)) PROVE Outcome(Replay(s)) = Outcome(engine)
    <3> DEFINE T == {row \in Range(m) : row.ev.source = Trainer}
    <3>1. SortedOn(m, T)
      BY <2>8 DEF MergedAsRead, OfTrainer, SortedOn
    <3>2. \A row \in Range(m) : /\ row \in T <=> row.ev.source = Trainer
                                /\ row.ev.source = Trainer \/ row.ev.type \notin RunEvents
      BY <2>4 DEF IsReading, IsEvent
    <3>3. T \subseteq Range(m)
      OBVIOUS
    <3> HIDE DEF T
    <3>4. SortedOn(s, T)
      BY <2>5, <3>1
    <3>5. PICK k, l : k = Keep(m, T) /\ l = Keep(s, T)
      OBVIOUS
    <3>6. k \in Seq(Range(k)) /\ Range(k) = T /\ SortedOn(k, T)
      <4>1. m \in Seq(Range(m)) /\ k = Keep(m, T)
        BY <2>4, <3>5
      <4>2. k \in Seq(Range(k)) /\ Range(k) = Range(m) \cap T /\ (SortedOn(m, T) => SortedOn(k, T))
        BY <4>1, KeptRows
      <4>3. Range(m) \cap T = T
        BY <2>4, <3>3
      <4> QED BY <3>1, <4>2, <4>3
    <3>7. l \in Seq(Range(l)) /\ Range(l) = T /\ SortedOn(l, T)
      <4>1. s \in Seq(Range(s)) /\ l = Keep(s, T)
        BY <2>4, <3>5
      <4>2. l \in Seq(Range(l)) /\ Range(l) = Range(s) \cap T /\ (SortedOn(s, T) => SortedOn(l, T))
        BY <4>1, KeptRows
      <4>3. Range(s) \cap T = T
        BY <2>4, <3>3
      <4> QED BY <3>4, <4>2, <4>3
    <3>8. AreRows(Range(k))
      BY <2>6, <3>3, <3>6 DEF AreRows
    <3>9. k = l
      BY <3>6, <3>7, <3>8, SortedUnique
    <3>10. Outcome(Replay(k)) = Outcome(Replay(m))
      BY <2>4, <3>2, <3>5, OutcomeOfTrainer
    <3>11. Outcome(Replay(l)) = Outcome(Replay(s))
      BY <2>4, <3>2, <3>5, OutcomeOfTrainer
    <3> QED BY <2>4, <3>9, <3>10, <3>11
  <2> QED BY <2>1, <2>7, <2>8
<1>2. OSpec => []ObsInv
  BY ObsAlways
<1>3. ObsInv => ReplayAgrees
  BY <1>1
<1> QED BY <1>2, <1>3, PTL

\* The final status of a run is final (MergeEngine::apply): once it completed,
\* was terminated or failed, no event of a trainer or of the server, late,
\* repeated or out of order, makes it active or gives it another outcome.
THEOREM OutcomeStays == ASSUME ObsConstants PROVE OSpec => FinalStatusStays
<1> DEFINE Stays == engine.life.terminal /\ count'.restarts = count.restarts
                        => engine'.life.terminal /\ engine'.run.status = engine.run.status
<1>1. ASSUME ObsInv, [ONext]_ovars PROVE Stays
  <2> SUFFICES ASSUME engine.life.terminal, count'.restarts = count.restarts
               PROVE  engine'.life.terminal /\ engine'.run.status = engine.run.status
    OBVIOUS
  <2>1. engine' = engine \/ \E ev : engine' = apply(engine, ev)
    BY <1>1, ObsStep
  <2> QED BY <1>1, <2>1, ApplyIsSound DEF ObsInv, Pipeline
<1>2. ObsInv /\ [ONext]_ovars => [Stays]_ovars
  BY <1>1
<1> HIDE DEF Stays
<1>3. ObsInv /\ [ONext]_ovars => [Stays]_ovars
  BY <1>2
<1>4. OSpec => []ObsInv
  BY ObsAlways
<1>5. OSpec => [][Stays]_ovars
  BY <1>3, <1>4, PTL DEF OSpec
<1> QED BY <1>5 DEF FinalStatusStays, Stays

-----------------------------------------------------------------------------
(* The bridge (AdapterCore).                                               *)

CallPhases == {"idle", "counted", "refused", "running", "streaming", "answered", "gone", "ended"}
CallRecords == [phase : CallPhases, seen : Int, read : Nat, input : {"open", "done", "gone"}]
CoreTypes ==
    /\ call \in [Calls -> CallRecords]
    /\ pending \in Int
    /\ slot = [c \in Calls |-> slot[c]] /\ (\A c \in Calls : slot[c] \in Seq(Range(slot[c])))
    /\ chan = [c \in Calls |-> chan[c]] /\ (\A c \in Calls : chan[c] \in Seq(Range(chan[c])))
    /\ got = [c \in Calls |-> got[c]] /\ (\A c \in Calls : got[c] \in Seq(Range(got[c])))
    /\ \A id \in DOMAIN submitted :
          submitted[id] = [request |-> submitted[id].request, status |-> submitted[id].status,
                           trajectory |-> submitted[id].trajectory]

\* r is the result of the episode of a sample, which has ended.
EndOf(c, i, r) ==
    LET id == Samples(c)[i].request_id IN
    /\ r.episode_id = id
    /\ \/ r.status = "failed" /\ (lifecycle # "up" \/ (id \in DOMAIN submitted /\ submitted[id].request # RequestOf(c, i)))
       \/ /\ id \in DOMAIN submitted /\ submitted[id].request = RequestOf(c, i) /\ submitted[id].status # "running"
          /\ r.status = submitted[id].status /\ r.trajectory = submitted[id].trajectory

\* x is the final answer to a sample.
Settles(c, i, x) == ResultOf(c, i, x) /\ x.status # "running"
Alone(c, i) == <<Samples(c)[i]>>
AnswersSample(c, i, x) == IF IsAcceptable(Alone(c, i)) THEN Settles(c, i, x) ELSE x = [error |-> InvalidArgument]

SlotIsSound(c, i) ==
    LET s == slot[c][i]
        id == Samples(c)[i].request_id IN
    /\ i \in DOMAIN Samples(c)
    /\ \/ s = [state |-> "new"]
       \/ s = [state |-> "waits"] /\ id \in DOMAIN submitted /\ submitted[id].request = RequestOf(c, i)
       \/ s.state \in {"done", "sent"} /\ s = [state |-> s.state, error |-> InvalidArgument]
       \/ s.state \in {"done", "sent"} /\ s = [state |-> s.state, result |-> s.result] /\ EndOf(c, i, s.result)
    /\ IF IsBatch(c) THEN s.state # "sent" /\ "error" \notin DOMAIN s
       ELSE "error" \in DOMAIN s <=> ~IsAcceptable(Alone(c, i))

Sent(c) == {i \in DOMAIN slot[c] : slot[c][i].state = "sent"}
Items(c) == Range(got[c]) \cup Range(chan[c])

\* A batch that runs is valid and has a place for every sample; one that was
\* answered has its results, which do not change any more.
BatchIsSound(c) ==
    /\ Phase(c, "running") => IsAcceptable(Samples(c)) /\ DOMAIN slot[c] = DOMAIN Samples(c)
    /\ Phase(c, "answered") =>
          IF IsAcceptable(Samples(c))
          THEN Len(got[c]) = Len(Samples(c)) /\ \A i \in DOMAIN got[c] : Settles(c, i, got[c][i])
          ELSE got[c] = <<[error |-> InvalidArgument]>>

\* A stream has as many items as it sent, one for each sample that was sent;
\* the client has seen no error as long as it reads.
StreamIsSound(c) ==
    /\ Len(slot[c]) = call[c].read /\ call[c].read <= Len(Samples(c))
    /\ call[c].input = "done" => call[c].read = Len(Samples(c))
    /\ Phase(c, "ended") /\ HasReceiver(c) => call[c].input = "done" /\ Handles(c) = {}
    /\ Len(got[c]) + Len(chan[c]) = Cardinality(Sent(c))
    /\ \A i \in Sent(c) : \E x \in Items(c) : AnswersSample(c, i, x)
    /\ HasReceiver(c) => \A x \in Range(got[c]) : "error" \notin DOMAIN x

CallIsSound(c) ==
    /\ IsBatch(c) => ~Phase(c, "streaming") /\ ~Phase(c, "ended") /\ BatchIsSound(c)
    /\ ~IsBatch(c) => ~Phase(c, "running") /\ ~Phase(c, "answered") /\ StreamIsSound(c)
    /\ \A i \in DOMAIN slot[c] : SlotIsSound(c, i)

CoreInv == CoreTypes /\ \A c \in Calls : CallIsSound(c)

\* The server forgets no episode and changes none that has ended, and a
\* process that was told to stop stays so.
CoreKept ==
    /\ lifecycle # "up" => lifecycle' # "up"
    /\ \A id \in DOMAIN submitted :
          /\ id \in DOMAIN submitted' /\ submitted'[id].request = submitted[id].request
          /\ submitted[id].status # "running" => submitted'[id] = submitted[id]

LEMMA EndsStay ==
    ASSUME CoreKept, NEW c, NEW i, NEW r
    PROVE  /\ EndOf(c, i, r) => EndOf(c, i, r)'
           /\ Settles(c, i, r) => Settles(c, i, r)'
           /\ AnswersSample(c, i, r) => AnswersSample(c, i, r)'
<1>1. EndOf(c, i, r) => EndOf(c, i, r)'
  BY DEF EndOf, CoreKept, RequestOf
<1>2. Settles(c, i, r) => Settles(c, i, r)'
  <2> SUFFICES ASSUME ResultOf(c, i, r), r.status # "running" PROVE ResultOf(c, i, r)'
    BY DEF Settles
  <2> DEFINE id == Samples(c)[i].request_id
  <2>1. r.request_id = id /\ r.batch_id = Samples(c)[i].batch_id /\ r.sample_index = Samples(c)[i].sample_index
    BY DEF ResultOf
  <2>2. CASE r.status = "failed" /\ (lifecycle # "up" \/ (id \in DOMAIN submitted /\ submitted[id].request # RequestOf(c, i)))
    <3>1. lifecycle' # "up" \/ (id \in DOMAIN submitted' /\ submitted'[id].request # RequestOf(c, i))
      BY <2>2 DEF CoreKept
    <3> QED BY <2>1, <2>2, <3>1 DEF ResultOf, Samples, RequestOf, IsBatch
  <2>3. CASE /\ id \in DOMAIN submitted /\ submitted[id].request = RequestOf(c, i)
             /\ r.status = submitted[id].status /\ r.trajectory_json = build_trajectory_json(submitted[id])
    <3>1. id \in DOMAIN submitted' /\ submitted'[id] = submitted[id]
      BY <2>3 DEF CoreKept
    <3> QED BY <2>1, <2>3, <3>1 DEF ResultOf, Samples, RequestOf, IsBatch
  <2> QED BY <2>2, <2>3 DEF ResultOf
<1>3. AnswersSample(c, i, r) => AnswersSample(c, i, r)'
  BY <1>2 DEF AnswersSample, Alone, Samples
<1> QED BY <1>1, <1>2, <1>3

LEMMA SlotStays ==
    ASSUME CoreKept, NEW c, NEW i, SlotIsSound(c, i), slot'[c][i] = slot[c][i]
    PROVE  SlotIsSound(c, i)'
<1> DEFINE s == slot[c][i]
           id == Samples(c)[i].request_id
<1>1. /\ id \in DOMAIN submitted /\ submitted[id].request = RequestOf(c, i)
         => id \in DOMAIN submitted' /\ submitted'[id].request = RequestOf(c, i)
      /\ EndOf(c, i, s.result) => EndOf(c, i, s.result)'
  BY EndsStay DEF CoreKept
<1> QED BY <1>1 DEF SlotIsSound, Samples, RequestOf, IsBatch, Alone, EndOf

LEMMA SlotsStay ==
    ASSUME CoreKept, NEW c, \A i \in DOMAIN slot[c] : SlotIsSound(c, i), slot'[c] = slot[c]
    PROVE  (\A i \in DOMAIN slot[c] : SlotIsSound(c, i))'
<1> SUFFICES ASSUME NEW i \in DOMAIN slot[c] PROVE SlotIsSound(c, i)'
  OBVIOUS
<1> QED BY SlotStays

\* A call whose samples, items and answers stay as they are.
LEMMA CallMoves ==
    ASSUME CoreKept, NEW c, CallIsSound(c),
           slot'[c] = slot[c], chan'[c] = chan[c], got'[c] = got[c],
           call'[c].read = call[c].read,
           ~IsBatch(c) /\ call'[c].input = "done" => call[c].read = Len(Samples(c)),
           call'[c].input # "gone" => call[c].input # "gone",
           IsBatch(c) => /\ call'[c].phase \notin {"streaming", "ended"}
                         /\ call'[c].phase \in {"running", "answered"} => call'[c].phase = call[c].phase,
           ~IsBatch(c) => /\ call'[c].phase \notin {"running", "answered"}
                          /\ call'[c].phase = "ended" /\ call'[c].input # "gone"
                                => call'[c].input = "done" /\ Handles(c) = {}
    PROVE  CallIsSound(c)'
<1>1. IsBatch(c)' = IsBatch(c) /\ Samples(c)' = Samples(c)
  BY DEF IsBatch, Samples
<1>2. (\A i \in DOMAIN slot[c] : SlotIsSound(c, i))'
  BY SlotsStay DEF CallIsSound
<1>3. ASSUME IsBatch(c) PROVE (~Phase(c, "streaming") /\ ~Phase(c, "ended") /\ BatchIsSound(c))'
  <2>1. BatchIsSound(c)
    BY <1>3 DEF CallIsSound
  <2>2. call'[c].phase = "running" => IsAcceptable(Samples(c)) /\ DOMAIN slot'[c] = DOMAIN Samples(c)
    BY <1>3, <2>1 DEF BatchIsSound, Phase
  <2>3. ASSUME call'[c].phase = "answered"
        PROVE IF IsAcceptable(Samples(c))
              THEN Len(got'[c]) = Len(Samples(c)) /\ \A i \in DOMAIN got[c] : Settles(c, i, got[c][i])'
              ELSE got'[c] = <<[error |-> InvalidArgument]>>
    <3>1. CASE ~IsAcceptable(Samples(c))
      BY <1>3, <2>1, <2>3, <3>1 DEF BatchIsSound, Phase
    <3>2. CASE IsAcceptable(Samples(c))
      <4>1. Len(got[c]) = Len(Samples(c)) /\ \A i \in DOMAIN got[c] : Settles(c, i, got[c][i])
        BY <1>3, <2>1, <2>3, <3>2 DEF BatchIsSound, Phase
      <4>2. ASSUME NEW i \in DOMAIN got[c] PROVE Settles(c, i, got[c][i])'
        <5>1. PICK r : r = got[c][i]
          OBVIOUS
        <5>2. Settles(c, i, r)'
          BY <4>1, <5>1, EndsStay
        <5> QED BY <5>1, <5>2 DEF Settles, ResultOf
      <4> QED BY <3>2, <4>1, <4>2
    <3> QED BY <3>1, <3>2
  <2>4. BatchIsSound(c)'
    <3>1. (Phase(c, "answered") =>
            IF IsAcceptable(Samples(c))
            THEN Len(got[c]) = Len(Samples(c)) /\ \A i \in DOMAIN got[c] : Settles(c, i, got[c][i])
            ELSE got[c] = <<[error |-> InvalidArgument]>>)'
      BY <1>1, <2>3 DEF Phase
    <3>2. (Phase(c, "running") => IsAcceptable(Samples(c)) /\ DOMAIN slot[c] = DOMAIN Samples(c))'
      BY <1>1, <2>2 DEF Phase
    <3> QED BY <3>1, <3>2 DEF BatchIsSound
  <2> QED BY <1>3, <2>4 DEF Phase
<1>4. ASSUME ~IsBatch(c) PROVE (~Phase(c, "running") /\ ~Phase(c, "answered") /\ StreamIsSound(c))'
  <2>1. StreamIsSound(c)
    BY <1>4 DEF CallIsSound
  <2>2. Items(c)' = Items(c) /\ Sent(c)' = Sent(c) /\ Handles(c)' = Handles(c)
    BY DEF Items, Sent, Handles
  <2>3. (\A i \in Sent(c) : \E x \in Items(c) : AnswersSample(c, i, x))'
    <3> SUFFICES ASSUME NEW i \in Sent(c) PROVE \E x \in Items(c) : AnswersSample(c, i, x)'
      BY <2>2
    <3>1. PICK x \in Items(c) : AnswersSample(c, i, x)
      BY <2>1 DEF StreamIsSound
    <3> QED BY <3>1, EndsStay
  <2>4. (HasReceiver(c) => \A x \in Range(got[c]) : "error" \notin DOMAIN x)'
    BY <2>1 DEF StreamIsSound, HasReceiver
  <2>5. (Len(slot[c]) = call[c].read /\ call[c].read <= Len(Samples(c)))'
    BY <1>1, <2>1 DEF StreamIsSound
  <2>6. (Len(got[c]) + Len(chan[c]) = Cardinality(Sent(c)))'
    BY <2>1, <2>2 DEF StreamIsSound
  <2>7. (Phase(c, "ended") /\ HasReceiver(c) => call[c].input = "done" /\ Handles(c) = {})'
    BY <1>4, <2>2 DEF Phase, HasReceiver
  <2>8. (call[c].input = "done" => call[c].read = Len(Samples(c)))'
    BY <1>1, <1>4
  <2> QED BY <1>4, <2>3, <2>4, <2>5, <2>6, <2>7, <2>8 DEF StreamIsSound, Phase
<1> QED BY <1>1, <1>2, <1>3, <1>4 DEF CallIsSound

LEMMA Bystander ==
    ASSUME CoreKept, NEW c, CallIsSound(c),
           slot'[c] = slot[c], chan'[c] = chan[c], got'[c] = got[c], call'[c] = call[c]
    PROVE  CallIsSound(c)'
<1>1. call[c].input = "done" /\ ~IsBatch(c) => call[c].read = Len(Samples(c))
  BY DEF CallIsSound, StreamIsSound
<1>2. IsBatch(c) => call[c].phase \notin {"streaming", "ended"}
  BY DEF CallIsSound, Phase
<1>3. ~IsBatch(c) => /\ call[c].phase \notin {"running", "answered"}
                     /\ call[c].phase = "ended" /\ call[c].input # "gone"
                           => call[c].input = "done" /\ Handles(c) = {}
  BY DEF CallIsSound, StreamIsSound, Phase, HasReceiver
<1> QED BY <1>1, <1>2, <1>3, CallMoves
\* One sample of a running call goes on.
LEMMA PutKeeps ==
    ASSUME CoreTypes, CoreKept, NEW c \in Calls, CallIsSound(c), Running(c), NEW i \in DOMAIN slot[c],
           slot[c][i].state # "sent", NEW s, Put(c, i, s), s.state # "sent", SlotIsSound(c, i)',
           chan' = chan, got' = got, call' = call
    PROVE  CallIsSound(c)' /\ \A d \in Calls : slot'[d] \in Seq(Range(slot'[d]))
<1>1. IsBatch(c)' = IsBatch(c) /\ Samples(c)' = Samples(c)
  BY DEF IsBatch, Samples
<1>2. /\ slot'[c] = [slot[c] EXCEPT ![i] = s]
      /\ \A d \in Calls \ {c} : slot'[d] = slot[d]
  BY DEF CoreTypes, Put
<1>3. slot[c] \in Seq(Range(slot[c]))
  BY DEF CoreTypes
<1>4. /\ slot'[c] \in Seq(Range(slot'[c])) /\ DOMAIN slot'[c] = DOMAIN slot[c] /\ Len(slot'[c]) = Len(slot[c])
      /\ slot'[c][i] = s /\ \A j \in DOMAIN slot[c] \ {i} : slot'[c][j] = slot[c][j]
  BY <1>2, <1>3, ListExcept
<1>5. \A d \in Calls : slot'[d] \in Seq(Range(slot'[d]))
  BY <1>2, <1>4 DEF CoreTypes
<1>6. (\A j \in DOMAIN slot[c] : SlotIsSound(c, j))'
  <2> SUFFICES ASSUME NEW j \in DOMAIN slot[c], j # i PROVE SlotIsSound(c, j)'
    BY <1>4
  <2>1. SlotIsSound(c, j)
    BY DEF CallIsSound
  <2> QED BY <1>4, <2>1, SlotStays
<1>7. Phase(c, "running") \/ Phase(c, "streaming")
  BY DEF Running
<1>8. ASSUME IsBatch(c) PROVE (~Phase(c, "streaming") /\ ~Phase(c, "ended") /\ BatchIsSound(c))'
  BY <1>1, <1>4, <1>7, <1>8 DEF CallIsSound, BatchIsSound, Phase
<1>9. ASSUME ~IsBatch(c) PROVE (~Phase(c, "running") /\ ~Phase(c, "answered") /\ StreamIsSound(c))'
  <2>1. StreamIsSound(c) /\ Phase(c, "streaming")
    BY <1>7, <1>9 DEF CallIsSound
  <2>2. Items(c)' = Items(c)
    BY DEF Items
  <2>3. Sent(c)' = Sent(c)
    BY <1>4 DEF Sent
  <2>4. (\A j \in Sent(c) : \E x \in Items(c) : AnswersSample(c, j, x))'
    <3> SUFFICES ASSUME NEW j \in Sent(c) PROVE \E x \in Items(c) : AnswersSample(c, j, x)'
      BY <2>2, <2>3
    <3>1. PICK x \in Items(c) : AnswersSample(c, j, x)
      BY <2>1 DEF StreamIsSound
    <3> QED BY <3>1, EndsStay
  <2>5. (HasReceiver(c) => \A x \in Range(got[c]) : "error" \notin DOMAIN x)'
    BY <2>1 DEF StreamIsSound, HasReceiver
  <2>6. (Len(slot[c]) = call[c].read /\ call[c].read <= Len(Samples(c)))'
    BY <1>1, <1>4, <2>1 DEF StreamIsSound
  <2>7. (Len(got[c]) + Len(chan[c]) = Cardinality(Sent(c)))'
    BY <2>1, <2>3 DEF StreamIsSound
  <2>8. (call[c].input = "done" => call[c].read = Len(Samples(c)))'
    BY <1>1, <2>1 DEF StreamIsSound
  <2>9. ~Phase(c, "ended")' /\ ~Phase(c, "running")' /\ ~Phase(c, "answered")'
    BY <2>1 DEF Phase
  <2> QED BY <2>4, <2>5, <2>6, <2>7, <2>8, <2>9 DEF StreamIsSound
<1> QED BY <1>1, <1>5, <1>6, <1>8, <1>9 DEF CallIsSound

-----------------------------------------------------------------------------
(* The server's episodes.                                                  *)

LEMMA SubmitKeeps ==
    ASSUME CoreInv, NEW c \in Calls, NEW i \in DOMAIN slot[c], submit_sample(c, i)
    PROVE  CoreKept /\ CoreTypes' /\ CallIsSound(c)'
<1> DEFINE req == RequestOf(c, i)
           id == Samples(c)[i].request_id
<1>1. req.episode_id = id
  BY DEF RequestOf, sample_to_episode_request
<1>2. CoreTypes /\ CallIsSound(c) /\ SlotIsSound(c, i) /\ slot[c][i].state = "new" /\ Running(c)
  BY DEF CoreInv, CallIsSound, submit_sample
<1>3. i \in DOMAIN Samples(c) /\ slot[c][i].state # "sent" /\ call' = call /\ chan' = chan /\ got' = got
      /\ pending' = pending /\ lifecycle' = lifecycle
  BY <1>2 DEF SlotIsSound, submit_sample
<1>4. IF IsBatch(c) THEN TRUE ELSE IsAcceptable(Alone(c, i))
  BY <1>2 DEF SlotIsSound
<1>5. CASE lifecycle # "up" \/ (id \in DOMAIN submitted /\ submitted[id].request # req)
  <2>1. PICK s : s = [state |-> "done", result |-> FailedResult(id)]
    OBVIOUS
  <2>2. Put(c, i, s) /\ submitted' = submitted
    BY <1>1, <1>5, <2>1 DEF submit_sample
  <2>3. CoreKept
    BY <1>3, <2>2 DEF CoreKept
  <2>4. slot'[c][i] = s
    BY <1>2, <2>2 DEF Put, CoreTypes
  <2>5. EndOf(c, i, FailedResult(id))'
    BY <1>3, <1>5, <2>2 DEF EndOf, FailedResult, RequestOf, Samples, IsBatch
  <2>6. /\ s.state = "done" /\ s.result = FailedResult(id) /\ s = [state |-> s.state, result |-> s.result]
        /\ "error" \notin DOMAIN s
    BY <2>1
  <2>7. SlotIsSound(c, i)'
    BY <1>3, <1>4, <2>4, <2>5, <2>6 DEF SlotIsSound, Samples, RequestOf, IsBatch, Alone
  <2>8. CallIsSound(c)' /\ \A d \in Calls : slot'[d] \in Seq(Range(slot'[d]))
    BY <1>2, <1>3, <2>2, <2>3, <2>6, <2>7, PutKeeps
  <2>9. slot' = [d \in Calls |-> slot'[d]]
    BY <1>2, <2>2 DEF CoreTypes, Put
  <2>10. CoreTypes'
    BY <1>2, <1>3, <2>2, <2>8, <2>9 DEF CoreTypes
  <2> QED BY <2>3, <2>8, <2>10
<1>6. CASE ~(lifecycle # "up" \/ (id \in DOMAIN submitted /\ submitted[id].request # req))
  <2>1. PICK s : s = [state |-> "waits"]
    OBVIOUS
  <2>2. PICK e : e = [request |-> req, status |-> "running", trajectory |-> "empty"]
    OBVIOUS
  <2>3. /\ Put(c, i, s)
        /\ submitted' = IF id \in DOMAIN submitted THEN submitted
                        ELSE [x \in DOMAIN submitted \union {id} |-> IF x = id THEN e ELSE submitted[x]]
    BY <1>1, <1>6, <2>1, <2>2 DEF submit_sample
  <2>4. /\ DOMAIN submitted' = DOMAIN submitted \union {id}
        /\ \A x \in DOMAIN submitted : submitted'[x] = submitted[x]
        /\ id \notin DOMAIN submitted => submitted'[id] = e
    BY <2>3
  <2>5. CoreKept
    BY <1>3, <2>4 DEF CoreKept
  <2>6. slot'[c][i] = s
    BY <1>2, <2>3 DEF Put, CoreTypes
  <2>7. id \in DOMAIN submitted' /\ submitted'[id].request = req
    BY <1>6, <2>2, <2>4
  <2>8. s.state = "waits" /\ "error" \notin DOMAIN s /\ s = [state |-> "waits"]
    BY <2>1
  <2>9. SlotIsSound(c, i)'
    BY <1>3, <1>4, <2>6, <2>7, <2>8 DEF SlotIsSound, Samples, RequestOf, IsBatch, Alone
  <2>10. CallIsSound(c)' /\ \A d \in Calls : slot'[d] \in Seq(Range(slot'[d]))
    BY <1>2, <1>3, <2>3, <2>5, <2>8, <2>9, PutKeeps
  <2>11. slot' = [d \in Calls |-> slot'[d]]
    BY <1>2, <2>3 DEF CoreTypes, Put
  <2>12. \A x \in DOMAIN submitted' :
            submitted'[x] = [request |-> submitted'[x].request, status |-> submitted'[x].status,
                             trajectory |-> submitted'[x].trajectory]
    <3> SUFFICES ASSUME NEW x \in DOMAIN submitted'
                 PROVE submitted'[x] = [request |-> submitted'[x].request, status |-> submitted'[x].status,
                                        trajectory |-> submitted'[x].trajectory]
      OBVIOUS
    <3>1. CASE x \in DOMAIN submitted
      BY <1>2, <2>4, <3>1 DEF CoreTypes
    <3>2. CASE x = id /\ id \notin DOMAIN submitted
      BY <2>2, <2>4, <3>2
    <3> QED BY <2>4, <3>1, <3>2
  <2>13. CoreTypes'
    BY <1>2, <1>3, <2>10, <2>11, <2>12 DEF CoreTypes
  <2> QED BY <2>5, <2>10, <2>13
<1> QED BY <1>5, <1>6

LEMMA ReturnKeeps ==
    ASSUME CoreInv, NEW c \in Calls, NEW i \in DOMAIN slot[c], SubmitReturns(c, i)
    PROVE  CoreKept /\ CoreTypes' /\ CallIsSound(c)'
<1> DEFINE id == Samples(c)[i].request_id
<1>1. RequestOf(c, i).episode_id = id
  BY DEF RequestOf, sample_to_episode_request
<1>2. CoreTypes /\ CallIsSound(c) /\ SlotIsSound(c, i) /\ slot[c][i].state = "waits" /\ Running(c)
  BY DEF CoreInv, CallIsSound, SubmitReturns
<1>3. i \in DOMAIN Samples(c) /\ slot[c][i].state # "sent" /\ call' = call /\ chan' = chan /\ got' = got
      /\ pending' = pending /\ lifecycle' = lifecycle /\ submitted' = submitted
  BY <1>2 DEF SlotIsSound, SubmitReturns
<1>4. IF IsBatch(c) THEN TRUE ELSE IsAcceptable(Alone(c, i))
  BY <1>2 DEF SlotIsSound
<1>5. id \in DOMAIN submitted /\ submitted[id].request = RequestOf(c, i) /\ submitted[id].status # "running"
  BY <1>1, <1>2 DEF SlotIsSound, SubmitReturns
<1>6. PICK r : r = [episode_id |-> id, status |-> submitted[id].status, trajectory |-> submitted[id].trajectory]
  OBVIOUS
<1>7. PICK s : s = [state |-> "done", result |-> r]
  OBVIOUS
<1>8. Put(c, i, s)
  BY <1>1, <1>6, <1>7 DEF SubmitReturns
<1>9. CoreKept
  BY <1>3 DEF CoreKept
<1>10. slot'[c][i] = s
  BY <1>2, <1>8 DEF Put, CoreTypes
<1>11. EndOf(c, i, r)'
  BY <1>3, <1>5, <1>6 DEF EndOf, RequestOf, Samples, IsBatch
<1>12. /\ s.state = "done" /\ s.result = r /\ s = [state |-> s.state, result |-> s.result] /\ "error" \notin DOMAIN s
  BY <1>7
<1>13. SlotIsSound(c, i)'
  BY <1>3, <1>4, <1>10, <1>11, <1>12 DEF SlotIsSound, Samples, RequestOf, IsBatch, Alone
<1>14. CallIsSound(c)' /\ \A d \in Calls : slot'[d] \in Seq(Range(slot'[d]))
  BY <1>2, <1>3, <1>8, <1>9, <1>12, <1>13, PutKeeps
<1>15. slot' = [d \in Calls |-> slot'[d]]
  BY <1>2, <1>8 DEF CoreTypes, Put
<1>16. CoreTypes'
  BY <1>2, <1>3, <1>14, <1>15 DEF CoreTypes
<1> QED BY <1>9, <1>14, <1>16

LEMMA EpisodeEndsKeeps ==
    ASSUME CoreInv, NEW id \in DOMAIN submitted, EpisodeEnds(id)
    PROVE  CoreKept /\ CoreTypes'
<1>1. PICK o \in Outcomes :
          submitted' = [submitted EXCEPT ![id].status = o.status, ![id].trajectory = o.trajectory]
  BY DEF EpisodeEnds
<1>2. PICK e : e = submitted[id]
  OBVIOUS
<1>3. e = [request |-> e.request, status |-> e.status, trajectory |-> e.trajectory]
  BY <1>2 DEF CoreInv, CoreTypes
<1>4. submitted'[id] = [request |-> e.request, status |-> o.status, trajectory |-> o.trajectory]
  BY <1>1, <1>2, <1>3
<1>5. DOMAIN submitted' = DOMAIN submitted /\ \A x \in DOMAIN submitted \ {id} : submitted'[x] = submitted[x]
  BY <1>1
<1>6. CoreKept
  BY <1>2, <1>3, <1>4, <1>5 DEF CoreKept, EpisodeEnds
<1>7. \A x \in DOMAIN submitted' :
            submitted'[x] = [request |-> submitted'[x].request, status |-> submitted'[x].status,
                             trajectory |-> submitted'[x].trajectory]
  BY <1>4, <1>5 DEF CoreInv, CoreTypes
<1> QED BY <1>6, <1>7 DEF CoreInv, CoreTypes, EpisodeEnds
-----------------------------------------------------------------------------
(* The results of episodes become those of samples.                        *)

LEMMA ContextOf ==
    ASSUME NEW samples, NEW i \in DOMAIN samples,
           \A j \in DOMAIN samples : samples[j].request_id = samples[i].request_id => j = i
    PROVE  LET context == sample_context_by_request_id(samples) IN
           /\ DOMAIN context = {s.request_id : s \in Range(samples)}
           /\ samples[i].request_id \in DOMAIN context
           /\ context[samples[i].request_id] =
                 [batch_id |-> samples[i].batch_id, sample_index |-> samples[i].sample_index]
<1> DEFINE id == samples[i].request_id
           t == CHOOSE t \in Range(samples) : t.request_id = id
<1>1. samples[i] \in Range(samples)
  BY DEF Range
<1>2. t \in Range(samples) /\ t.request_id = id
  BY <1>1
<1>3. t = samples[i]
  <2>1. PICK j \in DOMAIN samples : t = samples[j]
    BY <1>2 DEF Range
  <2> QED BY <1>2, <2>1
<1>4. id \in {s.request_id : s \in Range(samples)}
  BY <1>1
<1> HIDE DEF t
<1>5. sample_context_by_request_id(samples)[id] = [batch_id |-> t.batch_id, sample_index |-> t.sample_index]
  BY <1>4 DEF sample_context_by_request_id, t
<1> QED BY <1>3, <1>4, <1>5 DEF sample_context_by_request_id

LEMMA Converted ==
    ASSUME NEW c, NEW i, NEW r, EndOf(c, i, r), NEW context,
           context[Samples(c)[i].request_id] =
              [batch_id |-> Samples(c)[i].batch_id, sample_index |-> Samples(c)[i].sample_index]
    PROVE  LET x == episode_result_to_sample_result(r, context) IN
           Settles(c, i, x) /\ "error" \notin DOMAIN x
<1> DEFINE id == Samples(c)[i].request_id
<1>1. PICK x : x = episode_result_to_sample_result(r, context)
  OBVIOUS
<1>2. /\ x.request_id = r.episode_id /\ x.batch_id = context[r.episode_id].batch_id
      /\ x.sample_index = context[r.episode_id].sample_index /\ x.status = r.status
      /\ x.trajectory_json = build_trajectory_json(r) /\ "error" \notin DOMAIN x
  BY <1>1 DEF episode_result_to_sample_result
<1>3. r.episode_id = id
  BY DEF EndOf
<1>4. x.request_id = id /\ x.batch_id = Samples(c)[i].batch_id /\ x.sample_index = Samples(c)[i].sample_index
  BY <1>2, <1>3
<1>5. CASE r.status = "failed" /\ (lifecycle # "up" \/ (id \in DOMAIN submitted /\ submitted[id].request # RequestOf(c, i)))
  BY <1>1, <1>2, <1>4, <1>5 DEF Settles, ResultOf
<1>6. CASE /\ id \in DOMAIN submitted /\ submitted[id].request = RequestOf(c, i) /\ submitted[id].status # "running"
           /\ r.status = submitted[id].status /\ r.trajectory = submitted[id].trajectory
  <2>1. build_trajectory_json(r) = build_trajectory_json(submitted[id])
    BY <1>6 DEF build_trajectory_json
  <2> QED BY <1>1, <1>2, <1>4, <1>6, <2>1 DEF Settles, ResultOf
<1> QED BY <1>5, <1>6 DEF EndOf

-----------------------------------------------------------------------------
(* The steps of a batch.                                                   *)

LEMMA SamplesList ==
    ASSUME CoreConstants, NEW c \in Calls
    PROVE  Samples(c) \in Seq(Range(Samples(c))) /\ Len(Samples(c)) \in Nat /\ DOMAIN Samples(c) = 1 .. Len(Samples(c))
<1>1. PICK s, S : s = Samples(c) /\ S = Range(s)
  OBVIOUS
<1>2. s \in Seq(S)
  BY <1>1 DEF CoreConstants
<1> QED BY <1>1, <1>2

LEMMA BatchBeginsKeeps ==
    ASSUME CoreConstants, CoreInv, NEW c \in Calls, BatchBegins(c)
    PROVE  CoreKept /\ CoreTypes' /\ CallIsSound(c)'
<1>1. CoreTypes /\ CallIsSound(c) /\ IsBatch(c) /\ chan' = chan /\ submitted' = submitted /\ lifecycle' = lifecycle
  BY DEF CoreInv, BatchBegins
<1>2. CoreKept
  BY <1>1 DEF CoreKept
<1>3. IsBatch(c)' = IsBatch(c) /\ Samples(c)' = Samples(c)
  BY DEF IsBatch, Samples
<1>4. CASE IsAcceptable(Samples(c))
  <2>1. PICK f : f = [i \in DOMAIN Samples(c) |-> [state |-> "new"]]
    OBVIOUS
  <2>2. slot' = [slot EXCEPT ![c] = f] /\ Go(c, "running") /\ pending' = pending /\ got' = got
    BY <1>4, <2>1 DEF BatchBegins
  <2>3. slot'[c] = f /\ call'[c].phase = "running" /\ call' \in [Calls -> CallRecords]
    BY <1>1, <2>2 DEF CoreTypes, Go, CallPhases, CallRecords
  <2>4. f \in Seq(Range(f)) /\ DOMAIN f = DOMAIN Samples(c)
    BY <2>1, SamplesList, ListOf
  <2>5. CoreTypes'
    <3>1. slot' = [d \in Calls |-> slot'[d]] /\ \A d \in Calls : slot'[d] \in Seq(Range(slot'[d]))
      BY <1>1, <2>2, <2>4 DEF CoreTypes
    <3> QED BY <1>1, <2>2, <2>3, <3>1 DEF CoreTypes
  <2>6. (\A i \in DOMAIN slot[c] : SlotIsSound(c, i))'
    <3> SUFFICES ASSUME NEW i \in DOMAIN Samples(c) PROVE SlotIsSound(c, i)'
      BY <2>3, <2>4
    <3>1. slot'[c][i] = [state |-> "new"]
      BY <2>1, <2>3
    <3>2. PICK s : s = [state |-> "new"]
      OBVIOUS
    <3>3. s.state # "sent" /\ "error" \notin DOMAIN s
      BY <3>2
    <3> QED BY <1>1, <1>3, <3>1, <3>2, <3>3 DEF SlotIsSound
  <2>7. (~Phase(c, "streaming") /\ ~Phase(c, "ended") /\ BatchIsSound(c))'
    BY <1>3, <1>4, <2>3, <2>4 DEF BatchIsSound, Phase
  <2> QED BY <1>1, <1>2, <1>3, <2>5, <2>6, <2>7 DEF CallIsSound
<1>5. CASE ~IsAcceptable(Samples(c))
  <2>1. PICK g : g = <<[error |-> InvalidArgument]>>
    OBVIOUS
  <2>2. got' = [got EXCEPT ![c] = g] /\ Go(c, "answered") /\ GuardDropped /\ slot' = slot
    BY <1>5, <2>1 DEF BatchBegins
  <2>3. got'[c] = g /\ call'[c].phase = "answered" /\ call' \in [Calls -> CallRecords]
    BY <1>1, <2>2 DEF CoreTypes, Go, CallPhases, CallRecords
  <2>4. g \in Seq(Range(g))
    BY <2>1, ListOne
  <2>5. CoreTypes'
    <3>1. got' = [d \in Calls |-> got'[d]] /\ \A d \in Calls : got'[d] \in Seq(Range(got'[d]))
      BY <1>1, <2>2, <2>4 DEF CoreTypes
    <3> QED BY <1>1, <2>2, <2>3, <3>1 DEF CoreTypes, GuardDropped
  <2>6. (\A i \in DOMAIN slot[c] : SlotIsSound(c, i))'
    BY <1>1, <1>2, <2>2, SlotsStay DEF CallIsSound
  <2>7. (~Phase(c, "streaming") /\ ~Phase(c, "ended") /\ BatchIsSound(c))'
    BY <1>3, <1>5, <2>1, <2>3 DEF BatchIsSound, Phase
  <2> QED BY <1>1, <1>2, <1>3, <2>5, <2>6, <2>7 DEF CallIsSound
<1> QED BY <1>4, <1>5

LEMMA ExecuteKeeps ==
    ASSUME CoreConstants, CoreInv, NEW c \in Calls, execute_batch(c)
    PROVE  CoreKept /\ CoreTypes' /\ CallIsSound(c)'
<1>1. /\ CoreTypes /\ CallIsSound(c) /\ IsBatch(c) /\ Phase(c, "running")
      /\ chan' = chan /\ submitted' = submitted /\ lifecycle' = lifecycle /\ slot' = slot
      /\ Go(c, "answered") /\ GuardDropped
      /\ \A i \in DOMAIN slot[c] : slot[c][i].state = "done"
  BY DEF CoreInv, execute_batch
<1>2. CoreKept
  BY <1>1 DEF CoreKept
<1>3. IsBatch(c)' = IsBatch(c) /\ Samples(c)' = Samples(c)
  BY DEF IsBatch, Samples
<1>4. IsAcceptable(Samples(c)) /\ DOMAIN slot[c] = DOMAIN Samples(c)
  BY <1>1 DEF CallIsSound, BatchIsSound
<1>5. PICK n \in Nat : n = Len(Samples(c)) /\ DOMAIN Samples(c) = 1 .. n
  BY SamplesList
<1>6. \A i, j \in 1 .. n : Samples(c)[i].request_id = Samples(c)[j].request_id => i = j
  BY <1>4, <1>5 DEF IsAcceptable, validate_batch
<1>7. PICK results : results = [i \in DOMAIN slot[c] |-> slot[c][i].result]
  OBVIOUS
<1>8. PICK context : context = sample_context_by_request_id(Samples(c))
  OBVIOUS
<1>9. DOMAIN results = 1 .. n /\ Len(results) = n /\ \A i \in 1 .. n : results[i] = slot[c][i].result
  <2>1. results = [i \in 1 .. n |-> results[i]] /\ \A i \in 1 .. n : results[i] = slot[c][i].result
    BY <1>4, <1>5, <1>7
  <2> QED BY <2>1, ListOf
<1>10. \A i \in 1 .. n : EndOf(c, i, results[i])
  <2> SUFFICES ASSUME NEW i \in 1 .. n PROVE EndOf(c, i, results[i])
    OBVIOUS
  <2>1. SlotIsSound(c, i) /\ slot[c][i].state = "done"
    BY <1>1, <1>4, <1>5 DEF CallIsSound
  <2>2. PICK s : s = slot[c][i]
    OBVIOUS
  <2>3. s # [state |-> "new"] /\ s # [state |-> "waits"]
    BY <2>1, <2>2
  <2>4. s # [state |-> s.state, error |-> InvalidArgument]
    <3>1. "error" \notin DOMAIN s
      BY <1>1, <2>1, <2>2 DEF SlotIsSound
    <3> QED BY <3>1
  <2>5. EndOf(c, i, slot[c][i].result)
    BY <2>1, <2>2, <2>3, <2>4 DEF SlotIsSound
  <2> QED BY <1>9, <2>5
<1>11. DOMAIN context = {s.request_id : s \in Range(Samples(c))}
  BY <1>8 DEF sample_context_by_request_id
<1>12. \A i \in 1 .. n :
          /\ Samples(c)[i].request_id \in DOMAIN context
          /\ context[Samples(c)[i].request_id] =
                [batch_id |-> Samples(c)[i].batch_id, sample_index |-> Samples(c)[i].sample_index]
  BY <1>5, <1>6, <1>8, ContextOf
<1>13. Cardinality(DOMAIN context) = n
  <2> DEFINE f == [i \in 1 .. n |-> Samples(c)[i].request_id]
  <2>1. f \in Injection(1 .. n, DOMAIN context)
    BY <1>6, <1>12 DEF Injection, IsInjective
  <2>2. f \in Surjection(1 .. n, DOMAIN context)
    <3>1. ASSUME NEW d \in DOMAIN context PROVE \E i \in 1 .. n : f[i] = d
      <4>1. PICK i \in DOMAIN Samples(c) : d = Samples(c)[i].request_id
        BY <1>11 DEF Range
      <4> QED BY <1>5, <4>1
    <3> QED BY <1>12, <3>1 DEF Surjection
  <2>3. ExistsBijection(1 .. n, DOMAIN context)
    BY <2>1, <2>2 DEF ExistsBijection, Bijection
  <2> QED BY <2>3, FS_Bijection, FS_Interval
<1>14. \A i \in 1 .. n : results[i].episode_id = Samples(c)[i].request_id
  BY <1>10 DEF EndOf
<1>15. validate_episode_results(results, context)
  <2>1. ASSUME NEW r \in Range(results) PROVE r.episode_id \in DOMAIN context
    <3>1. PICK i \in 1 .. n : r = results[i]
      BY <1>9 DEF Range
    <3> QED BY <1>12, <1>14, <3>1
  <2>2. \A i, j \in DOMAIN results : results[i].episode_id = results[j].episode_id => i = j
    BY <1>6, <1>9, <1>14
  <2> QED BY <1>9, <1>13, <2>1, <2>2 DEF validate_episode_results
<1>16. PICK g : g = [i \in DOMAIN results |-> episode_result_to_sample_result(results[i], context)]
  OBVIOUS
<1>17. got' = [got EXCEPT ![c] = g]
  BY <1>7, <1>8, <1>15, <1>16 DEF execute_batch
<1>18. /\ got'[c] = g /\ call'[c].phase = "answered"
       /\ call' \in [Calls -> CallRecords]
  BY <1>1, <1>17 DEF CoreTypes, Go, CallPhases, CallRecords
<1>19. g \in Seq(Range(g)) /\ Len(g) = n /\ DOMAIN g = 1 .. n
  BY <1>9, <1>16, ListOf
<1>20. CoreTypes'
  <2>1. got' = [d \in Calls |-> got'[d]] /\ \A d \in Calls : got'[d] \in Seq(Range(got'[d]))
    BY <1>1, <1>17, <1>19 DEF CoreTypes
  <2> QED BY <1>1, <1>18, <2>1 DEF CoreTypes, GuardDropped
<1>21. (\A i \in DOMAIN slot[c] : SlotIsSound(c, i))'
  BY <1>1, <1>2, SlotsStay DEF CallIsSound
<1>22. ASSUME NEW i \in 1 .. n PROVE Settles(c, i, got[c][i])'
  <2>1. g[i] = episode_result_to_sample_result(results[i], context)
    BY <1>9, <1>16
  <2>2. Settles(c, i, g[i])
    <3>1. PICK r : r = results[i]
      OBVIOUS
    <3>2. EndOf(c, i, r)
      BY <1>10, <3>1
    <3>3. context[Samples(c)[i].request_id] =
                [batch_id |-> Samples(c)[i].batch_id, sample_index |-> Samples(c)[i].sample_index]
      BY <1>12
    <3>4. Settles(c, i, episode_result_to_sample_result(r, context))
      BY <3>2, <3>3, Converted
    <3> QED BY <2>1, <3>1, <3>4
  <2>3. Settles(c, i, g[i])'
    BY <1>2, <2>2, EndsStay
  <2> QED BY <1>18, <2>3 DEF Settles, ResultOf
<1>23. (~Phase(c, "streaming") /\ ~Phase(c, "ended") /\ BatchIsSound(c))'
  <2>1. (Len(got[c]) = Len(Samples(c)) /\ \A i \in DOMAIN got[c] : Settles(c, i, got[c][i]))'
    <3>1. \A i \in DOMAIN g : Settles(c, i, got[c][i])'
      BY <1>19, <1>22
    <3> QED BY <1>3, <1>5, <1>18, <1>19, <3>1
  <2> QED BY <1>3, <1>4, <1>18, <2>1 DEF BatchIsSound, Phase
<1> QED BY <1>1, <1>2, <1>3, <1>20, <1>21, <1>23 DEF CallIsSound
-----------------------------------------------------------------------------
(* The steps of a stream.                                                  *)

LEMMA SentIsFinite ==
    ASSUME CoreTypes, NEW c \in Calls
    PROVE  IsFiniteSet(Sent(c)) /\ Cardinality(Sent(c)) \in Nat
<1>1. PICK s, S : s = slot[c] /\ S = Range(s)
  OBVIOUS
<1>2. s \in Seq(S)
  BY <1>1 DEF CoreTypes
<1>3. Sent(c) \subseteq 1 .. Len(s) /\ Len(s) \in Nat
  BY <1>1, <1>2 DEF Sent
<1>4. IsFiniteSet(1 .. Len(s))
  BY <1>3, FS_Interval
<1> QED BY <1>3, <1>4, FS_Subset, FS_CardinalityType

\* The items of a stream still answer the samples they answered.
LEMMA ItemsStay ==
    ASSUME CoreKept, NEW c, StreamIsSound(c), Items(c) \subseteq Items(c)', NEW i \in Sent(c)
    PROVE  \E x \in Items(c)' : AnswersSample(c, i, x)'
<1>1. PICK x \in Items(c) : AnswersSample(c, i, x)
  BY DEF StreamIsSound
<1> QED BY <1>1, EndsStay

LEMMA StreamReadsKeeps ==
    ASSUME CoreConstants, CoreInv, NEW c \in Calls, StreamReads(c)
    PROVE  CoreKept /\ CoreTypes' /\ CallIsSound(c)'
<1>1. /\ CoreTypes /\ CallIsSound(c) /\ ~IsBatch(c) /\ Phase(c, "streaming") /\ call[c].input = "open"
      /\ call[c].read < Len(Samples(c)) /\ call' = [call EXCEPT ![c].read = @ + 1]
      /\ pending' = pending /\ chan' = chan /\ got' = got /\ submitted' = submitted /\ lifecycle' = lifecycle
  BY DEF CoreInv, StreamReads, Streaming
<1>2. CoreKept
  BY <1>1 DEF CoreKept
<1>3. IsBatch(c)' = IsBatch(c) /\ Samples(c)' = Samples(c)
  BY DEF IsBatch, Samples
<1>4. StreamIsSound(c)
  BY <1>1 DEF CallIsSound
<1>5. PICK k : k = call[c].read + 1
  OBVIOUS
<1>6. PICK x : x = IF IsAcceptable(Alone(c, k)) THEN [state |-> "new"] ELSE [state |-> "done", error |-> InvalidArgument]
  OBVIOUS
<1>7. slot' = [slot EXCEPT ![c] = Append(@, x)]
  BY <1>5, <1>6 DEF StreamReads, Alone
<1>8. slot'[c] = Append(slot[c], x) /\ \A d \in Calls \ {c} : slot'[d] = slot[d]
  BY <1>1, <1>7 DEF CoreTypes
<1>9. /\ call' \in [Calls -> CallRecords]
      /\ call'[c].read = k /\ call'[c].input = "open" /\ call'[c].phase = "streaming"
  <2>1. PICK r \in CallRecords : r = call[c]
    BY <1>1 DEF CoreTypes
  <2>2. k \in Nat /\ r.input = "open" /\ r.phase = "streaming"
    BY <1>1, <1>5, <2>1 DEF CallRecords, Phase
  <2>3. PICK q : q = [phase |-> r.phase, seen |-> r.seen, read |-> k, input |-> r.input]
    OBVIOUS
  <2>4. q \in CallRecords /\ q.read = k /\ q.input = "open" /\ q.phase = "streaming"
    BY <2>1, <2>2, <2>3 DEF CallRecords
  <2>5. r = [phase |-> r.phase, seen |-> r.seen, read |-> r.read, input |-> r.input]
    BY <2>1 DEF CallRecords
  <2>6. call'[c] = q /\ call' = [call EXCEPT ![c] = q]
    <3>1. [r EXCEPT !.read = k] = q
      BY <2>3, <2>5
    <3>2. call' = [call EXCEPT ![c] = [r EXCEPT !.read = k]]
      BY <1>1, <1>5, <2>1
    <3>3. call' = [call EXCEPT ![c] = q]
      BY <3>1, <3>2
    <3> QED BY <1>1, <3>3 DEF CoreTypes
  <2> QED BY <1>1, <2>4, <2>6 DEF CoreTypes
<1>10. slot[c] \in Seq(Range(slot[c]))
  BY <1>1 DEF CoreTypes
<1>11. /\ Len(slot[c]) \in Nat /\ DOMAIN slot[c] = 1 .. Len(slot[c])
       /\ slot'[c] \in Seq(Range(slot'[c])) /\ Len(slot'[c]) = Len(slot[c]) + 1
       /\ DOMAIN slot'[c] = 1 .. Len(slot[c]) + 1 /\ slot'[c][Len(slot[c]) + 1] = x
       /\ \A j \in 1 .. Len(slot[c]) : slot'[c][j] = slot[c][j]
  BY <1>8, <1>10, ListAppend
<1>12. Len(slot[c]) = call[c].read /\ Len(slot[c]) + 1 = k /\ k \in Nat
  BY <1>4, <1>5, <1>11 DEF StreamIsSound
<1>13. CoreTypes'
  <2>1. slot' = [d \in Calls |-> slot'[d]] /\ \A d \in Calls : slot'[d] \in Seq(Range(slot'[d]))
    BY <1>1, <1>7, <1>8, <1>11 DEF CoreTypes
  <2> QED BY <1>1, <1>9, <2>1 DEF CoreTypes
<1>14. Len(Samples(c)) \in Nat /\ DOMAIN Samples(c) = 1 .. Len(Samples(c))
  BY SamplesList
<1>15. k <= Len(Samples(c)) /\ k \in DOMAIN Samples(c) /\ k \in Nat
  BY <1>1, <1>11, <1>12, <1>14
<1>16. SlotIsSound(c, k)'
  <2>1. slot'[c][k] = x /\ k \in DOMAIN Samples(c)
    BY <1>11, <1>12, <1>15
  <2>2. CASE IsAcceptable(Alone(c, k))
    <3>1. x = [state |-> "new"] /\ "error" \notin DOMAIN x
      BY <1>6, <2>2
    <3> QED BY <1>1, <2>1, <2>2, <3>1 DEF SlotIsSound, Samples, IsBatch, Alone
  <2>3. CASE ~IsAcceptable(Alone(c, k))
    <3>1. x = [state |-> "done", error |-> InvalidArgument]
      BY <1>6, <2>3
    <3>2. x.state = "done" /\ x = [state |-> x.state, error |-> InvalidArgument] /\ "error" \in DOMAIN x
      BY <3>1
    <3> QED BY <1>1, <2>1, <2>3, <3>2 DEF SlotIsSound, Samples, IsBatch, Alone
  <2> QED BY <2>2, <2>3
<1>17. (\A j \in DOMAIN slot[c] : SlotIsSound(c, j))'
  <2> SUFFICES ASSUME NEW j \in 1 .. Len(slot[c]) + 1 PROVE SlotIsSound(c, j)'
    BY <1>11
  <2>1. CASE j = k
    BY <1>16, <2>1
  <2>2. CASE j # k
    <3>1. j \in 1 .. Len(slot[c])
      BY <1>11, <1>12, <2>2
    <3>2. SlotIsSound(c, j)
      BY <1>1, <1>11, <3>1 DEF CallIsSound
    <3> QED BY <1>2, <1>11, <3>1, <3>2, SlotStays
  <2> QED BY <2>1, <2>2
<1>18. Sent(c)' = Sent(c)
  <2>1. x.state # "sent"
    BY <1>6
  <2>2. ASSUME NEW j \in Sent(c)' PROVE j \in Sent(c)
    <3>1. j \in 1 .. Len(slot[c]) + 1 /\ slot'[c][j].state = "sent"
      BY <1>11 DEF Sent
    <3>2. j # Len(slot[c]) + 1
      BY <1>11, <2>1, <3>1
    <3>3. j \in 1 .. Len(slot[c])
      BY <1>11, <3>1, <3>2
    <3> QED BY <1>11, <3>1, <3>3 DEF Sent
  <2>3. ASSUME NEW j \in Sent(c) PROVE j \in Sent(c)'
    <3>1. j \in 1 .. Len(slot[c]) /\ slot[c][j].state = "sent"
      BY <1>11 DEF Sent
    <3>2. j \in 1 .. Len(slot[c]) + 1
      BY <1>11, <3>1
    <3> QED BY <1>11, <3>1, <3>2 DEF Sent
  <2> QED BY <2>2, <2>3
<1>19. StreamIsSound(c)'
  <2>1. (\A j \in Sent(c) : \E y \in Items(c) : AnswersSample(c, j, y))'
    <3>1. Items(c) \subseteq Items(c)'
      BY <1>1 DEF Items
    <3> SUFFICES ASSUME NEW j \in Sent(c) PROVE \E y \in Items(c)' : AnswersSample(c, j, y)'
      BY <1>18
    <3> QED BY <1>2, <1>4, <3>1, ItemsStay
  <2>2. (Len(got[c]) + Len(chan[c]) = Cardinality(Sent(c)))'
    BY <1>1, <1>4, <1>18 DEF StreamIsSound
  <2>3. (HasReceiver(c) => \A y \in Range(got[c]) : "error" \notin DOMAIN y)'
    BY <1>1, <1>4 DEF StreamIsSound, HasReceiver
  <2>4. (Len(slot[c]) = call[c].read /\ call[c].read <= Len(Samples(c)))'
    BY <1>3, <1>9, <1>11, <1>12, <1>15
  <2>5. ~Phase(c, "ended")' /\ call'[c].input # "done"
    BY <1>9 DEF Phase
  <2> QED BY <2>1, <2>2, <2>3, <2>4, <2>5 DEF StreamIsSound
<1>20. ~Phase(c, "running")' /\ ~Phase(c, "answered")'
  BY <1>9 DEF Phase
<1> QED BY <1>1, <1>2, <1>3, <1>13, <1>17, <1>19, <1>20 DEF CallIsSound
\* An execution has ended and there is a receiver.
JoinsReceived(c, i) ==
    /\ i \in Handles(c) /\ Streaming(c) /\ slot[c][i].state = "done" /\ HasReceiver(c)
    /\ chan' = [chan EXCEPT ![c] = Append(@, Item(c, i))]
    /\ slot' = [slot EXCEPT ![c][i].state = "sent"]
    /\ UNCHANGED <<pending, call, got, submitted, lifecycle>>

LEMMA JoinsKeeps ==
    ASSUME CoreInv, NEW c \in Calls, NEW i, JoinsReceived(c, i)
    PROVE  CoreKept /\ CoreTypes' /\ CallIsSound(c)'
<1>1. /\ CoreTypes /\ CallIsSound(c) /\ ~IsBatch(c) /\ Phase(c, "streaming") /\ HasReceiver(c)
      /\ i \in DOMAIN slot[c] /\ slot[c][i].state = "done"
      /\ pending' = pending /\ call' = call /\ got' = got /\ submitted' = submitted /\ lifecycle' = lifecycle
  BY DEF CoreInv, JoinsReceived, Streaming, Handles
<1>2. CoreKept
  BY <1>1 DEF CoreKept
<1>3. IsBatch(c)' = IsBatch(c) /\ Samples(c)' = Samples(c)
  BY DEF IsBatch, Samples
<1>4. StreamIsSound(c) /\ SlotIsSound(c, i) /\ i \in DOMAIN Samples(c)
  BY <1>1 DEF CallIsSound, SlotIsSound
<1>5. PICK s, t : s = slot[c][i] /\ t = [s EXCEPT !.state = "sent"]
  OBVIOUS
<1>6. PICK x : x = Item(c, i)
  OBVIOUS
<1>7. slot[c] \in Seq(Range(slot[c])) /\ chan[c] \in Seq(Range(chan[c]))
  BY <1>1 DEF CoreTypes
<1>8. slot'[c] = [slot[c] EXCEPT ![i] = t] /\ \A d \in Calls \ {c} : slot'[d] = slot[d]
  BY <1>1, <1>5 DEF CoreTypes, JoinsReceived
<1>9. chan'[c] = Append(chan[c], x) /\ \A d \in Calls \ {c} : chan'[d] = chan[d]
  BY <1>1, <1>6 DEF CoreTypes, JoinsReceived
<1>10. /\ slot'[c] \in Seq(Range(slot'[c])) /\ DOMAIN slot'[c] = DOMAIN slot[c] /\ Len(slot'[c]) = Len(slot[c])
       /\ slot'[c][i] = t /\ \A j \in DOMAIN slot[c] \ {i} : slot'[c][j] = slot[c][j]
  BY <1>1, <1>7, <1>8, ListExcept
<1>11. /\ Len(chan[c]) \in Nat /\ Len(chan'[c]) = Len(chan[c]) + 1
       /\ chan'[c] \in Seq(Range(chan'[c])) /\ Range(chan'[c]) = Range(chan[c]) \cup {x}
  BY <1>7, <1>9, ListAppend
<1>12. CoreTypes'
  <2>1. slot' = [d \in Calls |-> slot'[d]] /\ \A d \in Calls : slot'[d] \in Seq(Range(slot'[d]))
    BY <1>1, <1>8, <1>10 DEF CoreTypes, JoinsReceived
  <2>2. chan' = [d \in Calls |-> chan'[d]] /\ \A d \in Calls : chan'[d] \in Seq(Range(chan'[d]))
    BY <1>1, <1>9, <1>11 DEF CoreTypes, JoinsReceived
  <2> QED BY <1>1, <2>1, <2>2 DEF CoreTypes
<1>13. ASSUME IsAcceptable(Alone(c, i))
       PROVE  SlotIsSound(c, i)' /\ AnswersSample(c, i, x) /\ t.state = "sent"
  <2>1. "error" \notin DOMAIN s
    BY <1>1, <1>4, <1>5, <1>13 DEF SlotIsSound
  <2>2. PICK r : r = s.result
    OBVIOUS
  <2>3. s = [state |-> s.state, result |-> r] /\ EndOf(c, i, r)
    <3>1. s # [state |-> s.state, error |-> InvalidArgument]
      BY <2>1
    <3>2. s # [state |-> "new"] /\ s # [state |-> "waits"]
      BY <1>1, <1>5
    <3> QED BY <1>4, <1>5, <2>2, <3>1, <3>2 DEF SlotIsSound
  <2>4. t = [state |-> "sent", result |-> r]
    <3>1. PICK q : q = [state |-> s.state, result |-> r]
      OBVIOUS
    <3>2. [q EXCEPT !.state = "sent"] = [state |-> "sent", result |-> r]
      BY <3>1
    <3> QED BY <1>5, <2>3, <3>1, <3>2
  <2>5. SlotIsSound(c, i)'
    <3>1. t.state = "sent" /\ t.result = r /\ t = [state |-> t.state, result |-> t.result] /\ "error" \notin DOMAIN t
      BY <2>4
    <3>2. EndOf(c, i, r)'
      BY <1>2, <2>3, EndsStay
    <3>3. EndOf(c, i, slot[c][i].result)'
      BY <1>10, <3>1, <3>2 DEF EndOf
    <3> QED BY <1>1, <1>4, <1>10, <1>13, <3>1, <3>3 DEF SlotIsSound, Samples, IsBatch, Alone
  <2>6. AnswersSample(c, i, x)
    <3>1. PICK a : a = Alone(c, i)
      OBVIOUS
    <3>2. DOMAIN a = {1} /\ a[1] = Samples(c)[i]
      BY <3>1, ListOne DEF Alone
    <3>3. PICK context : context = sample_context_by_request_id(a)
      OBVIOUS
    <3>4. context[Samples(c)[i].request_id] =
                [batch_id |-> Samples(c)[i].batch_id, sample_index |-> Samples(c)[i].sample_index]
      <4>1. 1 \in DOMAIN a /\ \A j \in DOMAIN a : j = 1
        BY <3>2
      <4>2. PICK one \in DOMAIN a : one = 1
        BY <4>1
      <4>3. \A j \in DOMAIN a : a[j].request_id = a[one].request_id => j = one
        BY <4>1, <4>2
      <4>4. context[a[one].request_id] = [batch_id |-> a[one].batch_id, sample_index |-> a[one].sample_index]
        BY <3>3, <4>3, ContextOf
      <4> QED BY <3>2, <4>2, <4>4
    <3>5. x = episode_result_to_sample_result(r, context)
      BY <1>5, <1>6, <2>1, <2>2, <3>1, <3>3 DEF Item, Alone
    <3> QED BY <1>13, <2>3, <3>4, <3>5, Converted DEF AnswersSample
  <2> QED BY <2>4, <2>5, <2>6
<1>14. ASSUME ~IsAcceptable(Alone(c, i))
       PROVE  SlotIsSound(c, i)' /\ AnswersSample(c, i, x) /\ t.state = "sent"
  <2>1. "error" \in DOMAIN s
    BY <1>1, <1>4, <1>5, <1>14 DEF SlotIsSound
  <2>2. s = [state |-> s.state, error |-> InvalidArgument]
    <3>1. s # [state |-> "new"] /\ s # [state |-> "waits"] /\ s # [state |-> s.state, result |-> s.result]
      BY <1>1, <1>5, <2>1
    <3> QED BY <1>4, <1>5, <3>1 DEF SlotIsSound
  <2>3. t = [state |-> "sent", error |-> InvalidArgument]
    <3>1. PICK q : q = [state |-> s.state, error |-> InvalidArgument]
      OBVIOUS
    <3>2. [q EXCEPT !.state = "sent"] = [state |-> "sent", error |-> InvalidArgument]
      BY <3>1
    <3> QED BY <1>5, <2>2, <3>1, <3>2
  <2>4. SlotIsSound(c, i)'
    <3>1. t.state = "sent" /\ t = [state |-> t.state, error |-> InvalidArgument] /\ "error" \in DOMAIN t
      BY <2>3
    <3> QED BY <1>1, <1>4, <1>10, <1>14, <3>1 DEF SlotIsSound, Samples, IsBatch, Alone
  <2>5. s.error = InvalidArgument
    BY <2>2
  <2>6. x = [error |-> InvalidArgument]
    BY <1>5, <1>6, <2>1, <2>5 DEF Item
  <2>7. AnswersSample(c, i, x)
    BY <1>14, <2>6 DEF AnswersSample
  <2> QED BY <2>3, <2>4, <2>7
<1>15. t.state = "sent" /\ SlotIsSound(c, i)' /\ AnswersSample(c, i, x)
  BY <1>13, <1>14
<1>16. (\A j \in DOMAIN slot[c] : SlotIsSound(c, j))'
  <2> SUFFICES ASSUME NEW j \in DOMAIN slot[c], j # i PROVE SlotIsSound(c, j)'
    BY <1>10, <1>15
  <2>1. SlotIsSound(c, j)
    BY <1>1 DEF CallIsSound
  <2> QED BY <1>2, <1>10, <2>1, SlotStays
<1>17. Sent(c)' = Sent(c) \cup {i} /\ i \notin Sent(c)
  BY <1>1, <1>10, <1>15 DEF Sent
<1>18. Cardinality(Sent(c)') = Cardinality(Sent(c)) + 1
  BY <1>1, <1>17, SentIsFinite, FS_AddElement
<1>19. Items(c)' = Items(c) \cup {x}
  BY <1>1, <1>11 DEF Items
<1>20. StreamIsSound(c)'
  <2>1. (\A j \in Sent(c) : \E y \in Items(c) : AnswersSample(c, j, y))'
    <3> SUFFICES ASSUME NEW j \in Sent(c)' PROVE \E y \in Items(c)' : AnswersSample(c, j, y)'
      OBVIOUS
    <3>1. CASE j = i
      <4>1. AnswersSample(c, i, x)
        BY <1>15
      <4>2. AnswersSample(c, i, x)'
        BY <1>2, <4>1, EndsStay
      <4> QED BY <1>19, <3>1, <4>2
    <3>2. CASE j # i
      <4>1. j \in Sent(c) /\ Items(c) \subseteq Items(c)'
        BY <1>17, <1>19, <3>2
      <4> QED BY <1>2, <1>4, <4>1, ItemsStay
    <3> QED BY <3>1, <3>2
  <2>2. (Len(got[c]) + Len(chan[c]) = Cardinality(Sent(c)))'
    <3>1. Len(got[c]) \in Nat
      <4>1. PICK g, G : g = got[c] /\ G = Range(g)
        OBVIOUS
      <4>2. g \in Seq(G)
        BY <1>1, <4>1 DEF CoreTypes
      <4> QED BY <4>1, <4>2
    <3>2. Len(got[c]) + Len(chan[c]) = Cardinality(Sent(c))
      BY <1>4 DEF StreamIsSound
    <3>3. Len(got'[c]) = Len(got[c]) /\ Cardinality(Sent(c))' = Cardinality(Sent(c)) + 1
      BY <1>1, <1>18
    <3>4. PICK k : k = Cardinality(Sent(c))
      OBVIOUS
    <3>5. PICK m \in Nat, n \in Nat : m = Len(got[c]) /\ n = Len(chan[c])
      BY <1>11, <3>1
    <3>6. Len(got'[c]) = m /\ Len(chan'[c]) = n + 1 /\ m + n = k
      BY <1>11, <3>2, <3>3, <3>4, <3>5
    <3>7. m + (n + 1) = k + 1
      BY <3>6
    <3> QED BY <3>3, <3>4, <3>6, <3>7
  <2>3. (HasReceiver(c) => \A y \in Range(got[c]) : "error" \notin DOMAIN y)'
    BY <1>1, <1>4 DEF StreamIsSound, HasReceiver
  <2>4. (Len(slot[c]) = call[c].read /\ call[c].read <= Len(Samples(c)))'
    BY <1>1, <1>3, <1>4, <1>10 DEF StreamIsSound
  <2>5. ~Phase(c, "ended")' /\ (call[c].input = "done" => call[c].read = Len(Samples(c)))'
    BY <1>1, <1>3, <1>4 DEF Phase, StreamIsSound
  <2> QED BY <2>1, <2>2, <2>3, <2>4, <2>5 DEF StreamIsSound
<1>21. ~Phase(c, "running")' /\ ~Phase(c, "answered")'
  BY <1>1 DEF Phase
<1> QED BY <1>1, <1>2, <1>3, <1>12, <1>16, <1>20, <1>21 DEF CallIsSound

LEMMA ReadKeeps ==
    ASSUME CoreInv, NEW c \in Calls, ClientReads(c)
    PROVE  CoreKept /\ CoreTypes' /\ CallIsSound(c)'
<1>1. /\ CoreTypes /\ CallIsSound(c) /\ chan[c] # <<>> /\ HasReceiver(c)
      /\ got' = [got EXCEPT ![c] = Append(@, Head(chan[c]))] /\ chan' = [chan EXCEPT ![c] = Tail(@)]
      /\ pending' = pending /\ slot' = slot /\ submitted' = submitted /\ lifecycle' = lifecycle
  BY DEF CoreInv, ClientReads
<1>2. CoreKept
  BY <1>1 DEF CoreKept
<1>3. IsBatch(c)' = IsBatch(c) /\ Samples(c)' = Samples(c)
  BY DEF IsBatch, Samples
<1>4. ~IsBatch(c) /\ StreamIsSound(c) /\ (Phase(c, "streaming") \/ Phase(c, "ended"))
  BY <1>1 DEF CallIsSound, ClientReads, Streaming
<1>5. PICK x : x = Head(chan[c])
  OBVIOUS
<1>6. /\ chan[c] \in Seq(Range(chan[c])) /\ got[c] \in Seq(Range(got[c]))
      /\ got'[c] = Append(got[c], x) /\ chan'[c] = Tail(chan[c])
  BY <1>1, <1>5 DEF CoreTypes
<1>7. /\ Len(got[c]) \in Nat /\ got'[c] \in Seq(Range(got'[c])) /\ Len(got'[c]) = Len(got[c]) + 1
      /\ Range(got'[c]) = Range(got[c]) \cup {x}
  BY <1>6, ListAppend
<1>8. /\ Len(chan[c]) \in Nat /\ chan'[c] \in Seq(Range(chan'[c])) /\ Len(chan'[c]) = Len(chan[c]) - 1
      /\ Range(chan[c]) = {x} \cup Range(chan'[c])
  BY <1>1, <1>5, <1>6, ListTail
<1>9. Items(c)' = Items(c) /\ Sent(c)' = Sent(c) /\ Handles(c)' = Handles(c)
  BY <1>1, <1>7, <1>8 DEF Items, Sent, Handles
<1>10. /\ call' \in [Calls -> CallRecords] /\ call'[c].phase = call[c].phase /\ call'[c].read = call[c].read
       /\ call'[c].input = IF "error" \in DOMAIN x THEN "gone" ELSE call[c].input
  <2>1. CASE "error" \in DOMAIN x
    <3>1. call' = [call EXCEPT ![c].input = "gone"]
      BY <1>5, <2>1 DEF ClientReads
    <3> QED BY <1>1, <2>1, <3>1 DEF CoreTypes, CallRecords
  <2>2. CASE "error" \notin DOMAIN x
    BY <1>1, <1>5, <2>2 DEF ClientReads, CoreTypes
  <2> QED BY <2>1, <2>2
<1>11. CoreTypes'
  <2>1. got' = [d \in Calls |-> got'[d]] /\ \A d \in Calls : got'[d] \in Seq(Range(got'[d]))
    BY <1>1, <1>7 DEF CoreTypes
  <2>2. chan' = [d \in Calls |-> chan'[d]] /\ \A d \in Calls : chan'[d] \in Seq(Range(chan'[d]))
    BY <1>1, <1>8 DEF CoreTypes
  <2> QED BY <1>1, <1>10, <2>1, <2>2 DEF CoreTypes
<1>12. (\A i \in DOMAIN slot[c] : SlotIsSound(c, i))'
  BY <1>1, <1>2, SlotsStay DEF CallIsSound
<1>13. StreamIsSound(c)'
  <2>1. (\A j \in Sent(c) : \E y \in Items(c) : AnswersSample(c, j, y))'
    <3> SUFFICES ASSUME NEW j \in Sent(c) PROVE \E y \in Items(c)' : AnswersSample(c, j, y)'
      BY <1>9
    <3> QED BY <1>2, <1>4, <1>9, ItemsStay
  <2>2. (Len(got[c]) + Len(chan[c]) = Cardinality(Sent(c)))'
    <3>1. Len(got[c]) + Len(chan[c]) = Cardinality(Sent(c))
      BY <1>4 DEF StreamIsSound
    <3>2. Cardinality(Sent(c))' = Cardinality(Sent(c))
      BY <1>9
    <3>3. PICK k : k = Cardinality(Sent(c))
      OBVIOUS
    <3>4. PICK m \in Nat, n \in Nat : m = Len(got[c]) /\ n = Len(chan[c])
      BY <1>7, <1>8
    <3>5. Len(got'[c]) = m + 1 /\ Len(chan'[c]) = n - 1 /\ m + n = k
      BY <1>7, <1>8, <3>1, <3>3, <3>4
    <3>6. (m + 1) + (n - 1) = k
      BY <3>5
    <3> QED BY <3>2, <3>3, <3>5, <3>6
  <2>3. (HasReceiver(c) => \A y \in Range(got[c]) : "error" \notin DOMAIN y)'
    <3>1. \A y \in Range(got[c]) : "error" \notin DOMAIN y
      BY <1>1, <1>4 DEF StreamIsSound
    <3>2. call'[c].input # "gone" => "error" \notin DOMAIN x
      BY <1>10
    <3> QED BY <1>7, <3>1, <3>2 DEF HasReceiver
  <2>4. (Len(slot[c]) = call[c].read /\ call[c].read <= Len(Samples(c)))'
    BY <1>1, <1>3, <1>4, <1>10 DEF StreamIsSound
  <2>5. (call[c].input = "done" => call[c].read = Len(Samples(c)))'
    BY <1>3, <1>4, <1>10 DEF StreamIsSound
  <2>6. (Phase(c, "ended") /\ HasReceiver(c) => call[c].input = "done" /\ Handles(c) = {})'
    BY <1>1, <1>4, <1>9, <1>10 DEF Phase, HasReceiver, StreamIsSound
  <2> QED BY <2>1, <2>2, <2>3, <2>4, <2>5, <2>6 DEF StreamIsSound
<1>14. ~Phase(c, "running")' /\ ~Phase(c, "answered")'
  BY <1>4, <1>10 DEF Phase
<1> QED BY <1>2, <1>3, <1>4, <1>11, <1>12, <1>13, <1>14 DEF CallIsSound
-----------------------------------------------------------------------------
(* The steps that move a call and leave its samples alone.                 *)

LEMMA MoveKeeps ==
    ASSUME CoreInv, NEW c \in Calls, UNCHANGED <<slot, chan, got, submitted, lifecycle>>,
           pending' \in Int, call' \in [Calls -> CallRecords],
           call'[c].read = call[c].read,
           ~IsBatch(c) /\ call'[c].input = "done" => call[c].read = Len(Samples(c)),
           call'[c].input # "gone" => call[c].input # "gone",
           IsBatch(c) => call'[c].phase \notin {"streaming", "ended", "running", "answered"},
           ~IsBatch(c) => /\ call'[c].phase \notin {"running", "answered"}
                          /\ call'[c].phase = "ended" /\ call'[c].input # "gone"
                                => call'[c].input = "done" /\ Handles(c) = {}
    PROVE  CoreKept /\ CoreTypes' /\ CallIsSound(c)'
<1>1. CoreKept
  BY DEF CoreKept
<1>2. CoreTypes /\ CallIsSound(c)
  BY DEF CoreInv
<1>3. CoreTypes'
  BY <1>2 DEF CoreTypes
<1>4. CallIsSound(c)'
  BY <1>1, <1>2, CallMoves
<1> QED BY <1>1, <1>3, <1>4

\* What a phase does to the record of the call.
LEMMA PhaseOf ==
    ASSUME CoreTypes, NEW c \in Calls, NEW p \in CallPhases, Go(c, p)
    PROVE  /\ call' \in [Calls -> CallRecords]
           /\ call'[c].phase = p /\ call'[c].read = call[c].read /\ call'[c].input = call[c].input
BY DEF CoreTypes, Go, CallRecords

LEMMA InputOf ==
    ASSUME CoreTypes, NEW c \in Calls, NEW v \in {"open", "done", "gone"},
           call' = [call EXCEPT ![c].input = v]
    PROVE  /\ call' \in [Calls -> CallRecords]
           /\ call'[c].phase = call[c].phase /\ call'[c].read = call[c].read /\ call'[c].input = v
BY DEF CoreTypes, CallRecords

LEMMA PhasesKeep ==
    ASSUME CoreInv, NEW c \in Calls,
           Refuses(c) \/ StreamBegins(c) \/ BatchDropped(c) \/ StreamEnds(c)
             \/ (Streaming(c) /\ ~HasReceiver(c) /\ Go(c, "gone") /\ GuardDropped
                   /\ UNCHANGED <<slot, chan, got, submitted, lifecycle>>)
    PROVE  CoreKept /\ CoreTypes' /\ CallIsSound(c)'
<1>1. CoreTypes /\ CallIsSound(c) /\ pending \in Int
  BY DEF CoreInv, CoreTypes
<1>2. UNCHANGED <<slot, chan, got, submitted, lifecycle>> /\ pending' \in Int
  BY <1>1 DEF Refuses, StreamBegins, BatchDropped, StreamEnds, GuardDropped
<1>3. ~IsBatch(c) /\ call[c].input = "done" => call[c].read = Len(Samples(c))
  BY <1>1 DEF CallIsSound, StreamIsSound
<1>4. PICK p \in {"refused", "streaming", "gone", "ended"} :
         /\ Go(c, p)
         /\ p \in {"streaming", "ended"} => ~IsBatch(c)
         /\ p = "ended" /\ call[c].input # "gone" => call[c].input # "open" /\ Handles(c) = {}
  <2>1. CASE Refuses(c)
    BY <2>1 DEF Refuses
  <2>2. CASE StreamBegins(c)
    BY <2>2 DEF StreamBegins
  <2>3. CASE BatchDropped(c)
    BY <2>3 DEF BatchDropped
  <2>4. CASE StreamEnds(c) /\ HasReceiver(c)
    BY <2>4 DEF StreamEnds, Streaming
  <2>5. CASE StreamEnds(c) /\ ~HasReceiver(c)
    BY <2>5 DEF StreamEnds, Streaming
  <2>6. CASE Go(c, "gone")
    BY <2>6
  <2> QED BY <2>1, <2>2, <2>3, <2>4, <2>5, <2>6
<1>5. /\ call' \in [Calls -> CallRecords]
      /\ call'[c].phase = p /\ call'[c].read = call[c].read /\ call'[c].input = call[c].input
  <2>1. p \in CallPhases /\ Go(c, p)
    BY <1>4 DEF CallPhases
  <2> QED BY <1>1, <2>1, PhaseOf
<1>6. call[c].input \in {"open", "done", "gone"}
  BY <1>1 DEF CoreTypes, CallRecords
<1>7. IsBatch(c) => call'[c].phase \notin {"streaming", "ended", "running", "answered"}
  BY <1>4, <1>5
<1>8. ~IsBatch(c) => /\ call'[c].phase \notin {"running", "answered"}
                     /\ call'[c].phase = "ended" /\ call'[c].input # "gone"
                           => call'[c].input = "done" /\ Handles(c) = {}
  BY <1>4, <1>5, <1>6
<1>9. ~IsBatch(c) /\ call'[c].input = "done" => call[c].read = Len(Samples(c))
  BY <1>3, <1>5
<1> QED BY <1>2, <1>5, <1>7, <1>8, <1>9, MoveKeeps

LEMMA EnterKeeps ==
    ASSUME CoreInv, NEW c \in Calls, Enter(c)
    PROVE  CoreKept /\ CoreTypes' /\ CallIsSound(c)'
<1>1. CoreTypes /\ CallIsSound(c) /\ pending' = pending + 1 /\ pending \in Int
      /\ call' = [call EXCEPT ![c].phase = "counted", ![c].seen = pending + 1]
      /\ UNCHANGED <<slot, chan, got, submitted, lifecycle>>
  BY DEF CoreInv, CoreTypes, Enter
<1>2. ~IsBatch(c) /\ call[c].input = "done" => call[c].read = Len(Samples(c))
  BY <1>1 DEF CallIsSound, StreamIsSound
<1>3. PICK r \in CallRecords : r = call[c]
  BY <1>1 DEF CoreTypes
<1>4. r = [phase |-> r.phase, seen |-> r.seen, read |-> r.read, input |-> r.input]
  BY <1>3 DEF CallRecords
<1>5. PICK q : q = [phase |-> "counted", seen |-> pending + 1, read |-> r.read, input |-> r.input]
  OBVIOUS
<1>6. q \in CallRecords /\ q.phase = "counted" /\ q.read = r.read /\ q.input = r.input
  BY <1>1, <1>3, <1>5 DEF CallRecords, CallPhases
<1>7. [[r EXCEPT !.phase = "counted"] EXCEPT !.seen = pending + 1] = q
  <2>1. PICK t : t = [r EXCEPT !.phase = "counted"]
    OBVIOUS
  <2>2. t = [phase |-> "counted", seen |-> r.seen, read |-> r.read, input |-> r.input]
    BY <1>4, <2>1
  <2>3. [t EXCEPT !.seen = pending + 1] = q
    BY <1>5, <2>2
  <2> QED BY <2>1, <2>3
<1>8. call'[c] = q /\ call' = [call EXCEPT ![c] = q]
  BY <1>1, <1>3, <1>7 DEF CoreTypes
<1>9. call' \in [Calls -> CallRecords]
  BY <1>1, <1>6, <1>8 DEF CoreTypes
<1> QED BY <1>1, <1>2, <1>3, <1>6, <1>8, <1>9, MoveKeeps

LEMMA InputsKeep ==
    ASSUME CoreInv, NEW c \in Calls, StreamInputDone(c) \/ StreamAbandoned(c)
    PROVE  CoreKept /\ CoreTypes' /\ CallIsSound(c)'
<1>1. CoreTypes /\ CallIsSound(c) /\ pending' \in Int /\ UNCHANGED <<slot, chan, got, submitted, lifecycle>>
      /\ ~IsBatch(c) /\ call[c].phase = "streaming"
  BY DEF CoreInv, CoreTypes, StreamInputDone, StreamAbandoned, Streaming, Phase
<1>2. PICK v \in {"done", "gone"} :
         /\ call' = [call EXCEPT ![c].input = v]
         /\ v = "done" => call[c].read = Len(Samples(c)) /\ call[c].input = "open"
  <2>1. CASE StreamInputDone(c)
    BY <2>1 DEF StreamInputDone
  <2>2. CASE StreamAbandoned(c)
    BY <2>2 DEF StreamAbandoned
  <2> QED BY <2>1, <2>2
<1>3. /\ call' \in [Calls -> CallRecords]
      /\ call'[c].phase = call[c].phase /\ call'[c].read = call[c].read /\ call'[c].input = v
  BY <1>1, <1>2, InputOf
<1> QED BY <1>1, <1>2, <1>3, MoveKeeps

-----------------------------------------------------------------------------
(* Every step.                                                             *)

CallStep(c) ==
    \/ Enter(c) \/ Refuses(c) \/ BatchBegins(c) \/ StreamBegins(c) \/ execute_batch(c)
    \/ BatchDropped(c) \/ StreamReads(c) \/ StreamInputDone(c) \/ StreamJoins(c)
    \/ StreamEnds(c) \/ ClientReads(c) \/ StreamAbandoned(c)
    \/ \E i \in DOMAIN slot[c] : submit_sample(c, i) \/ SubmitReturns(c, i)

LEMMA CallKeeps ==
    ASSUME CoreConstants, CoreInv, NEW c \in Calls, CallStep(c)
    PROVE  CoreKept /\ CoreTypes' /\ CallIsSound(c)'
<1>1. CASE StreamJoins(c)
  <2>1. PICK i \in Handles(c) :
           /\ Streaming(c) /\ slot[c][i].state = "done"
           /\ IF HasReceiver(c)
              THEN /\ chan' = [chan EXCEPT ![c] = Append(@, Item(c, i))]
                   /\ slot' = [slot EXCEPT ![c][i].state = "sent"]
                   /\ UNCHANGED <<call, pending>>
              ELSE Go(c, "gone") /\ GuardDropped /\ UNCHANGED <<slot, chan>>
           /\ UNCHANGED <<got, submitted, lifecycle>>
    BY <1>1 DEF StreamJoins
  <2>2. CASE HasReceiver(c)
    <3>1. JoinsReceived(c, i)
      BY <2>1, <2>2 DEF JoinsReceived
    <3> QED BY <3>1, JoinsKeeps
  <2>3. CASE ~HasReceiver(c)
    BY <2>1, <2>3, PhasesKeep
  <2> QED BY <2>2, <2>3
<1>2. CASE Refuses(c) \/ StreamBegins(c) \/ BatchDropped(c) \/ StreamEnds(c)
  BY <1>2, PhasesKeep
<1>3. CASE StreamInputDone(c) \/ StreamAbandoned(c)
  BY <1>3, InputsKeep
<1>4. CASE Enter(c)
  BY <1>4, EnterKeeps
<1>5. CASE BatchBegins(c)
  BY <1>5, BatchBeginsKeeps
<1>6. CASE execute_batch(c)
  BY <1>6, ExecuteKeeps
<1>7. CASE StreamReads(c)
  BY <1>7, StreamReadsKeeps
<1>8. CASE ClientReads(c)
  BY <1>8, ReadKeeps
<1>9. CASE \E i \in DOMAIN slot[c] : submit_sample(c, i) \/ SubmitReturns(c, i)
  BY <1>9, SubmitKeeps, ReturnKeeps
<1> QED BY <1>1, <1>2, <1>3, <1>4, <1>5, <1>6, <1>7, <1>8, <1>9 DEF CallStep

\* A call has nothing to do with the others but the server's episodes.
LEMMA OthersStay ==
    ASSUME CoreTypes, NEW c \in Calls, CallStep(c), NEW d \in Calls \ {c}
    PROVE  slot'[d] = slot[d] /\ chan'[d] = chan[d] /\ got'[d] = got[d] /\ call'[d] = call[d]
<1>1. CASE Enter(c) \/ Refuses(c) \/ StreamBegins(c) \/ BatchDropped(c) \/ StreamEnds(c)
  BY <1>1 DEF CoreTypes, Enter, Refuses, StreamBegins, BatchDropped, StreamEnds, Go
<1>2. CASE BatchBegins(c)
  BY <1>2 DEF CoreTypes, BatchBegins, Go
<1>3. CASE execute_batch(c)
  BY <1>3 DEF CoreTypes, execute_batch, Go
<1>4. CASE StreamReads(c) \/ StreamInputDone(c) \/ StreamAbandoned(c)
  BY <1>4 DEF CoreTypes, StreamReads, StreamInputDone, StreamAbandoned
<1>5. CASE StreamJoins(c)
  BY <1>5 DEF CoreTypes, StreamJoins, Go
<1>6. CASE ClientReads(c)
  BY <1>6 DEF CoreTypes, ClientReads
<1>7. CASE \E i \in DOMAIN slot[c] : submit_sample(c, i) \/ SubmitReturns(c, i)
  BY <1>7 DEF CoreTypes, submit_sample, SubmitReturns, Put
<1> QED BY <1>1, <1>2, <1>3, <1>4, <1>5, <1>6, <1>7 DEF CallStep

LEMMA CoreStep ==
    ASSUME CoreConstants, CoreInv, [CoreNext]_coreVars
    PROVE  CoreInv'
<1>1. CASE \E c \in Calls : CallStep(c)
  <2>1. PICK c \in Calls : CallStep(c)
    BY <1>1
  <2>2. CoreKept /\ CoreTypes' /\ CallIsSound(c)'
    BY <2>1, CallKeeps
  <2>3. ASSUME NEW d \in Calls \ {c} PROVE CallIsSound(d)'
    <3>1. slot'[d] = slot[d] /\ chan'[d] = chan[d] /\ got'[d] = got[d] /\ call'[d] = call[d]
      BY <2>1, OthersStay DEF CoreInv
    <3> QED BY <2>2, <3>1, Bystander DEF CoreInv
  <2> QED BY <2>2, <2>3 DEF CoreInv
<1>2. CASE \E id \in DOMAIN submitted : EpisodeEnds(id)
  <2>1. PICK id \in DOMAIN submitted : EpisodeEnds(id)
    BY <1>2
  <2>2. CoreKept /\ CoreTypes'
    BY <2>1, EpisodeEndsKeeps
  <2>3. slot' = slot /\ chan' = chan /\ got' = got /\ call' = call
    BY <2>1 DEF EpisodeEnds
  <2>4. ASSUME NEW d \in Calls PROVE CallIsSound(d)'
    BY <2>2, <2>3, Bystander DEF CoreInv
  <2> QED BY <2>2, <2>4 DEF CoreInv
<1>3. CASE begin_shutdown \/ Checkpoint \/ UNCHANGED coreVars
  <2>1. /\ slot' = slot /\ chan' = chan /\ got' = got /\ call' = call /\ pending' = pending /\ submitted' = submitted
        /\ lifecycle # "up" => lifecycle' # "up"
    BY <1>3 DEF begin_shutdown, Checkpoint, coreVars
  <2>2. CoreKept
    BY <2>1 DEF CoreKept
  <2>3. CoreTypes'
    BY <2>1 DEF CoreInv, CoreTypes
  <2>4. ASSUME NEW d \in Calls PROVE CallIsSound(d)'
    BY <2>1, <2>2, Bystander DEF CoreInv
  <2> QED BY <2>3, <2>4 DEF CoreInv
<1> QED BY <1>1, <1>2, <1>3 DEF CoreNext, CallStep

LEMMA InitCore == ASSUME CoreConstants, CoreInit PROVE CoreInv
<1>1. CoreTypes
  <2>1. call \in [Calls -> CallRecords]
    BY DEF CoreInit, CallRecords, CallPhases
  <2>2. \A c \in Calls : slot[c] = <<>> /\ chan[c] = <<>> /\ got[c] = <<>>
    BY DEF CoreInit
  <2>3. DOMAIN submitted = {}
    BY ListEmpty DEF CoreInit
  <2> QED BY <2>1, <2>2, <2>3, ListEmpty DEF CoreInit, CoreTypes
<1>2. ASSUME NEW c \in Calls PROVE CallIsSound(c)
  <2>1. slot[c] = <<>> /\ chan[c] = <<>> /\ got[c] = <<>> /\ call[c].read = 0
        /\ call[c].phase = "idle" /\ call[c].input = "open"
    BY DEF CoreInit
  <2>2. Sent(c) = {} /\ Items(c) = {} /\ DOMAIN slot[c] = {}
    BY <2>1, ListEmpty DEF Sent, Items
  <2>3. StreamIsSound(c)
    <3>1. Cardinality(Sent(c)) = 0
      BY <2>2, FS_EmptySet
    <3>2. 0 <= Len(Samples(c))
      BY SamplesList
    <3>3. Len(slot[c]) = 0 /\ Len(got[c]) = 0 /\ Len(chan[c]) = 0 /\ Range(got[c]) = {}
      BY <2>1, ListEmpty
    <3> QED BY <2>1, <2>2, <3>1, <3>2, <3>3 DEF StreamIsSound, Phase
  <2> QED BY <2>1, <2>2, <2>3 DEF CallIsSound, BatchIsSound, Phase
<1> QED BY <1>1, <1>2 DEF CoreInv

LEMMA CoreAlways == ASSUME CoreConstants PROVE CoreSpec => []CoreInv
<1>1. CoreInit => CoreInv
  BY InitCore
<1>2. CoreInv /\ [CoreNext]_coreVars => CoreInv'
  BY CoreStep
<1> QED BY <1>1, <1>2, PTL DEF CoreSpec

LEMMA CoreAnswers == ASSUME CoreConstants, CoreInv PROVE AnsweredInFull
<1>1. AnsweredInOrder
  <2> SUFFICES ASSUME NEW c \in Calls, IsBatch(c), Phase(c, "answered")
               PROVE  IF IsAcceptable(Samples(c))
                      THEN /\ Len(got[c]) = Len(Samples(c))
                           /\ \A i \in DOMAIN got[c] : ResultOf(c, i, got[c][i])
                      ELSE got[c] = <<[error |-> InvalidArgument]>>
    BY DEF AnsweredInOrder
  <2> QED BY DEF CoreInv, CallIsSound, BatchIsSound, Settles
<1>2. StreamAnswersAll
  <2> SUFFICES ASSUME NEW c \in Calls, Phase(c, "ended"), chan[c] = <<>>, HasReceiver(c)
               PROVE  /\ Len(got[c]) = Len(Samples(c))
                      /\ \A i \in DOMAIN Samples(c) : \E j \in DOMAIN got[c] : ResultOf(c, i, got[c][j])
    BY DEF StreamAnswersAll
  <2>1. CoreTypes /\ ~IsBatch(c) /\ StreamIsSound(c)
    BY DEF CoreInv, CallIsSound
  <2>2. PICK n \in Nat : n = Len(Samples(c)) /\ DOMAIN Samples(c) = 1 .. n
    BY SamplesList
  <2>3. Len(slot[c]) = n /\ Handles(c) = {}
    BY <2>1, <2>2 DEF StreamIsSound
  <2>4. DOMAIN slot[c] = 1 .. n
    <3>1. PICK s, S : s = slot[c] /\ S = Range(s)
      OBVIOUS
    <3>2. s \in Seq(S)
      BY <2>1, <3>1 DEF CoreTypes
    <3> QED BY <2>3, <3>1, <3>2
  <2>5. Sent(c) = 1 .. n
    BY <2>3, <2>4 DEF Sent, Handles
  <2>6. Cardinality(Sent(c)) = n
    BY <2>5, FS_Interval
  <2>7. Len(chan[c]) = 0 /\ Items(c) = Range(got[c])
    BY ListEmpty DEF Items
  <2>8. Len(got[c]) = n
    <3>1. Len(got[c]) + Len(chan[c]) = Cardinality(Sent(c))
      BY <2>1 DEF StreamIsSound
    <3>2. PICK g, G : g = got[c] /\ G = Range(g)
      OBVIOUS
    <3>3. g \in Seq(G)
      BY <2>1, <3>2 DEF CoreTypes
    <3>4. PICK m \in Nat : m = Len(got[c])
      BY <3>2, <3>3
    <3> QED BY <2>6, <2>7, <3>1, <3>4
  <2>9. ASSUME NEW i \in 1 .. n PROVE \E j \in DOMAIN got[c] : ResultOf(c, i, got[c][j])
    <3>1. PICK x \in Range(got[c]) : AnswersSample(c, i, x)
      BY <2>1, <2>5, <2>7 DEF StreamIsSound
    <3>2. "error" \notin DOMAIN x
      BY <2>1 DEF StreamIsSound
    <3>3. x # [error |-> InvalidArgument]
      BY <3>2
    <3>4. ResultOf(c, i, x)
      BY <3>1, <3>3 DEF AnswersSample, Settles
    <3>5. PICK j \in DOMAIN got[c] : x = got[c][j]
      BY DEF Range
    <3> QED BY <3>4, <3>5
  <2> QED BY <2>2, <2>8, <2>9
<1> QED BY <1>1, <1>2 DEF AnsweredInFull

\* No call of the bridge that ends well is short of an answer: the results of
\* a batch are those of its samples, in their order, however the server
\* repeats, refuses or fails the episodes and whoever else asks for them, and
\* a stream's client has one for each sample (core.rs, service.rs).
THEOREM NoSampleLost == ASSUME CoreConstants PROVE CoreSpec => []AnsweredInFull
<1>1. CoreInv => AnsweredInFull
  BY CoreAnswers
<1> QED BY <1>1, CoreAlways, PTL

=============================================================================
