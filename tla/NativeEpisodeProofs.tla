------------------------ MODULE NativeEpisodeProofs ------------------------
(***************************************************************************)
(* Proofs about NativeEpisode, for every number of clients, report calls,  *)
(* leases, attempts, crashes and store faults.  The inductive invariant is *)
(*     Shape     types, and what a task or a handler in progress refers to *)
(*     Durable   the store knows of an accepted report before memory and   *)
(*               the worker do                                             *)
(*     Waits     the entries of pending_results and who has taken them     *)
(*     RecoveryWaitsForLatest                                              *)
(*     Answered  only durable results reach the callers (this one if no    *)
(*               worker is superseded under a recovered wait).             *)
(* Each part has a step lemma that uses the parts before it.               *)
(***************************************************************************)
EXTENDS NativeEpisode, TLAPS

\* While a task looks after a lease the lease is a real one, and its attempt is
\* one of the allowed ones.
OwnerShape ==
    /\ owner.phase \in {"queued", "scheduling"} => owner.attempt >= 1
    /\ owner.phase \in Awaiting => owner.lease \in Leases /\ owner.attempt \in 1..MaxAttempts

\* A handler in progress has the lease of a report.
HandlerShape ==
    \A h \in Handlers : handler[h].phase # "idle" => handler[h].lease \in Leases

Shape == TypeOK /\ OwnerShape /\ HandlerShape

-----------------------------------------------------------------------------
(***************************************************************************)
(* Types of the parts.                                                     *)
(***************************************************************************)

\* The results the server and the workers make are results.
LEMMA ResultTypes ==
    /\ NoResult \in MaybeResult
    /\ \A k \in ServerKinds : ServerResult(k) \in MaybeResult
    /\ \A l \in Leases : WorkerResult(l) \in MaybeResult
BY BoundsTypes DEF NoResult, MaybeResult, Results, ServerResult, WorkerResult,
                   ServerKinds, Leases

\* A step of a SubmitEpisode call keeps the table of calls well typed.
LEMMA SetClientType ==
    ASSUME client \in [Clients -> ClientRecord], NEW c \in Clients,
           NEW p \in {"idle", "looked", "waiting"}, NEW r \in MaybeResult,
           SetClient(c, p, r)
    PROVE  client' \in [Clients -> ClientRecord]
BY DEF SetClient, ClientRecord

\* So does answering the calls attached to an entry.
LEMMA AnswerWaitingType ==
    ASSUME client \in [Clients -> ClientRecord], NEW r \in MaybeResult, AnswerWaiting(r)
    PROVE  client' \in [Clients -> ClientRecord]
<1> [phase |-> "idle", result |-> r] \in ClientRecord
  BY DEF ClientRecord
<1> QED BY DEF AnswerWaiting

HandlersOK == handler \in [Handlers -> HandlerRecord] /\ HandlerShape

\* A handler that goes on keeps its lease, one that ends has none.
LEMMA SetHandlerType ==
    ASSUME HandlersOK, NEW h \in Handlers, handler[h].phase # "idle",
           NEW p \in {"idle", "check", "remove", "lookup", "commit", "send", "orphan"},
           SetHandler(h, p)
    PROVE  HandlersOK'
<1>1. handler' \in [Handlers -> HandlerRecord]
  BY DEF HandlersOK, HandlerRecord, SetHandler
<1>2. HandlerShape'
  BY <1>1 DEF HandlersOK, HandlerRecord, HandlerShape, SetHandler, Leases
<1> QED BY <1>1, <1>2 DEF HandlersOK

\* A handler that ends keeps the table of handlers well typed.
LEMMA HandlerEndsType ==
    ASSUME HandlersOK, NEW h \in Handlers, HandlerEnds(h)
    PROVE  HandlersOK'
<1>1. IdleHandler \in HandlerRecord /\ IdleHandler.phase = "idle"
  BY BoundsTypes DEF IdleHandler, HandlerRecord
<1> QED BY <1>1 DEF HandlersOK, HandlerShape, HandlerEnds, Leases

\* Deleting a log record, or not, keeps the workers' variables well typed.
LEMMA ReplyType ==
    ASSUME wal \subseteq Leases, dropped \in [Leases -> {"no", "ack", "duplicate"}],
           NEW l \in Leases, NEW why \in {"ack", "duplicate"}, Reply(l, why)
    PROVE  wal' \subseteq Leases /\ dropped' \in [Leases -> {"no", "ack", "duplicate"}]
BY DEF Reply

\* The record of a task that starts, ends or is rebuilt.
LEMMA OwnerTypes ==
    /\ NoOwner \in OwnerRecord /\ NoOwner.phase = "none"
    /\ FreshOwner \in OwnerRecord /\ FreshOwner.phase = "queued" /\ FreshOwner.attempt = 1
BY BoundsTypes, ResultTypes DEF NoOwner, FreshOwner, OwnerRecord, OwnerPhases

\* A retry keeps the record well typed.
LEMMA RetryType ==
    ASSUME owner \in OwnerRecord, NEW a \in 0..(MaxAttempts + 1), OwnerRetries(a)
    PROVE  owner' \in OwnerRecord /\ owner'.phase = "scheduling" /\ owner'.attempt = a
BY DEF OwnerRecord, OwnerPhases, OwnerRetries

\* So does a new lease.
LEMMA LeaseType ==
    ASSUME owner \in OwnerRecord, NEW l \in 0..MaxLeases,
           owner' = [owner EXCEPT !.phase = "intent", !.lease = l]
    PROVE  /\ owner' \in OwnerRecord /\ owner'.phase = "intent" /\ owner'.lease = l
           /\ owner'.attempt = owner.attempt
BY DEF OwnerRecord, OwnerPhases

-----------------------------------------------------------------------------
\* Every step keeps the types and what tasks and handlers refer to.
LEMMA ShapeStep == Shape /\ [Next]_episodeVars => Shape'
<1> SUFFICES ASSUME Shape, [Next]_episodeVars PROVE Shape'
  OBVIOUS
<1> USE BoundsTypes, ResultTypes DEF Shape, TypeOK, OwnerShape, HandlerShape, Leases,
        ServerKinds, OwnerPhases, Awaiting, Recovering, OwnerRecord, storeVars,
        serviceVars, waitVars, workerVars, boundVars
<1>1. CASE ClientNext
  <2>1. ASSUME NEW c \in Clients, ClientLookup(c) PROVE Shape'
    <3>1. client' \in [Clients -> ClientRecord]
      BY <2>1, SetClientType DEF ClientLookup
    <3> QED BY <2>1, <3>1 DEF ClientLookup
  <2>2. ASSUME NEW c \in Clients, ClientRefused(c) PROVE Shape'
    <3>1. client' \in [Clients -> ClientRecord]
      BY <2>2, SetClientType DEF ClientRefused
    <3> QED BY <2>2, <3>1 DEF ClientRefused
  <2>3. ASSUME NEW c \in Clients, ClientAttach(c) PROVE Shape'
    <3>1. client' \in [Clients -> ClientRecord]
      BY <2>3, SetClientType DEF ClientAttach
    <3>2. owner' = FreshOwner \/ owner' = owner
      BY <2>3 DEF ClientAttach
    <3>3. owner' \in OwnerRecord /\ OwnerShape'
      BY <3>2, OwnerTypes
    <3> QED BY <2>3, <3>1, <3>3 DEF ClientAttach
  <2>4. ASSUME NEW c \in Clients, ClientGone(c) PROVE Shape'
    <3>1. client' \in [Clients -> ClientRecord]
      BY <2>4, SetClientType DEF ClientGone
    <3> QED BY <2>4, <3>1 DEF ClientGone
  <2> QED BY <1>1, <2>1, <2>2, <2>3, <2>4 DEF ClientNext
<1>2. CASE OwnerNext
  <2>1. CASE OwnerAdmitted
    BY <2>1 DEF OwnerAdmitted, OwnerTo
  <2>2. CASE OwnerGivesUp
    BY <2>2 DEF OwnerGivesUp, OwnerEnds
  <2>3. CASE OwnerReserve
    <3>1. issued + 1 \in 1..MaxLeases /\ issued + 1 \in 0..MaxLeases
      BY <2>3 DEF OwnerReserve
    <3>a. owner.attempt \in 1..MaxAttempts
      BY <2>3 DEF OwnerReserve
    <3>b. /\ owner' \in OwnerRecord /\ owner'.phase = "intent"
          /\ owner'.lease = issued + 1 /\ owner'.attempt = owner.attempt
      BY <2>3, <3>1, LeaseType DEF OwnerReserve
    <3>2. owner' \in OwnerRecord /\ OwnerShape'
      BY <3>1, <3>a, <3>b
    <3>3. issued' \in 0..MaxLeases /\ pending' \subseteq Leases
      BY <2>3, <3>1 DEF OwnerReserve
    <3>4. chan' \in [Leases -> {"open", "result", "superseded", "closed"}]
      BY <2>3 DEF OwnerReserve
    <3> QED BY <2>3, <3>2, <3>3, <3>4 DEF OwnerReserve
  <2>4. CASE PutDispatchIntent
    <3>0. owner.attempt \in 0..MaxAttempts
      BY <2>4 DEF PutDispatchIntent
    <3>1. dispatch' \in [Leases -> 0..MaxAttempts]
      BY <2>4, <3>0 DEF PutDispatchIntent
    <3>2. owner' \in OwnerRecord /\ OwnerShape'
      BY <2>4 DEF PutDispatchIntent, OwnerTo, OwnerEnds
    <3>3. up' \in BOOLEAN /\ ready' \in BOOLEAN /\ healthy' \in BOOLEAN
      BY <2>4 DEF PutDispatchIntent, Unhealthy
    <3> QED BY <2>4, <3>1, <3>2, <3>3 DEF PutDispatchIntent, ForgetLease
  <2>5. CASE OwnerDeadline
    BY <2>5 DEF OwnerDeadline, InSelect, ForgetLease, OwnerEnds
  <2>6. CASE OwnerSeesCancel
    BY <2>6 DEF OwnerSeesCancel, InSelect, OwnerTo
  <2>7. CASE OwnerCancelNotified
    BY <2>7 DEF OwnerCancelNotified, ForgetLease, OwnerEnds
  <2>8. CASE OwnerReceives
    BY <2>8 DEF OwnerReceives, InSelect, Received
  <2>9. CASE OwnerChannelClosed
    <3>1. owner.attempt + 1 \in 0..(MaxAttempts + 1) /\ owner.attempt + 1 >= 1
      BY <2>9 DEF OwnerChannelClosed, InSelect
    <3>2. CASE OwnerRetries(owner.attempt + 1)
      <4>1. owner' \in OwnerRecord /\ owner'.phase = "scheduling" /\ owner'.attempt >= 1
        BY <3>1, <3>2, RetryType
      <4> QED BY <2>9, <4>1 DEF OwnerChannelClosed, ForgetLease
    <3>3. CASE OwnerEnds("cancelled")
      BY <2>9, <3>3 DEF OwnerChannelClosed, OwnerEnds, ForgetLease
    <3> QED BY <2>9, <3>2, <3>3 DEF OwnerChannelClosed
  <2>10. CASE OwnerDispatchError
    <3>1. owner.attempt + 1 \in 0..(MaxAttempts + 1) /\ owner.attempt + 1 >= 1
      BY <2>10 DEF OwnerDispatchError
    <3>2. owner' \in OwnerRecord /\ owner'.phase = "scheduling" /\ owner'.attempt >= 1
      BY <2>10, <3>1, RetryType DEF OwnerDispatchError
    <3> QED BY <2>10, <3>2 DEF OwnerDispatchError, ForgetLease
  <2>11. CASE OwnerDispatchFatal
    BY <2>11 DEF OwnerDispatchFatal, ForgetLease, OwnerEnds
  <2>12. CASE OwnerSlotFull
    <3>1. owner.attempt \in 0..(MaxAttempts + 1) /\ owner.attempt >= 1
      BY <2>12 DEF OwnerSlotFull
    <3>2. owner' \in OwnerRecord /\ owner'.phase = "scheduling" /\ owner'.attempt >= 1
      BY <2>12, <3>1, RetryType DEF OwnerSlotFull
    <3> QED BY <2>12, <3>2 DEF OwnerSlotFull, ForgetLease
  <2>13. CASE OwnerDispatchDone
    BY <2>13 DEF OwnerDispatchDone, OwnerTo
  <2>14. CASE OwnerCommit
    BY <2>14 DEF OwnerCommit, CommitOutcome, Commits, Unhealthy
  <2>15. CASE OwnerFinish
    <3>1. client' \in [Clients -> ClientRecord]
      BY <2>15, AnswerWaitingType DEF OwnerFinish
    <3>2. owner' \in OwnerRecord /\ OwnerShape'
      BY <2>15, OwnerTypes DEF OwnerFinish
    <3> QED BY <2>15, <3>1, <3>2 DEF OwnerFinish
  <2>16. CASE RecoveredReceives
    BY <2>16 DEF RecoveredReceives, Received
  <2>17. CASE RecoveredClosed
    BY <2>17 DEF RecoveredClosed, OwnerTo
  <2>18. CASE RecoveredDeadline
    BY <2>18 DEF RecoveredDeadline
  <2>19. CASE RecoveredCommit
    BY <2>19 DEF RecoveredCommit, CommitOutcome, Commits, Unhealthy
  <2>20. CASE RecoveredFinish
    <3>1. client' \in [Clients -> ClientRecord]
      BY <2>20, AnswerWaitingType DEF RecoveredFinish
    <3>2. owner' \in OwnerRecord /\ OwnerShape'
      BY <2>20, OwnerTypes DEF RecoveredFinish
    <3> QED BY <2>20, <3>1, <3>2 DEF RecoveredFinish, ForgetLease
  <2> QED BY <1>2, <2>1, <2>2, <2>3, <2>4, <2>5, <2>6, <2>7, <2>8, <2>9,
         <2>10, <2>11, <2>12, <2>13, <2>14, <2>15, <2>16, <2>17, <2>18, <2>19,
         <2>20 DEF OwnerNext
<1>3. CASE ReportNext
  <2>1. ASSUME NEW h \in Handlers, NEW l \in Leases, ReportBegin(h, l) PROVE Shape'
    <3>1. [phase |-> "check", lease |-> l] \in HandlerRecord
      BY DEF HandlerRecord
    <3>2. HandlersOK'
      BY <2>1, <3>1 DEF ReportBegin, HandlersOK
    <3> QED BY <2>1, <3>2 DEF ReportBegin, HandlersOK
  <2>2. ASSUME NEW h \in Handlers, ReportCheck(h) PROVE Shape'
    <3>1. HandlersOK'
      BY <2>2, SetHandlerType, HandlerEndsType DEF ReportCheck, HandlersOK
    <3>2. wal' \subseteq Leases /\ dropped' \in [Leases -> {"no", "ack", "duplicate"}]
      BY <2>2, ReplyType DEF ReportCheck
    <3> QED BY <2>2, <3>1, <3>2 DEF ReportCheck, HandlersOK, Unhealthy
  <2>3. ASSUME NEW h \in Handlers, ReportRemove(h) PROVE Shape'
    <3>1. HandlersOK'
      BY <2>3, SetHandlerType DEF ReportRemove, HandlersOK
    <3> QED BY <2>3, <3>1 DEF ReportRemove, HandlersOK
  <2>4. ASSUME NEW h \in Handlers, ReportAbsent(h) PROVE Shape'
    <3>1. HandlersOK'
      BY <2>4, HandlerEndsType DEF ReportAbsent, HandlersOK
    <3>2. wal' \subseteq Leases /\ dropped' \in [Leases -> {"no", "ack", "duplicate"}]
      BY <2>4, ReplyType DEF ReportAbsent
    <3> QED BY <2>4, <3>1, <3>2 DEF ReportAbsent, HandlersOK, Unhealthy
  <2>5. ASSUME NEW h \in Handlers, ReportCommit(h) PROVE Shape'
    <3>1. HandlersOK'
      BY <2>5, SetHandlerType, HandlerEndsType DEF ReportCommit, HandlersOK
    <3> QED BY <2>5, <3>1 DEF ReportCommit, HandlersOK, Unhealthy
  <2>6. ASSUME NEW h \in Handlers, ReportSend(h) PROVE Shape'
    <3>1. HandlersOK'
      BY <2>6, HandlerEndsType DEF ReportSend, HandlersOK
    <3>2. wal' \subseteq Leases /\ dropped' \in [Leases -> {"no", "ack", "duplicate"}]
      BY <2>6, ReplyType DEF ReportSend
    <3> QED BY <2>6, <3>1, <3>2 DEF ReportSend, HandlersOK
  <2>7. ASSUME NEW h \in Handlers, ReportAborted(h) PROVE Shape'
    <3>1. HandlersOK'
      BY <2>7, SetHandlerType, HandlerEndsType DEF ReportAborted, HandlersOK
    <3> QED BY <2>7, <3>1 DEF ReportAborted, HandlersOK
  <2>8. ASSUME NEW h \in Handlers, OrphanCommit(h) PROVE Shape'
    <3>1. HandlersOK'
      BY <2>8, HandlerEndsType DEF OrphanCommit, HandlersOK
    <3> QED BY <2>8, <3>1 DEF OrphanCommit, HandlersOK
  <2> QED BY <1>3, <2>1, <2>2, <2>3, <2>4, <2>5, <2>6, <2>7, <2>8 DEF ReportNext
<1>4. CASE WorkerNext
  <2>1. ASSUME NEW l \in Leases, WorkerStart(l) PROVE Shape'
    BY <2>1 DEF WorkerStart, WorkerTo
  <2>2. ASSUME NEW l \in Leases, WorkerFinish(l) PROVE Shape'
    BY <2>2 DEF WorkerFinish, WorkerTo
  <2>3. ASSUME NEW l \in Leases, WorkerLog(l) PROVE Shape'
    BY <2>3 DEF WorkerLog, WorkerTo
  <2>4. ASSUME NEW l \in Leases, WorkerFail(l) PROVE Shape'
    BY <2>4 DEF WorkerFail, WorkerTo
  <2>5. ASSUME NEW l \in Leases, WorkerLost(l) PROVE Shape'
    BY <2>5 DEF WorkerLost, WorkerTo
  <2>6. ASSUME NEW l \in Leases, Supersede(l) PROVE Shape'
    BY <2>6 DEF Supersede
  <2> QED BY <1>4, <2>1, <2>2, <2>3, <2>4, <2>5, <2>6 DEF WorkerNext
<1>5. CASE CancelEpisode
  BY <1>5 DEF CancelEpisode
<1>6. CASE StorageFault
  <2>1. faults' \in 0..MaxFaults
    BY <1>6 DEF StorageFault
  <2> QED BY <1>6, <2>1 DEF StorageFault
<1>7. CASE Crash
  <2>1. crashes' \in 0..MaxCrashes
    BY <1>7 DEF Crash
  <2>2. owner' \in OwnerRecord /\ OwnerShape'
    BY <1>7, OwnerTypes DEF Crash
  <2>3. HandlersOK'
    BY <1>7 DEF Crash, HandlersOK, IdleHandler, HandlerRecord
  <2>4. client' \in [Clients -> ClientRecord]
    <3> [phase |-> "idle", result |-> NoResult] \in ClientRecord
      BY DEF ClientRecord
    <3> QED BY <1>7 DEF Crash
  <2> QED BY <1>7, <2>1, <2>2, <2>3, <2>4 DEF Crash, HandlersOK
<1>8. CASE Restart
  <2>1. CASE UNCHANGED <<owner, pending, chan>>
    BY <1>8, <2>1 DEF Restart
  <2>2. CASE owner' = FreshOwner /\ UNCHANGED <<pending, chan>>
    BY <1>8, <2>2, OwnerTypes DEF Restart
  <2>3. ASSUME NEW l \in Leases, LatestDispatch(l), owner' = RecoveredOwner(l),
               pending' = {l}, chan' = [chan EXCEPT ![l] = "open"]
        PROVE  Shape'
    <3>1. dispatch[l] \in 1..MaxAttempts
      BY <2>3 DEF LatestDispatch
    <3>2. owner' \in OwnerRecord /\ OwnerShape'
      BY <2>3, <3>1 DEF RecoveredOwner
    <3> QED BY <1>8, <2>3, <3>2 DEF Restart
  <2> QED BY <1>8, <2>1, <2>2, <2>3 DEF Restart
<1>9. CASE UNCHANGED episodeVars
  BY <1>9 DEF episodeVars
<1> QED BY <1>1, <1>2, <1>3, <1>4, <1>5, <1>6, <1>7, <1>8, <1>9 DEF Next

-----------------------------------------------------------------------------
(***************************************************************************)
(* Durability.                                                             *)
(***************************************************************************)

\* The outcome never changes once there is one.
TerminalFinal == terminal # NoResult => terminal' = terminal

\* What the store records of a report comes before what memory and the worker
\* know of it.
Recorded ==
    /\ \A h \in Handlers : handler[h].phase = "send" => handler[h].lease \in idem
    /\ \A l \in Leases : chan[l] = "result" => l \in idem

Durable == AcceptedIsDurable /\ Recorded

\* A server that is down has no tasks.
Down ==
    ~up => /\ owner.phase = "none"
           /\ pending = {}
           /\ \A h \in Handlers : handler[h].phase = "idle"

\* No worker's result is the absence of one.
LEMMA WorkerResultIsOne ==
    \A l \in Leases : WorkerResult(l) # NoResult /\ WorkerResult(l).kind = "worker"
BY DEF WorkerResult, NoResult

\* What a handler's step does to the table of handlers.
LEMMA SetHandlerValue ==
    ASSUME HandlersOK, NEW h \in Handlers, NEW p, SetHandler(h, p)
    PROVE  /\ handler'[h].phase = p /\ handler'[h].lease = handler[h].lease
           /\ \A g \in Handlers \ {h} : handler'[g] = handler[g]
BY DEF HandlersOK, HandlerRecord, SetHandler

\* A handler that ends is idle and no other one is touched.
LEMMA HandlerEndsValue ==
    ASSUME HandlersOK, NEW h \in Handlers, HandlerEnds(h)
    PROVE  /\ handler'[h].phase = "idle"
           /\ \A g \in Handlers \ {h} : handler'[g] = handler[g]
BY DEF HandlersOK, HandlerEnds, IdleHandler

\* The owner task writes the outcome only through commit_terminal, and never
\* the table of reports, the handlers or the workers' logs.
LEMMA OwnerFrame ==
    ASSUME Shape, OwnerNext
    PROVE  /\ UNCHANGED <<idem, handler, wal, dropped, up>>
           /\ TerminalFinal
           /\ \A l \in Leases : chan'[l] = "result" => chan[l] = "result"
<1> USE DEF storeVars, serviceVars, waitVars, workerVars, boundVars, TerminalFinal
<1>1. CASE OwnerAdmitted
  BY <1>1 DEF OwnerAdmitted
<1>2. CASE OwnerGivesUp
  BY <1>2 DEF OwnerGivesUp
<1>3. CASE OwnerReserve
  BY <1>3 DEF OwnerReserve, Shape, TypeOK
<1>4. CASE PutDispatchIntent
  BY <1>4 DEF PutDispatchIntent, Unhealthy
<1>5. CASE OwnerDeadline
  BY <1>5 DEF OwnerDeadline
<1>6. CASE OwnerSeesCancel
  BY <1>6 DEF OwnerSeesCancel
<1>7. CASE OwnerCancelNotified
  BY <1>7 DEF OwnerCancelNotified
<1>8. CASE OwnerReceives
  BY <1>8 DEF OwnerReceives
<1>9. CASE OwnerChannelClosed
  BY <1>9 DEF OwnerChannelClosed
<1>10. CASE OwnerDispatchError
  BY <1>10 DEF OwnerDispatchError
<1>11. CASE OwnerDispatchFatal
  BY <1>11 DEF OwnerDispatchFatal
<1>12. CASE OwnerSlotFull
  BY <1>12 DEF OwnerSlotFull
<1>13. CASE OwnerDispatchDone
  BY <1>13 DEF OwnerDispatchDone
<1>14. CASE OwnerCommit
  BY <1>14 DEF OwnerCommit, CommitOutcome, Commits, Unhealthy
<1>15. CASE OwnerFinish
  BY <1>15 DEF OwnerFinish
<1>16. CASE RecoveredReceives
  BY <1>16 DEF RecoveredReceives
<1>17. CASE RecoveredClosed
  BY <1>17 DEF RecoveredClosed
<1>18. CASE RecoveredDeadline
  BY <1>18 DEF RecoveredDeadline
<1>19. CASE RecoveredCommit
  BY <1>19 DEF RecoveredCommit, CommitOutcome, Commits, Unhealthy
<1>20. CASE RecoveredFinish
  BY <1>20 DEF RecoveredFinish
<1> QED BY <1>1, <1>2, <1>3, <1>4, <1>5, <1>6, <1>7, <1>8, <1>9, <1>10, <1>11,
       <1>12, <1>13, <1>14, <1>15, <1>16, <1>17, <1>18, <1>19, <1>20 DEF OwnerNext

\* Requests and workers leave all of it alone.
LEMMA OtherFrame ==
    ASSUME ClientNext \/ WorkerNext \/ CancelEpisode \/ StorageFault
    PROVE  /\ UNCHANGED <<terminal, idem, handler, dropped>>
           /\ \A l \in Leases : chan'[l] = "result" => chan[l] = "result"
<1> USE DEF storeVars, serviceVars, waitVars, workerVars, boundVars
<1>1. CASE ClientNext
  BY <1>1 DEF ClientNext, ClientLookup, ClientRefused, ClientAttach, ClientGone
<1>2. CASE WorkerNext
  <2>1. ASSUME NEW l \in Leases, Supersede(l)
        PROVE  /\ UNCHANGED <<terminal, idem, handler, dropped>>
               /\ \A k \in Leases : chan'[k] = "result" => chan[k] = "result"
    BY <2>1 DEF Supersede
  <2> QED BY <1>2, <2>1 DEF WorkerNext, WorkerStart, WorkerFinish, WorkerLog, WorkerFail,
                            WorkerLost
<1>3. CASE CancelEpisode
  BY <1>3 DEF CancelEpisode
<1>4. CASE StorageFault
  BY <1>4 DEF StorageFault
<1> QED BY <1>1, <1>2, <1>3, <1>4

\* Accepted reports stay the outcome, which stays as it is.
LEMMA DurableStep ==
    ASSUME Shape, Durable, [Next]_episodeVars
    PROVE  Durable' /\ TerminalFinal
<1> USE WorkerResultIsOne DEF Durable, AcceptedIsDurable, Recorded, TerminalFinal
<1>1. CASE OwnerNext
  BY <1>1, OwnerFrame DEF Shape, TypeOK
<1>2. CASE ClientNext \/ WorkerNext \/ CancelEpisode \/ StorageFault
  BY <1>2, OtherFrame
<1>3. CASE ReportNext
  <2> USE DEF storeVars, serviceVars, waitVars, workerVars, boundVars, Shape, HandlerShape,
              TypeOK, HandlersOK
  <2>1. ASSUME NEW h \in Handlers, NEW l \in Leases, ReportBegin(h, l)
        PROVE  Durable' /\ TerminalFinal
    BY <2>1 DEF ReportBegin
  <2>2. ASSUME NEW h \in Handlers, ReportCheck(h) PROVE Durable' /\ TerminalFinal
    BY <2>2, SetHandlerValue, HandlerEndsValue DEF ReportCheck, Reply
  <2>3. ASSUME NEW h \in Handlers, ReportRemove(h) PROVE Durable' /\ TerminalFinal
    BY <2>3, SetHandlerValue DEF ReportRemove
  <2>4. ASSUME NEW h \in Handlers, ReportAbsent(h) PROVE Durable' /\ TerminalFinal
    BY <2>4 DEF ReportAbsent, HandlerEnds, IdleHandler, Reply
  <2>5. ASSUME NEW h \in Handlers, ReportCommit(h) PROVE Durable' /\ TerminalFinal
    BY <2>5, SetHandlerValue, HandlerEndsValue DEF ReportCommit, Commits
  <2>6. ASSUME NEW h \in Handlers, ReportSend(h) PROVE Durable' /\ TerminalFinal
    BY <2>6 DEF ReportSend, HandlerEnds, IdleHandler, Reply
  <2>7. ASSUME NEW h \in Handlers, ReportAborted(h) PROVE Durable' /\ TerminalFinal
    BY <2>7, SetHandlerValue, HandlerEndsValue DEF ReportAborted
  <2>8. ASSUME NEW h \in Handlers, OrphanCommit(h) PROVE Durable' /\ TerminalFinal
    BY <2>8 DEF OrphanCommit, Commits, HandlerEnds, IdleHandler
  <2> QED BY <1>3, <2>1, <2>2, <2>3, <2>4, <2>5, <2>6, <2>7, <2>8 DEF ReportNext
<1>4. CASE Crash
  BY <1>4 DEF Crash, IdleHandler, storeVars, workerVars
<1>5. CASE Restart
  BY <1>5 DEF Restart, Shape, TypeOK, storeVars, workerVars
<1>6. CASE UNCHANGED episodeVars
  BY <1>6 DEF episodeVars, storeVars, waitVars, workerVars
<1> QED BY <1>1, <1>2, <1>3, <1>4, <1>5, <1>6 DEF Next

-----------------------------------------------------------------------------
(***************************************************************************)
(* The pending entry.  A lease that is yet to be issued is unknown to the  *)
(* store, the workers and the handlers; so the entry of a new lease cannot *)
(* meet an older one, and an entry that a handler has taken out, or whose  *)
(* channel has been used, is not in the table.                             *)
(***************************************************************************)
Unissued ==
    /\ owner.phase \in Awaiting => owner.lease <= issued
    /\ \A l \in Leases : l > issued =>
          /\ dispatch[l] = 0 /\ worker[l] = "none" /\ l \notin wal
          /\ \A h \in Handlers : handler[h].phase # "idle" => handler[h].lease # l

Taken ==
    healthy =>
        /\ \A l \in pending : chan[l] = "open"
        /\ \A h \in Handlers : handler[h].phase \in {"commit", "send"}
                                  => handler[h].lease \notin pending

Waits == Down /\ Unissued /\ PendingIsAwaited /\ Taken

\* What a step of the owner task does to its record.
LEMMA OwnerToValue ==
    ASSUME owner \in OwnerRecord, NEW p, OwnerTo(p)
    PROVE  /\ owner'.phase = p /\ owner'.lease = owner.lease
           /\ owner'.attempt = owner.attempt /\ owner'.result = owner.result
BY DEF OwnerRecord, OwnerTo

\* A task that ends by itself goes on to commit.
LEMMA OwnerEndsValue ==
    ASSUME owner \in OwnerRecord, NEW k, OwnerEnds(k)
    PROVE  owner'.phase = "committing" /\ owner'.lease = owner.lease
BY DEF OwnerRecord, OwnerEnds

\* After commit_terminal a task holds the durable outcome, or nothing.
LEMMA CommitValue ==
    ASSUME owner \in OwnerRecord, NEW p, CommitOutcome(p)
    PROVE  /\ owner'.phase = p /\ owner'.lease = owner.lease /\ owner'.attempt = owner.attempt
           /\ owner'.result = NoResult \/ (owner'.result = owner.result /\ terminal' = owner.result)
<1>1. CASE owner' = [owner EXCEPT !.phase = p] /\ terminal' = owner.result
  BY <1>1 DEF OwnerRecord
<1>2. CASE owner' = [owner EXCEPT !.phase = p, !.result = NoResult]
  BY <1>2 DEF OwnerRecord
<1> QED BY <1>1, <1>2 DEF CommitOutcome

\* A ReportResult call only goes on with its own lease, and at most deletes a
\* log record.
LEMMA ReportFrame ==
    ASSUME HandlersOK, NEW h \in Handlers,
           \/ ReportCheck(h) \/ ReportRemove(h) \/ ReportAbsent(h) \/ ReportCommit(h)
           \/ ReportSend(h) \/ ReportAborted(h) \/ OrphanCommit(h)
    PROVE  /\ UNCHANGED <<owner, dispatch, worker, issued>>
           /\ wal' \subseteq wal
           /\ \A g \in Handlers : handler'[g].phase # "idle" =>
                 handler[g].phase # "idle" /\ handler'[g].lease = handler[g].lease
<1>1. UNCHANGED <<owner, dispatch, worker, issued>>
  BY DEF ReportCheck, ReportRemove, ReportAbsent, ReportCommit, ReportSend, ReportAborted,
         OrphanCommit, storeVars, waitVars, workerVars, boundVars
<1>2. wal' \subseteq wal
  BY DEF ReportCheck, ReportRemove, ReportAbsent, ReportCommit, ReportSend, ReportAborted,
         OrphanCommit, Reply, workerVars
<1>3. handler[h].phase # "idle" /\ (HandlerEnds(h) \/ \E p : SetHandler(h, p))
  BY DEF ReportCheck, ReportRemove, ReportAbsent, ReportCommit, ReportSend, ReportAborted,
         OrphanCommit
<1> QED BY <1>1, <1>2, <1>3, SetHandlerValue, HandlerEndsValue

\* A lease is unknown until it is issued.
LEMMA UnissuedStep ==
    ASSUME Shape, Unissued, [Next]_episodeVars
    PROVE  Unissued'
<1> USE BoundsTypes DEF Shape, TypeOK, HandlersOK, HandlerShape, OwnerRecord, Unissued,
        Awaiting, Recovering, Leases, storeVars, serviceVars, waitVars, workerVars, boundVars
<1>1. CASE ClientNext
  <2>1. ASSUME NEW c \in Clients, ClientLookup(c) PROVE Unissued'
    BY <2>1 DEF ClientLookup
  <2>2. ASSUME NEW c \in Clients, ClientRefused(c) PROVE Unissued'
    BY <2>2 DEF ClientRefused
  <2>3. ASSUME NEW c \in Clients, ClientAttach(c) PROVE Unissued'
    BY <2>3 DEF ClientAttach, FreshOwner
  <2>4. ASSUME NEW c \in Clients, ClientGone(c) PROVE Unissued'
    BY <2>4 DEF ClientGone
  <2> QED BY <1>1, <2>1, <2>2, <2>3, <2>4 DEF ClientNext
<1>2. CASE OwnerNext
  <2>1. CASE OwnerAdmitted
    BY <2>1 DEF OwnerAdmitted, OwnerTo
  <2>2. CASE OwnerGivesUp
    <3>1. owner'.phase \notin Awaiting
      <4>1. \E k : OwnerEnds(k)
        BY <2>2 DEF OwnerGivesUp
      <4> QED BY <4>1, OwnerEndsValue
    <3> QED BY <2>2, <3>1 DEF OwnerGivesUp
  <2>3. CASE OwnerReserve
    BY <2>3 DEF OwnerReserve
  <2>4. CASE PutDispatchIntent
    <3>1. owner'.phase \in Awaiting => owner.phase \in Awaiting /\ owner'.lease = owner.lease
      <4>1. OwnerTo("dispatching") \/ \E k : OwnerEnds(k)
        BY <2>4 DEF PutDispatchIntent
      <4> QED BY <2>4, <4>1, OwnerEndsValue, OwnerToValue DEF PutDispatchIntent
    <3>2. \A l \in Leases : dispatch'[l] = dispatch[l] \/ l = owner.lease
      BY <2>4 DEF PutDispatchIntent
    <3>3. UNCHANGED <<worker, wal, handler, issued>>
      BY <2>4 DEF PutDispatchIntent
    <3>4. owner.lease <= issued
      BY <2>4 DEF PutDispatchIntent
    <3>5. \A l \in Leases : l > issued => dispatch'[l] = 0
      BY <3>2, <3>4
    <3> QED BY <3>1, <3>3, <3>5
  <2>5. CASE OwnerDeadline
    BY <2>5 DEF OwnerDeadline, InSelect, ForgetLease, OwnerEnds
  <2>6. CASE OwnerSeesCancel
    BY <2>6 DEF OwnerSeesCancel, InSelect, OwnerTo
  <2>7. CASE OwnerCancelNotified
    BY <2>7 DEF OwnerCancelNotified, ForgetLease, OwnerEnds
  <2>8. CASE OwnerReceives
    BY <2>8 DEF OwnerReceives, InSelect, Received
  <2>9. CASE OwnerChannelClosed
    BY <2>9 DEF OwnerChannelClosed, InSelect, ForgetLease, OwnerEnds,
           OwnerRetries
  <2>10. CASE OwnerDispatchError
    BY <2>10 DEF OwnerDispatchError, ForgetLease, OwnerRetries
  <2>11. CASE OwnerDispatchFatal
    BY <2>11 DEF OwnerDispatchFatal, ForgetLease, OwnerEnds
  <2>12. CASE OwnerSlotFull
    BY <2>12 DEF OwnerSlotFull, ForgetLease, OwnerRetries
  <2>13. CASE OwnerDispatchDone
    BY <2>13 DEF OwnerDispatchDone, OwnerTo
  <2>14. CASE OwnerCommit
    <3>1. owner'.phase \in Awaiting => owner.phase \in Awaiting /\ owner'.lease = owner.lease
      BY <2>14, CommitValue DEF OwnerCommit
    <3>2. UNCHANGED <<dispatch, worker, wal, handler, issued>>
      BY <2>14 DEF OwnerCommit
    <3> QED BY <3>1, <3>2
  <2>15. CASE OwnerFinish
    BY <2>15 DEF OwnerFinish, NoOwner
  <2>16. CASE RecoveredReceives
    BY <2>16 DEF RecoveredReceives, Received
  <2>17. CASE RecoveredClosed
    BY <2>17 DEF RecoveredClosed, OwnerTo
  <2>18. CASE RecoveredDeadline
    BY <2>18 DEF RecoveredDeadline
  <2>19. CASE RecoveredCommit
    <3>1. owner'.phase \in Awaiting => owner.phase \in Awaiting /\ owner'.lease = owner.lease
      BY <2>19, CommitValue DEF RecoveredCommit
    <3>2. UNCHANGED <<dispatch, worker, wal, handler, issued>>
      BY <2>19 DEF RecoveredCommit
    <3> QED BY <3>1, <3>2
  <2>20. CASE RecoveredFinish
    BY <2>20 DEF RecoveredFinish, ForgetLease, NoOwner
  <2> QED BY <1>2, <2>1, <2>2, <2>3, <2>4, <2>5, <2>6, <2>7, <2>8, <2>9,
         <2>10, <2>11, <2>12, <2>13, <2>14, <2>15, <2>16, <2>17, <2>18, <2>19,
         <2>20 DEF OwnerNext
<1>3. CASE ReportNext
  <2>1. ASSUME NEW h \in Handlers, NEW l \in Leases, ReportBegin(h, l) PROVE Unissued'
    BY <2>1, SetHandlerValue, HandlerEndsValue DEF ReportBegin
  <2>2. ASSUME NEW h \in Handlers,
               \/ ReportCheck(h) \/ ReportRemove(h) \/ ReportAbsent(h) \/ ReportCommit(h)
               \/ ReportSend(h) \/ ReportAborted(h) \/ OrphanCommit(h)
        PROVE  Unissued'
    <3>1. HandlersOK
      BY DEF HandlersOK
    <3> HIDE DEF TypeOK, HandlerShape, HandlersOK, Leases
    <3> QED BY <2>2, <3>1, ReportFrame
  <2> QED BY <1>3, <2>1, <2>2 DEF ReportNext
<1>4. CASE WorkerNext
  <2>1. ASSUME NEW l \in Leases, WorkerStart(l) PROVE Unissued'
    BY <2>1 DEF WorkerStart, WorkerTo
  <2>2. ASSUME NEW l \in Leases, WorkerFinish(l) PROVE Unissued'
    BY <2>2 DEF WorkerFinish, WorkerTo
  <2>3. ASSUME NEW l \in Leases, WorkerLog(l) PROVE Unissued'
    BY <2>3 DEF WorkerLog, WorkerTo
  <2>4. ASSUME NEW l \in Leases, WorkerFail(l) PROVE Unissued'
    BY <2>4 DEF WorkerFail, WorkerTo
  <2>5. ASSUME NEW l \in Leases, WorkerLost(l) PROVE Unissued'
    BY <2>5 DEF WorkerLost, WorkerTo
  <2>6. ASSUME NEW l \in Leases, Supersede(l) PROVE Unissued'
    BY <2>6 DEF Supersede
  <2> QED BY <1>4, <2>1, <2>2, <2>3, <2>4, <2>5, <2>6 DEF WorkerNext
<1>5. CASE CancelEpisode
  BY <1>5 DEF CancelEpisode
<1>6. CASE StorageFault
  BY <1>6 DEF StorageFault
<1>7. CASE Crash
  BY <1>7 DEF Crash, NoOwner, IdleHandler
<1>8. CASE Restart
  BY <1>8 DEF Restart, LatestDispatch, RecoveredOwner, FreshOwner
<1>9. CASE UNCHANGED episodeVars
  BY <1>9 DEF episodeVars
<1> QED BY <1>1, <1>2, <1>3, <1>4, <1>5, <1>6, <1>7, <1>8, <1>9 DEF Next

\* Every step keeps the table of pending entries in order.
LEMMA WaitsStep ==
    ASSUME Shape, Waits, [Next]_episodeVars
    PROVE  Waits'
<1>0. Unissued'
  BY UnissuedStep DEF Waits
<1> USE <1>0, BoundsTypes DEF Shape, TypeOK, HandlersOK, HandlerShape, OwnerRecord, Waits,
        Down, PendingIsAwaited, Taken, Awaiting, Recovering, storeVars, serviceVars, waitVars,
        workerVars, boundVars
<1>1. CASE ClientNext
  <2>1. ASSUME NEW c \in Clients, ClientLookup(c) PROVE Waits'
    BY <2>1 DEF ClientLookup
  <2>2. ASSUME NEW c \in Clients, ClientRefused(c) PROVE Waits'
    BY <2>2 DEF ClientRefused
  <2>3. ASSUME NEW c \in Clients, ClientAttach(c) PROVE Waits'
    BY <2>3 DEF ClientAttach, FreshOwner
  <2>4. ASSUME NEW c \in Clients, ClientGone(c) PROVE Waits'
    BY <2>4 DEF ClientGone
  <2> QED BY <1>1, <2>1, <2>2, <2>3, <2>4 DEF ClientNext
<1>2. CASE OwnerNext
  <2>1. CASE OwnerAdmitted
    BY <2>1 DEF OwnerAdmitted, OwnerTo
  <2>2. CASE OwnerGivesUp
    BY <2>2 DEF OwnerGivesUp, OwnerEnds
  <2>3. CASE OwnerReserve
    BY <2>3 DEF OwnerReserve, Unissued, Leases
  <2>4. CASE PutDispatchIntent
    BY <2>4 DEF PutDispatchIntent, OwnerTo, ForgetLease, Unhealthy, OwnerEnds
  <2>5. CASE OwnerDeadline
    BY <2>5 DEF OwnerDeadline, InSelect, ForgetLease, OwnerEnds
  <2>6. CASE OwnerSeesCancel
    BY <2>6 DEF OwnerSeesCancel, InSelect, OwnerTo
  <2>7. CASE OwnerCancelNotified
    BY <2>7 DEF OwnerCancelNotified, ForgetLease, OwnerEnds
  <2>8. CASE OwnerReceives
    BY <2>8 DEF OwnerReceives, InSelect, Received
  <2>9. CASE OwnerChannelClosed
    BY <2>9 DEF OwnerChannelClosed, InSelect, ForgetLease, OwnerEnds,
           OwnerRetries
  <2>10. CASE OwnerDispatchError
    BY <2>10 DEF OwnerDispatchError, ForgetLease, OwnerRetries
  <2>11. CASE OwnerDispatchFatal
    BY <2>11 DEF OwnerDispatchFatal, ForgetLease, OwnerEnds
  <2>12. CASE OwnerSlotFull
    BY <2>12 DEF OwnerSlotFull, ForgetLease, OwnerRetries
  <2>13. CASE OwnerDispatchDone
    BY <2>13 DEF OwnerDispatchDone, OwnerTo
  <2>14. CASE OwnerCommit
    BY <2>14 DEF OwnerCommit, CommitOutcome, Commits, Unhealthy
  <2>15. CASE OwnerFinish
    BY <2>15 DEF OwnerFinish, NoOwner
  <2>16. CASE RecoveredReceives
    BY <2>16 DEF RecoveredReceives, Received
  <2>17. CASE RecoveredClosed
    BY <2>17 DEF RecoveredClosed, OwnerTo
  <2>18. CASE RecoveredDeadline
    BY <2>18 DEF RecoveredDeadline
  <2>19. CASE RecoveredCommit
    BY <2>19 DEF RecoveredCommit, CommitOutcome, Commits, Unhealthy
  <2>20. CASE RecoveredFinish
    BY <2>20 DEF RecoveredFinish, ForgetLease, NoOwner
  <2> QED BY <1>2, <2>1, <2>2, <2>3, <2>4, <2>5, <2>6, <2>7, <2>8, <2>9,
         <2>10, <2>11, <2>12, <2>13, <2>14, <2>15, <2>16, <2>17, <2>18, <2>19,
         <2>20 DEF OwnerNext
<1>3. CASE ReportNext
  <2>1. ASSUME NEW h \in Handlers, NEW l \in Leases, ReportBegin(h, l) PROVE Waits'
    BY <2>1, SetHandlerValue, HandlerEndsValue DEF ReportBegin
  <2>2. ASSUME NEW h \in Handlers, ReportCheck(h) PROVE Waits'
    BY <2>2, SetHandlerValue, HandlerEndsValue DEF ReportCheck, Unhealthy
  <2>3. ASSUME NEW h \in Handlers, ReportRemove(h) PROVE Waits'
    BY <2>3, SetHandlerValue, HandlerEndsValue DEF ReportRemove
  <2>4. ASSUME NEW h \in Handlers, ReportAbsent(h) PROVE Waits'
    BY <2>4, SetHandlerValue, HandlerEndsValue DEF ReportAbsent, Unhealthy
  <2>5. ASSUME NEW h \in Handlers, ReportCommit(h) PROVE Waits'
    BY <2>5, SetHandlerValue, HandlerEndsValue DEF ReportCommit, Commits,
           Unhealthy
  <2>6. ASSUME NEW h \in Handlers, ReportSend(h) PROVE Waits'
    BY <2>6, SetHandlerValue, HandlerEndsValue DEF ReportSend
  <2>7. ASSUME NEW h \in Handlers, ReportAborted(h) PROVE Waits'
    BY <2>7, SetHandlerValue, HandlerEndsValue DEF ReportAborted
  <2>8. ASSUME NEW h \in Handlers, OrphanCommit(h) PROVE Waits'
    BY <2>8, SetHandlerValue, HandlerEndsValue DEF OrphanCommit, Commits
  <2> QED BY <1>3, <2>1, <2>2, <2>3, <2>4, <2>5, <2>6, <2>7, <2>8 DEF ReportNext
<1>4. CASE WorkerNext
  <2>1. ASSUME NEW l \in Leases, WorkerStart(l) PROVE Waits'
    BY <2>1 DEF WorkerStart, WorkerTo
  <2>2. ASSUME NEW l \in Leases, WorkerFinish(l) PROVE Waits'
    BY <2>2 DEF WorkerFinish, WorkerTo
  <2>3. ASSUME NEW l \in Leases, WorkerLog(l) PROVE Waits'
    BY <2>3 DEF WorkerLog, WorkerTo
  <2>4. ASSUME NEW l \in Leases, WorkerFail(l) PROVE Waits'
    BY <2>4 DEF WorkerFail, WorkerTo
  <2>5. ASSUME NEW l \in Leases, WorkerLost(l) PROVE Waits'
    BY <2>5 DEF WorkerLost, WorkerTo
  <2>6. ASSUME NEW l \in Leases, Supersede(l) PROVE Waits'
    BY <2>6 DEF Supersede
  <2> QED BY <1>4, <2>1, <2>2, <2>3, <2>4, <2>5, <2>6 DEF WorkerNext
<1>5. CASE CancelEpisode
  BY <1>5 DEF CancelEpisode
<1>6. CASE StorageFault
  BY <1>6 DEF StorageFault
<1>7. CASE Crash
  BY <1>7 DEF Crash, NoOwner, IdleHandler
<1>8. CASE Restart
  BY <1>8 DEF Restart, LatestDispatch, RecoveredOwner, FreshOwner, NoOwner
<1>9. CASE UNCHANGED episodeVars
  BY <1>9 DEF episodeVars
<1> QED BY <1>1, <1>2, <1>3, <1>4, <1>5, <1>6, <1>7, <1>8, <1>9 DEF Next

-----------------------------------------------------------------------------
(***************************************************************************)
(* Recovery.  The dispatches change only in put_dispatch_intent, which the *)
(* task that recovery spawns never calls.                                  *)
(***************************************************************************)

\* A step of the owner task neither starts a recovery nor, in one, moves to
\* another lease or attempt, or dispatches.
LEMMA RecoveringFrame ==
    ASSUME owner \in OwnerRecord, OwnerNext
    PROVE  /\ owner.phase \in Recovering => dispatch' = dispatch
           /\ owner'.phase \in Recovering =>
                 /\ owner.phase \in Recovering
                 /\ owner'.lease = owner.lease
                 /\ owner'.attempt = owner.attempt
<1> DEFINE Goal == /\ owner.phase \in Recovering => dispatch' = dispatch
                  /\ owner'.phase \in Recovering =>
                        /\ owner.phase \in Recovering
                        /\ owner'.lease = owner.lease
                        /\ owner'.attempt = owner.attempt
<1> USE DEF Recovering, storeVars
<1>1. ASSUME NEW k, OwnerEnds(k),
             owner.phase \notin Recovering \/ UNCHANGED dispatch
      PROVE  Goal
  BY <1>1, OwnerEndsValue
<1>2. ASSUME NEW a, OwnerRetries(a), UNCHANGED dispatch PROVE Goal
  BY <1>2 DEF OwnerRetries, OwnerRecord
<1>3. ASSUME NEW p \in {"scheduling", "dispatching", "waiting", "cancelling"}, OwnerTo(p),
             owner.phase \notin Recovering
      PROVE  Goal
  BY <1>3, OwnerToValue
<1>4. CASE OwnerAdmitted \/ OwnerSeesCancel \/ OwnerDispatchDone
  BY <1>4, <1>3 DEF OwnerAdmitted, OwnerSeesCancel, OwnerDispatchDone, InSelect
<1>5. CASE OwnerGivesUp \/ OwnerDeadline \/ OwnerCancelNotified \/ OwnerDispatchFatal
  BY <1>5, <1>1 DEF OwnerGivesUp, OwnerDeadline, OwnerCancelNotified, OwnerDispatchFatal
<1>6. CASE OwnerChannelClosed \/ OwnerDispatchError \/ OwnerSlotFull
  BY <1>6, <1>1, <1>2 DEF OwnerChannelClosed, OwnerDispatchError, OwnerSlotFull
<1>7. CASE PutDispatchIntent
  BY <1>7, <1>1, <1>3 DEF PutDispatchIntent
<1>8. CASE OwnerReserve
  BY <1>8 DEF OwnerReserve, OwnerRecord
<1>9. CASE OwnerReceives
  BY <1>9 DEF OwnerReceives, InSelect, OwnerRecord
<1>10. CASE OwnerCommit
  BY <1>10, CommitValue DEF OwnerCommit
<1>11. CASE OwnerFinish \/ RecoveredFinish
  BY <1>11 DEF OwnerFinish, RecoveredFinish, NoOwner
<1>12. CASE RecoveredReceives
  BY <1>12 DEF RecoveredReceives, OwnerRecord
<1>13. CASE RecoveredClosed
  BY <1>13, OwnerToValue DEF RecoveredClosed
<1>14. CASE RecoveredDeadline
  BY <1>14 DEF RecoveredDeadline, OwnerRecord
<1>15. CASE RecoveredCommit
  BY <1>15, CommitValue DEF RecoveredCommit
<1> QED BY <1>4, <1>5, <1>6, <1>7, <1>8, <1>9, <1>10, <1>11, <1>12, <1>13, <1>14, <1>15
        DEF OwnerNext

\* No other step but a crash or a restart touches the owner task, except that
\* a SubmitEpisode call starts one, and none touches the dispatches.
LEMMA BystanderFrame ==
    ASSUME ClientNext \/ ReportNext \/ WorkerNext \/ CancelEpisode \/ StorageFault
    PROVE  /\ UNCHANGED dispatch
           /\ owner' = owner \/ owner' = FreshOwner
<1> USE DEF storeVars, waitVars
<1>1. CASE ClientNext
  BY <1>1 DEF ClientNext, ClientLookup, ClientRefused, ClientAttach, ClientGone
<1>2. CASE ReportNext
  BY <1>2 DEF ReportNext, ReportBegin, ReportCheck, ReportRemove, ReportAbsent, ReportCommit,
              ReportSend, ReportAborted, OrphanCommit
<1>3. CASE WorkerNext
  BY <1>3 DEF WorkerNext, WorkerStart, WorkerFinish, WorkerLog, WorkerFail, WorkerLost,
              Supersede
<1>4. CASE CancelEpisode \/ StorageFault
  BY <1>4 DEF CancelEpisode, StorageFault
<1> QED BY <1>1, <1>2, <1>3, <1>4

\* The rebuilt wait stays on the latest dispatch.
LEMMA RecoveryStep ==
    ASSUME Shape, RecoveryWaitsForLatest, [Next]_episodeVars
    PROVE  RecoveryWaitsForLatest'
<1> USE DEF RecoveryWaitsForLatest
<1>1. CASE OwnerNext
  BY <1>1, RecoveringFrame DEF Shape, TypeOK
<1>2. CASE ClientNext \/ ReportNext \/ WorkerNext \/ CancelEpisode \/ StorageFault
  BY <1>2, BystanderFrame DEF FreshOwner, Recovering
<1>3. CASE Crash
  BY <1>3 DEF Crash, NoOwner, Recovering
<1>4. CASE Restart
  <2>1. CASE owner' \in {owner, FreshOwner}
    BY <1>4, <2>1 DEF Restart, FreshOwner, Recovering, storeVars
  <2>2. ASSUME NEW l \in Leases, LatestDispatch(l), owner' = RecoveredOwner(l)
        PROVE  RecoveryWaitsForLatest'
    BY <1>4, <2>2 DEF Restart, LatestDispatch, RecoveredOwner, storeVars, Shape, TypeOK, Leases
  <2> QED BY <1>4, <2>1, <2>2 DEF Restart
<1>5. CASE UNCHANGED episodeVars
  BY <1>5 DEF episodeVars, storeVars, waitVars
<1> QED BY <1>1, <1>2, <1>3, <1>4, <1>5 DEF Next

-----------------------------------------------------------------------------
(***************************************************************************)
(* Answers.  What a task is about to finish its entry with is durable, or  *)
(* an error; for a recovered wait, which commits nothing it receives, this *)
(* needs that what it receives comes from a report.                        *)
(***************************************************************************)
Answered ==
    /\ owner.phase \in {"committed", "recoveredEnd"} => owner.result \in {NoResult, terminal}
    /\ owner.phase = "recovered" => owner.result = NoResult /\ chan[owner.lease] # "superseded"
    /\ AnswerIsDurable

\* An answer is the durable outcome also after a step, since that is final.
LEMMA AnswerKept ==
    ASSUME TerminalFinal, NEW r \in {NoResult, terminal}
    PROVE  r \in {NoResult, terminal'}
BY DEF TerminalFinal

\* The owner task ends, and a recovered one goes on, with a durable result.
LEMMA OwnerAnswered ==
    ASSUME Shape, Durable, Answered, TerminalFinal, OwnerNext
    PROVE  /\ owner'.phase \in {"committed", "recoveredEnd"} => owner'.result \in {NoResult, terminal'}
           /\ owner'.phase = "recovered" => owner' = owner
<1> DEFINE Goal ==
      /\ owner'.phase \in {"committed", "recoveredEnd"} => owner'.result \in {NoResult, terminal'}
      /\ owner'.phase = "recovered" => owner' = owner
<1>0. owner \in OwnerRecord
  BY DEF Shape, TypeOK
<1>1. ASSUME NEW k, OwnerEnds(k) PROVE Goal
  BY <1>0, <1>1, OwnerEndsValue
<1>2. ASSUME NEW a, OwnerRetries(a) PROVE Goal
  BY <1>0, <1>2 DEF OwnerRetries, OwnerRecord
<1>3. ASSUME NEW p \in {"scheduling", "dispatching", "waiting", "cancelling"}, OwnerTo(p)
      PROVE  Goal
  BY <1>0, <1>3, OwnerToValue
<1>4. CASE OwnerAdmitted \/ OwnerSeesCancel \/ OwnerDispatchDone
  BY <1>4, <1>3 DEF OwnerAdmitted, OwnerSeesCancel, OwnerDispatchDone
<1>5. CASE OwnerGivesUp \/ OwnerDeadline \/ OwnerCancelNotified \/ OwnerDispatchFatal
  BY <1>5, <1>1 DEF OwnerGivesUp, OwnerDeadline, OwnerCancelNotified, OwnerDispatchFatal
<1>6. CASE OwnerChannelClosed \/ OwnerDispatchError \/ OwnerSlotFull
  BY <1>6, <1>1, <1>2 DEF OwnerChannelClosed, OwnerDispatchError, OwnerSlotFull
<1>7. CASE PutDispatchIntent
  BY <1>7, <1>1, <1>3 DEF PutDispatchIntent
<1>8. CASE OwnerReserve
  BY <1>0, <1>8 DEF OwnerReserve, OwnerRecord
<1>9. CASE OwnerReceives
  BY <1>0, <1>9 DEF OwnerReceives, OwnerRecord
<1>10. CASE OwnerCommit
  BY <1>0, <1>10, CommitValue DEF OwnerCommit
<1>11. CASE OwnerFinish \/ RecoveredFinish
  BY <1>11 DEF OwnerFinish, RecoveredFinish, NoOwner
<1>12. CASE RecoveredReceives
  <2>1. chan[owner.lease] = "result" /\ owner.lease \in Leases
    BY <1>12 DEF RecoveredReceives, Answered, Shape, OwnerShape, Awaiting, Recovering
  <2>2. terminal = WorkerResult(owner.lease) /\ terminal' = terminal
    BY <1>12, <2>1 DEF Durable, Recorded, AcceptedIsDurable, RecoveredReceives, storeVars
  <2>3. owner'.phase = "recoveredEnd" /\ owner'.result = Received(owner.lease)
    BY <1>0, <1>12 DEF RecoveredReceives, OwnerRecord
  <2> QED BY <2>1, <2>2, <2>3 DEF Received
<1>13. CASE RecoveredClosed
  BY <1>0, <1>13, OwnerToValue DEF RecoveredClosed, Answered
<1>14. CASE RecoveredDeadline
  BY <1>0, <1>14 DEF RecoveredDeadline, OwnerRecord
<1>15. CASE RecoveredCommit
  BY <1>0, <1>15, CommitValue DEF RecoveredCommit
<1> QED BY <1>4, <1>5, <1>6, <1>7, <1>8, <1>9, <1>10, <1>11, <1>12, <1>13, <1>14, <1>15
        DEF OwnerNext

\* The calls answered by a step are answered with the durable outcome, or with
\* an error.
AnswersGiven ==
    \A c \in Clients : client'[c].result \in {client[c].result, terminal, NoResult}

\* An answer is given only by a lookup, by the end of an owner task, or as an
\* error; a step that gives one changes nothing durable.
LEMMA AnswersStep ==
    ASSUME Shape, Answered, [Next]_episodeVars
    PROVE  /\ AnswersGiven
           /\ client' = client \/ UNCHANGED <<terminal, dropped>>
<1> DEFINE Goal == AnswersGiven /\ (client' = client \/ UNCHANGED <<terminal, dropped>>)
<1> USE DEF AnswersGiven, storeVars, workerVars
<1>0. client \in [Clients -> ClientRecord]
  BY DEF Shape, TypeOK
<1>1. ASSUME NEW c \in Clients, NEW p, NEW r \in {NoResult, terminal}, SetClient(c, p, r),
             UNCHANGED <<terminal, dropped>>
      PROVE  Goal
  BY <1>0, <1>1 DEF SetClient
<1>2. ASSUME AnswerWaiting(owner.result), UNCHANGED <<terminal, dropped>>,
             owner.result \in {NoResult, terminal}
      PROVE  Goal
  BY <1>0, <1>2 DEF AnswerWaiting
<1>3. CASE ClientNext
  BY <1>3, <1>1 DEF ClientNext, ClientLookup, ClientRefused, ClientAttach, ClientGone
<1>4. CASE OwnerNext
  <2>1. CASE OwnerFinish \/ RecoveredFinish
    BY <2>1, <1>2 DEF OwnerFinish, RecoveredFinish, Answered
  <2>2. CASE client' = client
    BY <2>2
  <2> QED BY <1>4, <2>1, <2>2
          DEF OwnerNext, OwnerAdmitted, OwnerGivesUp, OwnerReserve, PutDispatchIntent,
              OwnerDeadline, OwnerSeesCancel, OwnerCancelNotified, OwnerReceives,
              OwnerChannelClosed, OwnerDispatchError, OwnerDispatchFatal, OwnerSlotFull,
              OwnerDispatchDone, OwnerCommit, RecoveredReceives, RecoveredClosed,
              RecoveredDeadline, RecoveredCommit
<1>5. CASE ReportNext
  BY <1>5 DEF ReportNext, ReportBegin, ReportCheck, ReportRemove, ReportAbsent, ReportCommit,
              ReportSend, ReportAborted, OrphanCommit
<1>6. CASE WorkerNext
  BY <1>6 DEF WorkerNext, WorkerStart, WorkerFinish, WorkerLog, WorkerFail, WorkerLost,
              Supersede
<1>7. CASE CancelEpisode \/ StorageFault \/ Restart
  BY <1>7 DEF CancelEpisode, StorageFault, Restart
<1>8. CASE Crash
  BY <1>0, <1>8 DEF Crash
<1>9. CASE UNCHANGED episodeVars
  BY <1>9 DEF episodeVars
<1> QED BY <1>3, <1>4, <1>5, <1>6, <1>7, <1>8, <1>9 DEF Next

\* No report, cancellation or fault makes a recovered wait receive a superseding
\* result, and with ~SupersedesRecovered no registration does.
LEMMA ChannelStep ==
    ASSUME Shape, ~SupersedesRecovered, [Next]_episodeVars,
           owner.phase = "recovered", owner' = owner, chan[owner.lease] # "superseded"
    PROVE  chan'[owner.lease] # "superseded"
<1> USE DEF Shape, TypeOK, OwnerShape, Awaiting, Recovering, storeVars, waitVars
<1>1. CASE ClientNext
  BY <1>1 DEF ClientNext, ClientLookup, ClientRefused, ClientAttach, ClientGone
<1>2. CASE OwnerNext
  BY <1>2 DEF OwnerNext, OwnerAdmitted, OwnerGivesUp, OwnerReserve, PutDispatchIntent,
              OwnerDeadline, OwnerSeesCancel, OwnerCancelNotified, OwnerReceives,
              OwnerChannelClosed, OwnerDispatchError, OwnerDispatchFatal, OwnerSlotFull,
              OwnerDispatchDone, OwnerCommit, OwnerFinish, RecoveredReceives,
              RecoveredClosed, RecoveredDeadline, RecoveredCommit, RecoveredFinish
<1>3. CASE ReportNext
  BY <1>3 DEF ReportNext, ReportBegin, ReportCheck, ReportRemove, ReportAbsent, ReportCommit,
              ReportSend, ReportAborted, OrphanCommit
<1>4. CASE WorkerNext
  BY <1>4 DEF WorkerNext, WorkerStart, WorkerFinish, WorkerLog, WorkerFail, WorkerLost,
              Supersede
<1>5. CASE CancelEpisode \/ StorageFault
  BY <1>5 DEF CancelEpisode, StorageFault
<1>6. CASE Crash \/ Restart
  BY <1>6 DEF Crash, Restart
<1>7. CASE UNCHANGED episodeVars
  BY <1>7 DEF episodeVars
<1> QED BY <1>1, <1>2, <1>3, <1>4, <1>5, <1>6, <1>7 DEF Next

\* Answered is inductive.
LEMMA AnsweredStep ==
    ASSUME Shape, Durable, Answered, TerminalFinal, ~SupersedesRecovered, [Next]_episodeVars
    PROVE  Answered'
<1>1. AnswerIsDurable'
  BY AnswersStep, AnswerKept DEF Answered, AnswerIsDurable, AnswersGiven
<1>2. CASE owner' = owner
  <2>1. owner'.phase \in {"committed", "recoveredEnd"} => owner'.result \in {NoResult, terminal'}
    BY <1>2, AnswerKept DEF Answered
  <2>2. owner'.phase = "recovered" => owner'.result = NoResult /\ chan'[owner'.lease] # "superseded"
    BY <1>2, ChannelStep DEF Answered
  <2> QED BY <1>1, <2>1, <2>2 DEF Answered
<1>3. CASE OwnerNext
  BY <1>1, <1>2, <1>3, OwnerAnswered DEF Answered
<1>4. CASE ClientNext \/ ReportNext \/ WorkerNext \/ CancelEpisode \/ StorageFault
  BY <1>1, <1>2, <1>4, BystanderFrame DEF Answered, FreshOwner
<1>5. CASE Crash
  BY <1>1, <1>5 DEF Answered, Crash, NoOwner
<1>6. CASE Restart
  <2>1. CASE owner' \in {owner, FreshOwner}
    BY <1>1, <1>2, <2>1 DEF Answered, FreshOwner
  <2>2. ASSUME NEW l \in Leases, owner' = RecoveredOwner(l), chan' = [chan EXCEPT ![l] = "open"]
        PROVE  Answered'
    BY <1>1, <2>2 DEF Answered, RecoveredOwner, Shape, TypeOK
  <2> QED BY <1>6, <2>1, <2>2 DEF Restart
<1>7. CASE UNCHANGED episodeVars
  BY <1>2, <1>7 DEF episodeVars, waitVars
<1> QED BY <1>3, <1>4, <1>5, <1>6, <1>7 DEF Next

-----------------------------------------------------------------------------
(***************************************************************************)
(* Every step is one of EpisodeOutcome, or none.                           *)
(***************************************************************************)
Accepted == {l \in Leases : dropped[l] = "ack"}

\* A step that writes the outcome decides it.
LEMMA DecideStep ==
    ASSUME TypeOK, TypeOK', TerminalFinal, UNCHANGED <<client, dropped>>
    PROVE  [Outcome!OutcomeNext]_(Outcome!outcomeVars)
<1>1. UNCHANGED [c \in Clients |-> client[c].result] /\ UNCHANGED Accepted
  BY DEF Accepted
<1>2. CASE terminal' = terminal
  BY <1>1, <1>2 DEF Outcome!outcomeVars, Accepted
<1>3. CASE terminal' # terminal
  <2>1. terminal = NoResult /\ terminal' \in Results
    BY <1>3 DEF TerminalFinal, TypeOK, MaybeResult
  <2> QED BY <1>1, <2>1 DEF Outcome!OutcomeNext, Outcome!Decide, Accepted
<1> QED BY <1>2, <1>3

\* A step that answers calls answers them with the outcome, or with an error.
LEMMA AnswerStep ==
    ASSUME TypeOK', AnswersGiven, UNCHANGED <<terminal, dropped>>
    PROVE  [Outcome!OutcomeNext]_(Outcome!outcomeVars)
<1> DEFINE answers == [c \in Clients |-> client[c].result]
<1>1. answers' \in [Clients -> Results \union {NoResult}]
  BY DEF TypeOK, ClientRecord, MaybeResult
<1>2. \A c \in Clients : answers'[c] \in {answers[c], terminal, NoResult}
  BY DEF AnswersGiven
<1>3. UNCHANGED terminal /\ UNCHANGED Accepted
  BY DEF Accepted
<1> QED BY <1>1, <1>2, <1>3 DEF Outcome!OutcomeNext, Outcome!Answer, Accepted

\* A worker that is told its result was accepted is told of the outcome.
LEMMA AcceptStep ==
    ASSUME TypeOK, NEW l \in Leases, NEW why \in {"ack", "duplicate"}, Reply(l, why),
           why = "ack" => terminal = WorkerResult(l), UNCHANGED <<terminal, client>>
    PROVE  [Outcome!OutcomeNext]_(Outcome!outcomeVars)
<1>1. UNCHANGED [c \in Clients |-> client[c].result] /\ UNCHANGED terminal
  OBVIOUS
<1>2. Accepted' = Accepted \/ (why = "ack" /\ Accepted' = Accepted \union {l})
  BY DEF Reply, Accepted, TypeOK
<1>3. CASE Accepted' = Accepted
  BY <1>1, <1>3 DEF Outcome!outcomeVars, Accepted
<1>4. CASE why = "ack" /\ Accepted' = Accepted \union {l}
  <2>1. Outcome!Accept
    BY <1>1, <1>4 DEF Outcome!Accept, Accepted
  <2> QED BY <2>1 DEF Outcome!OutcomeNext
<1> QED BY <1>2, <1>3, <1>4

\* The step-wise part of the refinement.
LEMMA OutcomeStep ==
    ASSUME Shape, Shape', Durable, Answered, TerminalFinal, [Next]_episodeVars
    PROVE  [Outcome!OutcomeNext]_(Outcome!outcomeVars)
<1> USE DEF Shape
<1>1. CASE UNCHANGED <<client, dropped>>
  BY <1>1, DecideStep
<1>2. CASE client' # client
  BY <1>2, AnswersStep, AnswerStep
<1>3. CASE ReportNext
  <2>1. ASSUME NEW h \in Handlers, ReportCheck(h) \/ ReportAbsent(h) \/ ReportSend(h)
        PROVE  [Outcome!OutcomeNext]_(Outcome!outcomeVars)
    <3>1. handler[h].lease \in Leases
      BY <2>1 DEF ReportCheck, ReportAbsent, ReportSend, HandlerShape
    <3>2. UNCHANGED <<terminal, client>>
      BY <2>1 DEF ReportCheck, ReportAbsent, ReportSend, storeVars
    <3>3. CASE Reply(handler[h].lease, "ack") /\ handler[h].lease \in idem
      BY <3>1, <3>2, <3>3, AcceptStep DEF Durable, AcceptedIsDurable
    <3>4. CASE Reply(handler[h].lease, "duplicate")
      BY <3>1, <3>2, <3>4, AcceptStep
    <3>5. CASE UNCHANGED dropped
      BY <3>2, <3>5, <1>1
    <3> QED BY <2>1, <3>3, <3>4, <3>5
            DEF ReportCheck, ReportAbsent, ReportSend, Durable, Recorded
  <2>2. ASSUME NEW h \in Handlers,
               \/ \E l \in Leases : ReportBegin(h, l)
               \/ ReportRemove(h) \/ ReportCommit(h) \/ ReportAborted(h) \/ OrphanCommit(h)
        PROVE  [Outcome!OutcomeNext]_(Outcome!outcomeVars)
    BY <2>2, <1>1 DEF ReportBegin, ReportRemove, ReportCommit, ReportAborted, OrphanCommit,
                      workerVars
  <2> QED BY <1>3, <2>1, <2>2 DEF ReportNext
<1>4. CASE OwnerNext
  BY <1>1, <1>2, <1>4, OwnerFrame
<1>5. CASE ClientNext \/ WorkerNext \/ CancelEpisode \/ StorageFault
  BY <1>1, <1>2, <1>5, OtherFrame
<1>6. CASE Crash \/ Restart
  BY <1>1, <1>2, <1>6 DEF Crash, Restart, workerVars
<1>7. CASE UNCHANGED episodeVars
  BY <1>1, <1>7 DEF episodeVars, workerVars
<1> QED BY <1>3, <1>4, <1>5, <1>6, <1>7 DEF Next

-----------------------------------------------------------------------------
(***************************************************************************)
(* The theorems.                                                           *)
(***************************************************************************)
Invariant == Shape /\ Durable /\ Waits /\ RecoveryWaitsForLatest

\* The server starts with an empty store, no tasks and no calls.
LEMMA InitInvariant == Init => Invariant /\ Answered
<1> SUFFICES ASSUME Init PROVE Invariant /\ Answered
  OBVIOUS
<1> USE BoundsTypes DEF Init
<1>1. TypeOK
  <2>1. [phase |-> "idle", result |-> NoResult] \in ClientRecord
    BY ResultTypes DEF ClientRecord
  <2>2. IdleHandler \in HandlerRecord
    BY DEF IdleHandler, HandlerRecord
  <2>3. client \in [Clients -> ClientRecord] /\ handler \in [Handlers -> HandlerRecord]
    BY <2>1, <2>2
  <2>4. /\ 0 \in 0..MaxAttempts /\ 0 \in 0..MaxLeases
        /\ 0 \in 0..MaxCrashes /\ 0 \in 0..MaxFaults
    OBVIOUS
  <2>5. terminal \in MaybeResult /\ owner \in OwnerRecord
    BY ResultTypes, OwnerTypes
  <2> QED BY <2>3, <2>4, <2>5 DEF TypeOK
<1>2. OwnerShape /\ HandlerShape
  BY DEF OwnerShape, HandlerShape, NoOwner, IdleHandler, Awaiting, Recovering
<1>3. Durable
  BY DEF Durable, AcceptedIsDurable, Recorded, IdleHandler
<1>4. Waits
  BY DEF Waits, Down, Unissued, PendingIsAwaited, Taken, NoOwner, IdleHandler, Awaiting,
         Recovering
<1>5. RecoveryWaitsForLatest
  BY DEF RecoveryWaitsForLatest, NoOwner, Recovering
<1>6. Answered
  BY DEF Answered, AnswerIsDurable, NoOwner
<1> QED BY <1>1, <1>2, <1>3, <1>4, <1>5, <1>6 DEF Invariant, Shape

\* The inductive invariant of the episode path holds in every reachable state.
THEOREM EpisodeInvariant == Spec => []Invariant
<1>1. Invariant /\ [Next]_episodeVars => Invariant'
  BY ShapeStep, DurableStep, WaitsStep, RecoveryStep DEF Invariant
<1> QED BY InitInvariant, <1>1, PTL DEF Spec

\* Every variable of submit_episode, ReportResult, recovery, the store and the
\* workers keeps its type.
THEOREM EpisodeTypeCorrect == Spec => []TypeOK
<1>1. Invariant => TypeOK
  BY DEF Invariant, Shape
<1> QED BY <1>1, EpisodeInvariant, PTL

\* A report that report_idempotency records is the durable outcome, and a
\* worker that was acknowledged has such a record.
THEOREM AcceptedResultsDurable == Spec => []AcceptedIsDurable
<1>1. Invariant => AcceptedIsDurable
  BY DEF Invariant, Durable
<1> QED BY <1>1, EpisodeInvariant, PTL

\* With a working store pending_results holds the entry of the owner's lease
\* and no other.
THEOREM PendingEntryAwaited == Spec => []PendingIsAwaited
<1>1. Invariant => PendingIsAwaited
  BY DEF Invariant, Waits
<1> QED BY <1>1, EpisodeInvariant, PTL

\* The wait that recover_native_wait rebuilds is for the latest dispatch as
\* long as it lasts.
THEOREM RecoveredWaitIsLatest == Spec => []RecoveryWaitsForLatest
<1>1. Invariant => RecoveryWaitsForLatest
  BY DEF Invariant
<1> QED BY <1>1, EpisodeInvariant, PTL

\* If no worker is superseded while a recovered wait is pending on it, the
\* whole episode path implements EpisodeOutcome: one outcome, never changed,
\* the only answer, and the only result that is acknowledged.
THEOREM EpisodeImplementsOutcome ==
    ASSUME ~SupersedesRecovered
    PROVE  Spec => ImplementsEpisodeOutcome
<1>1. Invariant /\ Answered /\ [Next]_episodeVars => Answered'
  BY DurableStep, AnsweredStep DEF Invariant
<1>2. Init => Outcome!OutcomeInit
  BY DEF Init, Outcome!OutcomeInit
<1>3. Invariant /\ Invariant' /\ Answered /\ [Next]_episodeVars
        => [Outcome!OutcomeNext]_(Outcome!outcomeVars)
  BY DurableStep, OutcomeStep DEF Invariant
<1> QED BY InitInvariant, EpisodeInvariant, <1>1, <1>2, <1>3, PTL
        DEF Spec, ImplementsEpisodeOutcome, Outcome!OutcomeSpec

====
