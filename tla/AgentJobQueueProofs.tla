------------------------ MODULE AgentJobQueueProofs ------------------------
(***************************************************************************)
(* Theorems about AgentJobQueue, for every set of jobs and agents, every   *)
(* number of crashes and, where the constants allow them, restarts of      *)
(* agents, cancellations and deadlines.                                    *)
(*                                                                         *)
(* A token is an offer of a job under one run: an entry of pending, or the *)
(* entry a poll has taken out and not given away.  A claim is what a       *)
(* reclaim has read of a job's holder and not acted on.  The inductive     *)
(* invariant says that a job has one token while nobody holds it and none  *)
(* while somebody does, and that the run of a token is later than that of  *)
(* every claim: so a reclaim that acts on an old reading finds the row or  *)
(* the entry changed.                                                      *)
(***************************************************************************)
EXTENDS AgentJobQueue, QueueProofs

Holders == Agents \union {NoAgent}
Entries == [agent : Holders, run : Nat]
Phases == {"none", "pending", "leased"} \union AtEnd
Claimed == [job : Jobs, holder : Agents, run : Nat]
Working == {"requeued", "popped", "granted", "unknown", "checked", "recorded", "refused", "error"}

\* The call of an agent names a job while it works on one.
CallOK(c) ==
    /\ c.pc \in Working => c.job \in Jobs
    /\ c.pc = "requeued" => c.holder \in Agents

Calls == [pc : {"idle", "heartbeat", "reclaim"} \union Working, job : Jobs \union {NoAgent},
          run : Nat, holder : Holders, new : Nat, todo : SUBSET Claimed, polls : BOOLEAN]

QueueTypes ==
    /\ pending \in Seq(Leases)
    /\ inflight \in [Jobs -> Entries]
    /\ waiter \in [Jobs -> {"new", "persisted", "waiting", "recovered", "abandoned", "ending", "done", "lost"}]
    /\ rpc \in [Agents -> Calls] /\ \A a \in Agents : CallOK(rpc[a])
    /\ rows \in [Jobs -> [phase : Phases, agent : Holders, run : Nat]]
    /\ episode \in [Jobs -> {"none", "server", "agent"}]
    /\ held \in [Agents -> SUBSET Leases]
    /\ acks \in [Jobs -> SUBSET [agent : Agents, run : Nat]]
    /\ runs \in [Jobs -> Nat]

-----------------------------------------------------------------------------
(* Completion.                                                             *)

Completed(a, r) == [phase |-> "completed", agent |-> a, run |-> r]

\* With a store, ACCEPTED comes after the row and the row never changes again.
StoreRecords ==
    HasStore =>
        /\ \A j \in Jobs : rows[j].phase = "completed" => episode[j] = "agent"
        /\ \A a \in Agents : rpc[a].pc = "recorded" =>
              rows[rpc[a].job] = Completed(a, rpc[a].run)
        /\ \A j \in Jobs : \A l \in acks[j] : rows[j] = Completed(l.agent, l.run)

\* Without one, the entry of an accepted job is gone for good.
MemoryRecords ==
    ~HasStore =>
        \A j \in Jobs :
            /\ waiter[j] \in {"new", "persisted"} => inflight[j] = NoEntry /\ acks[j] = {}
            /\ acks[j] # {} => inflight[j] = NoEntry /\ \E l : acks[j] = {l}

Records == QueueTypes /\ StoreRecords /\ MemoryRecords

-----------------------------------------------------------------------------
(* Tokens and claims.                                                      *)

Hand(a) == rpc[a].pc \in {"popped", "granted"}
Tokens ==
    {pending[i] : i \in 1..Len(pending)}
    \union {Lease(rpc[a].job, rpc[a].run) : a \in {b \in Agents : Hand(b)}}
Claims(a) ==
    rpc[a].todo \union
    (IF rpc[a].pc = "requeued"
     THEN {[job |-> rpc[a].job, holder |-> rpc[a].holder, run |-> rpc[a].run]} ELSE {})

\* No job is offered in two places.
OnePlace ==
    /\ \A i, k \in 1..Len(pending) : pending[i].job = pending[k].job => i = k
    /\ \A a, b \in Agents : Hand(a) /\ Hand(b) /\ rpc[a].job = rpc[b].job => a = b
    /\ \A i \in 1..Len(pending) : \A a \in Agents : Hand(a) => pending[i].job # rpc[a].job

Held(j) == inflight[j].agent # NoAgent

\* A job is offered while it is wanted and nobody holds it.
TokensFit ==
    /\ \A t \in Tokens :
          /\ ~Held(t.job)
          /\ inflight[t.job] # NoEntry => t.run = inflight[t.job].run
          /\ waiter[t.job] \notin {"new", "persisted"}
    /\ \A j \in Jobs :
          /\ inflight[j] # NoEntry /\ ~Held(j) => Lease(j, inflight[j].run) \in Tokens
          /\ waiter[j] \in {"new", "persisted"} => ~Held(j)

\* Recovery makes the entries from the rows.
RowsFit ==
    \A j \in Jobs :
        /\ rows[j].phase = "pending" => rows[j].agent = NoAgent
        /\ rows[j].phase = "leased" => rows[j].agent # NoAgent

Offers == QueueTypes /\ OnePlace /\ TokensFit /\ RowsFit

\* Run ids are made in order, and a claim is older than every token.
RunsInOrder ==
    /\ \A j \in Jobs : runs[j] >= 1 /\ inflight[j].run <= runs[j] /\ rows[j].run <= runs[j]
    /\ \A t \in Tokens : t.run <= runs[t.job]
    /\ \A a \in Agents : rpc[a].pc = "requeued" =>
          rpc[a].run < rpc[a].new /\ rpc[a].new <= runs[rpc[a].job]
ClaimsAreOld ==
    \A a \in Agents : \A c \in Claims(a) :
        /\ c.run <= runs[c.job]
        /\ \A t \in Tokens : t.job = c.job => c.run < t.run
        /\ Held(c.job) => \/ c.run < inflight[c.job].run
                          \/ c.run = inflight[c.job].run /\ c.holder = inflight[c.job].agent
        /\ waiter[c.job] \notin {"new", "persisted"}

LeasedTo(j, a, r) == rows[j] = [phase |-> "leased", agent |-> a, run |-> r]

\* What a poll has been granted is in the row.
GrantsFit ==
    \A a \in Agents : rpc[a].pc = "granted" /\ Recorded(rpc[a].job) =>
        LeasedTo(rpc[a].job, a, rpc[a].run) \/ rows[rpc[a].job].phase \in AtEnd

Agreement == Offers /\ RunsInOrder /\ ClaimsAreOld /\ GrantsFit /\ LeaseAgrees

-----------------------------------------------------------------------------
(* Types.                                                                  *)

LEMMA IdleType == Idle \in Calls /\ CallOK(Idle) /\ Idle.pc = "idle" /\ Idle.todo = {}
BY DEF Idle, Calls, CallOK, Holders, Working

LEMMA EntryType ==
    /\ NoEntry \in Entries /\ NoEntry.agent = NoAgent
    /\ NoRow \in [phase : Phases, agent : Holders, run : Nat] /\ NoRow.phase = "none"
    /\ \A j \in Jobs, r \in Nat : Lease(j, r) \in Leases /\ Lease(j, r).job = j /\ Lease(j, r).run = r
    /\ \A e \in Entries : e = NoEntry <=> e.agent = NoAgent /\ e.run = 0
    /\ \A a \in Agents : a # NoAgent
BY QueueConstants DEF NoEntry, Entries, NoRow, Phases, Holders, Lease, Leases

\* How a row changes.
LEMMA RowSteps ==
    ASSUME NEW x \in [phase : Phases, agent : Holders, run : Nat], NEW a \in Agents, NEW r \in Nat
    PROVE  /\ [x EXCEPT !.phase = "completed", !.agent = a, !.run = r] = Completed(a, r)
           /\ [x EXCEPT !.phase = "leased", !.agent = a] = [phase |-> "leased", agent |-> a, run |-> x.run]
<1> DEFINE R == [phase : Phases, agent : Holders, run : Nat]
           y == [x EXCEPT !.phase = "completed", !.agent = a, !.run = r]
           z == [x EXCEPT !.phase = "leased", !.agent = a]
           w == [phase |-> "leased", agent |-> a, run |-> x.run]
<1>1. /\ y \in R /\ Completed(a, r) \in R /\ z \in R /\ w \in R
      /\ y.phase = "completed" /\ y.agent = a /\ y.run = r
      /\ z.phase = "leased" /\ z.agent = a /\ z.run = x.run
      /\ w.phase = "leased" /\ w.agent = a /\ w.run = x.run
      /\ Completed(a, r).phase = "completed" /\ Completed(a, r).agent = a /\ Completed(a, r).run = r
  BY DEF Completed, Phases, Holders, AtEnd
<1>2. \A u, v \in R : u.phase = v.phase /\ u.agent = v.agent /\ u.run = v.run => u = v
  OBVIOUS
<1> HIDE DEF R, y, z, w
<1>3. y = Completed(a, r) /\ z = w
  BY <1>1, <1>2
<1> QED BY <1>3 DEF y, z, w

\* The call of one agent changes.
LEMMA CallStep ==
    ASSUME QueueTypes, NEW a \in Agents, NEW c \in Calls, CallOK(c), rpc' = [rpc EXCEPT ![a] = c]
    PROVE  /\ rpc' \in [Agents -> Calls]
           /\ \A b \in Agents : CallOK(rpc'[b])
           /\ rpc'[a] = c
           /\ \A b \in Agents : b # a => rpc'[b] = rpc[b]
BY DEF QueueTypes

\* The calls that move on.
LEMMA NextCalls ==
    ASSUME NEW c \in Calls, CallOK(c), NEW todo \in SUBSET Claimed
    PROVE  /\ LET d == [c EXCEPT !.todo = todo]
              IN  /\ d \in Calls /\ CallOK(d) /\ d.todo = todo /\ d.pc = c.pc /\ d.job = c.job
                  /\ d.run = c.run /\ d.holder = c.holder /\ d.new = c.new
           /\ c.pc \in Working => \A p \in Working \ {"requeued"} :
                LET d == [c EXCEPT !.pc = p]
                IN  /\ d \in Calls /\ CallOK(d) /\ d.pc = p /\ d.job = c.job /\ d.run = c.run
                    /\ d.todo = c.todo
BY DEF Calls, CallOK, Holders, Working, Claimed

LEMMA RequeuedCall ==
    ASSUME NEW c \in Calls, CallOK(c), NEW x \in Claimed, NEW n \in Nat
    PROVE  LET d == [c EXCEPT !.pc = "requeued", !.todo = @ \ {x}, !.job = x.job, !.run = x.run,
                              !.holder = x.holder, !.new = n]
           IN  /\ d \in Calls /\ CallOK(d) /\ d.pc = "requeued" /\ d.todo = c.todo \ {x}
               /\ d.job = x.job /\ d.run = x.run /\ d.holder = x.holder /\ d.new = n
BY DEF Calls, CallOK, Holders, Working, Claimed

LEMMA TypesInit == Init => QueueTypes
BY IdleType, EntryType DEF Init, QueueTypes, NoRow, Phases, Holders

LEMMA AbandonTypes ==
    ASSUME QueueTypes, NEW j \in Jobs, abandon(j)
    PROVE  pending' \in Seq(Leases) /\ inflight' \in [Jobs -> Entries]
<1>1. pending' \in Seq(Leases)
  BY KeepProperties DEF abandon, QueueTypes
<1>2. inflight' \in [Jobs -> Entries]
  BY EntryType DEF abandon, QueueTypes
<1> QED BY <1>1, <1>2

LEMMA EpisodeTypes ==
    ASSUME QueueTypes, NEW j \in Jobs, EpisodeTask(j) \/ CancelEpisode(j) PROVE QueueTypes'
<1>1. CASE PersistJob(j)
  BY <1>1 DEF PersistJob, QueueTypes, Phases, Holders, queueVars, storeVars, registryVars
<1>2. CASE enqueue(j)
  <2>1. Lease(j, 1) \in Leases /\ [agent |-> NoAgent, run |-> 1] \in Entries
    BY EntryType DEF Entries, Holders
  <2> QED BY <1>2, <2>1 DEF enqueue, QueueTypes, storeVars, registryVars
<1>3. CASE GiveUp(j)
  BY <1>3, AbandonTypes DEF GiveUp, QueueTypes, storeVars
<1>4. CASE mark_agent_job_terminal(j)
  BY <1>4 DEF mark_agent_job_terminal, QueueTypes, Phases, Holders, AtEnd, queueVars, registryVars
<1>5. CASE TakeCompletion(j)
  BY <1>5 DEF TakeCompletion, QueueTypes, storeVars, queueVars, registryVars
<1>6. CASE CommitLocal(j)
  BY <1>6 DEF CommitLocal, QueueTypes, queueVars, registryVars
<1>7. CASE CancelEpisode(j)
  BY <1>7, AbandonTypes DEF CancelEpisode, QueueTypes, storeVars
<1> QED BY <1>1, <1>2, <1>3, <1>4, <1>5, <1>6, <1>7 DEF EpisodeTask

LEMMA CandidatesType == QueueTypes => Candidates \subseteq Claimed
BY DEF QueueTypes, Candidates, Claimed, Entries, Holders

LEMMA ReclaimTypes ==
    ASSUME QueueTypes, NEW a \in Agents,
           \/ register_agent(a) \/ Ages(a) \/ agent_heartbeat(a) \/ poll_agent_job(a) \/ Reclaim(a)
    PROVE  QueueTypes'
<1> USE DEF queueVars, registryVars, storeVars
<1>t. /\ rpc \in [Agents -> Calls] /\ rpc[a] \in Calls /\ CallOK(rpc[a])
      /\ Candidates \in SUBSET Claimed
  BY CandidatesType DEF QueueTypes
<1>1. CASE register_agent(a)
  BY <1>1 DEF register_agent, QueueTypes
<1>2. CASE Ages(a)
  BY <1>2 DEF Ages, QueueTypes
<1>3. CASE agent_heartbeat(a)
  <2>1. rpc' = [rpc EXCEPT ![a] = [Idle EXCEPT !.pc = "heartbeat"]]
    BY <1>3 DEF agent_heartbeat
  <2>2. rpc' \in [Agents -> Calls] /\ \A b \in Agents : CallOK(rpc'[b])
    <3> DEFINE c == [Idle EXCEPT !.pc = "heartbeat"]
    <3>1. c \in Calls /\ CallOK(c)
      BY DEF Idle, Calls, CallOK, Holders, Working
    <3> QED BY <2>1, <3>1, CallStep
  <2> QED BY <1>3, <2>2 DEF agent_heartbeat, QueueTypes
<1>4. ASSUME NEW polls \in BOOLEAN, StartReclaim(a, polls) PROVE QueueTypes'
  <2> DEFINE c == [Idle EXCEPT !.pc = "reclaim", !.todo = Candidates, !.polls = polls]
  <2>1. c \in Calls /\ CallOK(c)
    BY <1>t DEF Idle, Calls, CallOK, Holders, Working
  <2>2. rpc' = [rpc EXCEPT ![a] = c]
    BY <1>4 DEF StartReclaim
  <2>3. rpc' \in [Agents -> Calls] /\ \A b \in Agents : CallOK(rpc'[b])
    BY <2>1, <2>2, CallStep
  <2> QED BY <1>4, <2>3 DEF StartReclaim, QueueTypes
<1>5. CASE ReclaimCas(a)
  <2>1. PICK c \in rpc[a].todo :
            \/ Requeues(c) /\ Requeue(a, c)
            \/ rpc' = [rpc EXCEPT ![a] = [rpc[a] EXCEPT !.todo = @ \ {c}]] /\ UNCHANGED <<runs, rows>>
    BY <1>5 DEF ReclaimCas
  <2>2. c \in Claimed /\ c.job \in Jobs /\ runs[c.job] + 1 \in Nat
        /\ rpc[a].todo \ {c} \in SUBSET Claimed
    BY <1>t DEF Claimed, Calls, QueueTypes
  <2>3. CASE Requeues(c) /\ Requeue(a, c)
    <3> DEFINE d == [rpc[a] EXCEPT !.pc = "requeued", !.todo = @ \ {c}, !.job = c.job,
                                   !.run = c.run, !.holder = c.holder, !.new = runs[c.job] + 1]
               row == [phase |-> "pending", agent |-> NoAgent, run |-> runs[c.job] + 1]
    <3>1. d \in Calls /\ CallOK(d)
      BY <1>t, <2>2, RequeuedCall
    <3>2. rpc' = [rpc EXCEPT ![a] = d]
      BY <2>3 DEF Requeue
    <3>3. rpc' \in [Agents -> Calls] /\ \A b \in Agents : CallOK(rpc'[b])
      BY <3>1, <3>2, CallStep
    <3>4. runs' \in [Jobs -> Nat]
      BY <2>2, <2>3 DEF QueueTypes, Requeue
    <3>5. row \in [phase : Phases, agent : Holders, run : Nat]
      BY <2>2 DEF Phases, Holders
    <3>6. rows' = (IF HasStore THEN [rows EXCEPT ![c.job] = row] ELSE rows)
      BY <2>3 DEF Requeue
    <3> HIDE DEF row
    <3>7. rows' \in [Jobs -> [phase : Phases, agent : Holders, run : Nat]]
      BY <2>2, <3>5, <3>6 DEF QueueTypes
    <3> QED BY <1>5, <3>3, <3>4, <3>7 DEF ReclaimCas, QueueTypes
  <2>4. CASE rpc' = [rpc EXCEPT ![a] = [rpc[a] EXCEPT !.todo = @ \ {c}]] /\ UNCHANGED <<runs, rows>>
    <3> DEFINE d == [rpc[a] EXCEPT !.todo = @ \ {c}]
    <3>1. d \in Calls /\ CallOK(d)
      BY <1>t, <2>2, NextCalls
    <3>2. rpc' = [rpc EXCEPT ![a] = d]
      BY <2>4
    <3>3. rpc' \in [Agents -> Calls] /\ \A b \in Agents : CallOK(rpc'[b])
      BY <3>1, <3>2, CallStep
    <3> QED BY <1>5, <2>4, <3>3 DEF ReclaimCas, QueueTypes
  <2> QED BY <2>1, <2>3, <2>4
<1>6. CASE ReclaimReplace(a)
  <2> DEFINE d == [Idle EXCEPT !.pc = "reclaim", !.todo = rpc[a].todo, !.polls = rpc[a].polls]
  <2>1. d \in Calls /\ CallOK(d)
    BY <1>t DEF Idle, Calls, CallOK, Holders, Working
  <2>2. rpc' = [rpc EXCEPT ![a] = d]
    BY <1>6 DEF ReclaimReplace
  <2>3. rpc' \in [Agents -> Calls] /\ \A b \in Agents : CallOK(rpc'[b])
    BY <2>1, <2>2, CallStep
  <2>4. rpc[a].job \in Jobs /\ rpc[a].new \in Nat
    BY <1>6, <1>t DEF ReclaimReplace, CallOK, Working, Calls
  <2>5. pending' \in Seq(Leases) /\ inflight' \in [Jobs -> Entries]
    <3>1. Lease(rpc[a].job, rpc[a].new) \in Leases /\ [agent |-> NoAgent, run |-> rpc[a].new] \in Entries
      BY <2>4, EntryType DEF Entries, Holders
    <3> DEFINE l == Lease(rpc[a].job, rpc[a].new)  e == [agent |-> NoAgent, run |-> rpc[a].new]
    <3>2. \/ pending' = Append(pending, l) /\ inflight' = [inflight EXCEPT ![rpc[a].job] = e]
          \/ UNCHANGED <<pending, inflight>>
      BY <1>6 DEF ReclaimReplace
    <3> HIDE DEF l, e
    <3>3. l \in Leases /\ e \in Entries
      BY <3>1 DEF l, e
    <3>4. pending \in Seq(Leases) /\ Append(pending, l) \in Seq(Leases)
      BY <3>3 DEF QueueTypes
    <3>5. inflight \in [Jobs -> Entries] /\ [inflight EXCEPT ![rpc[a].job] = e] \in [Jobs -> Entries]
      BY <3>3 DEF QueueTypes
    <3> QED BY <3>2, <3>4, <3>5, Zenon
  <2> QED BY <1>6, <2>3, <2>5 DEF ReclaimReplace, QueueTypes
<1>7. CASE ReclaimDone(a)
  BY <1>7, IdleType, CallStep DEF ReclaimDone, QueueTypes
<1> QED BY <1>1, <1>2, <1>3, <1>4, <1>5, <1>6, <1>7 DEF Reclaim, poll_agent_job, HeartbeatReclaims

\* A call that goes on to a later point.
LEMMA PcStep ==
    ASSUME QueueTypes, NEW a \in Agents, rpc[a].pc \in Working, NEW p \in Working \ {"requeued"},
           rpc' = [rpc EXCEPT ![a].pc = p]
    PROVE  /\ rpc' \in [Agents -> Calls] /\ \A b \in Agents : CallOK(rpc'[b])
           /\ rpc'[a].pc = p /\ rpc'[a].job = rpc[a].job /\ rpc'[a].run = rpc[a].run
           /\ rpc'[a].todo = rpc[a].todo
           /\ \A b \in Agents : b # a => rpc'[b] = rpc[b]
<1> DEFINE d == [rpc[a] EXCEPT !.pc = p]
<1>1. rpc[a] \in Calls /\ CallOK(rpc[a])
  BY DEF QueueTypes
<1>2. d \in Calls /\ CallOK(d) /\ d.pc = p /\ d.job = rpc[a].job /\ d.run = rpc[a].run
      /\ d.todo = rpc[a].todo
  BY <1>1, NextCalls
<1>3. rpc' = [rpc EXCEPT ![a] = d]
  OBVIOUS
<1> HIDE DEF d
<1> QED BY <1>2, <1>3, CallStep

\* A call that ends.
LEMMA CallEnds ==
    ASSUME QueueTypes, NEW a \in Agents, rpc' = [rpc EXCEPT ![a] = Idle]
    PROVE  /\ rpc' \in [Agents -> Calls] /\ \A b \in Agents : CallOK(rpc'[b])
           /\ rpc'[a] = Idle /\ \A b \in Agents : b # a => rpc'[b] = rpc[b]
BY IdleType, CallStep

\* The first job leaves the queue.
LEMMA Popped ==
    ASSUME NEW s \in Seq(Leases), s # <<>>
    PROVE  /\ Tail(s) \in Seq(Leases) /\ Head(s) \in Leases /\ Head(s) = s[1]
           /\ Head(s).job \in Jobs /\ Head(s).run \in Nat
           /\ Len(s) \in Nat /\ Len(s) >= 1 /\ Len(Tail(s)) = Len(s) - 1
           /\ \A i \in 1..Len(Tail(s)) : Tail(s)[i] = s[i + 1] /\ i + 1 \in 1..Len(s)
<1>1. Len(s) \in Nat /\ Len(s) >= 1 /\ Head(s) = s[1]
  OBVIOUS
<1>2. s[1] \in Leases
  BY <1>1
<1>3. Tail(s) \in Seq(Leases) /\ Len(Tail(s)) = Len(s) - 1
  OBVIOUS
<1>4. \A i \in 1..Len(Tail(s)) : Tail(s)[i] = s[i + 1] /\ i + 1 \in 1..Len(s)
  BY <1>1, <1>3
<1>5. \A l \in Leases : l.job \in Jobs /\ l.run \in Nat
  BY DEF Leases
<1>6. Head(s) \in Leases
  BY <1>1, <1>2
<1>7. Head(s).job \in Jobs /\ Head(s).run \in Nat
  BY <1>5, <1>6
<1> HIDE DEF Leases
<1> QED BY <1>1, <1>3, <1>4, <1>6, <1>7

LEMMA PollTypes == ASSUME QueueTypes, NEW a \in Agents, Poll(a) PROVE QueueTypes'
<1> USE DEF queueVars, registryVars, storeVars
<1>t. /\ rpc \in [Agents -> Calls] /\ rpc[a] \in Calls /\ CallOK(rpc[a])
      /\ rpc[a].pc \in Working => rpc[a].job \in Jobs /\ rpc[a].run \in Nat
  BY DEF QueueTypes, CallOK, Calls
<1>1. CASE PollPop(a)
  <2>1. CASE can_agent_run(a) /\ pending # <<>>
    <3> DEFINE d == [Idle EXCEPT !.pc = "popped", !.job = Head(pending).job, !.run = Head(pending).run]
    <3>1. Tail(pending) \in Seq(Leases) /\ Head(pending).job \in Jobs /\ Head(pending).run \in Nat
      BY <2>1, Popped DEF QueueTypes
    <3>2. d \in Calls /\ CallOK(d)
      BY <3>1 DEF Idle, Calls, CallOK, Holders, Working
    <3>3. rpc' = [rpc EXCEPT ![a] = d] /\ pending' = Tail(pending)
      BY <1>1, <2>1 DEF PollPop
    <3>4. rpc' \in [Agents -> Calls] /\ \A b \in Agents : CallOK(rpc'[b])
      BY <3>2, <3>3, CallStep
    <3> QED BY <1>1, <3>1, <3>3, <3>4 DEF PollPop, QueueTypes
  <2>2. CASE ~ (can_agent_run(a) /\ pending # <<>>)
    BY <1>1, <2>2, CallEnds DEF PollPop, QueueTypes
  <2> QED BY <2>1, <2>2
<1>2. CASE PollLease(a)
  <2>0. rpc[a].pc = "popped" /\ rpc[a].pc \in Working
    BY <1>2 DEF PollLease, Working
  <2>1. CASE rpc' = [rpc EXCEPT ![a].pc = "granted"] /\ pending' = pending
             /\ rows' = IF HasStore THEN [rows EXCEPT ![rpc[a].job].phase = "leased", ![rpc[a].job].agent = a]
                        ELSE rows
    <3>1. rpc' \in [Agents -> Calls] /\ \A b \in Agents : CallOK(rpc'[b])
      BY <2>0, <2>1, PcStep DEF Working
    <3> DEFINE j == rpc[a].job
               row == [phase |-> "leased", agent |-> a, run |-> rows[j].run]
    <3>3. j \in Jobs /\ rows[j] \in [phase : Phases, agent : Holders, run : Nat]
      BY <1>t, <2>0 DEF QueueTypes
    <3>4. rows' = IF HasStore THEN [rows EXCEPT ![j] = row] ELSE rows
      <4>1. [rows[j] EXCEPT !.phase = "leased", !.agent = a] = row
        <5> HIDE DEF j
        <5> QED BY <3>3, RowSteps
      <4> QED BY <2>1, <4>1
    <3>5. row \in [phase : Phases, agent : Holders, run : Nat]
      BY <3>3 DEF Phases, Holders
    <3>6. rows \in [Jobs -> [phase : Phases, agent : Holders, run : Nat]]
      BY DEF QueueTypes
    <3> HIDE DEF row, j
    <3>2. rows' \in [Jobs -> [phase : Phases, agent : Holders, run : Nat]]
      BY <3>3, <3>4, <3>5, <3>6
    <3> QED BY <1>2, <2>1, <3>1, <3>2 DEF PollLease, QueueTypes
  <2>2. CASE rpc' = [rpc EXCEPT ![a] = Idle] /\ rows' = rows
             /\ pending' = <<Lease(rpc[a].job, rpc[a].run)>> \o pending
    <3>1. Lease(rpc[a].job, rpc[a].run) \in Leases
      BY <1>t, <2>0, EntryType
    <3> DEFINE l == Lease(rpc[a].job, rpc[a].run)
    <3>3. l \in Leases /\ pending' = <<l>> \o pending /\ pending \in Seq(Leases)
      BY <2>2, <3>1 DEF QueueTypes
    <3> HIDE DEF l
    <3>2. pending' \in Seq(Leases)
      <4>1. <<l>> \in Seq(Leases)
        BY <3>3
      <4> QED BY <3>3, <4>1, ConcatProperties
    <3> QED BY <1>2, <2>2, <3>2, CallEnds DEF PollLease, QueueTypes
  <2> QED BY <1>2, <2>1, <2>2 DEF PollLease
<1>3. CASE PollHandOut(a)
  <2>0. rpc[a].job \in Jobs /\ rpc[a].run \in Nat /\ rpc' = [rpc EXCEPT ![a] = Idle]
    BY <1>3, <1>t DEF PollHandOut, Working
  <2> DEFINE j == rpc[a].job  l == Lease(j, rpc[a].run)  e == [inflight[j] EXCEPT !.agent = a]
  <2>3. \/ inflight' = [inflight EXCEPT ![j] = e] /\ held' = [held EXCEPT ![a] = held[a] \union {l}]
        \/ UNCHANGED <<inflight, held>>
    BY <1>3 DEF PollHandOut
  <2>4. j \in Jobs /\ l \in Leases /\ e \in Entries
    <3>1. inflight[j] \in Entries
      BY <2>0 DEF QueueTypes
    <3>2. e \in Entries
      BY <3>1 DEF Entries, Holders
    <3> QED BY <2>0, <3>2, EntryType
  <2>5. inflight \in [Jobs -> Entries] /\ held \in [Agents -> SUBSET Leases]
    BY DEF QueueTypes
  <2> HIDE DEF j, l, e
  <2>1. inflight' \in [Jobs -> Entries]
    BY <2>3, <2>4, <2>5
  <2>2. held' \in [Agents -> SUBSET Leases]
    BY <2>3, <2>4, <2>5
  <2> QED BY <1>3, <2>0, <2>1, <2>2, CallEnds DEF PollHandOut, QueueTypes
<1> QED BY <1>1, <1>2, <1>3 DEF Poll

\* The answers of a commit: recorded is answered when the row is the lease's.
LEMMA CommitAnswer ==
    ASSUME QueueTypes, NEW a \in Agents, CompleteCommit(a)
    PROVE  LET j == rpc[a].job  row == Completed(a, rpc[a].run) IN
           \E p \in {"refused", "error", "recorded"} :
             /\ rpc' = [rpc EXCEPT ![a].pc = p]
             /\ \/ /\ HasStore /\ p = "recorded"
                   /\ rows' = [rows EXCEPT ![j] = row] /\ episode' = [episode EXCEPT ![j] = "agent"]
                   /\ LeasedTo(j, a, rpc[a].run) /\ episode[j] # "server"
                \/ /\ UNCHANGED <<rows, episode>>
                   /\ HasStore /\ p = "recorded" => rows[j] = row
<1> DEFINE j == rpc[a].job
           d == CommitDecision(j, a, rpc[a].run)
           clash == d = "commit" /\ episode[j] = "server"
           ok == HasStore => storeUp /\ ~clash
           row == Completed(a, rpc[a].run)
<1>0. j \in Jobs /\ rows[j] \in [phase : Phases, agent : Holders, run : Nat]
  BY DEF CompleteCommit, QueueTypes, CallOK, Working
<1>1. /\ d \in {"missing", "replay", "commit", "conflict"}
      /\ d = "commit" => LeasedTo(j, a, rpc[a].run)
      /\ d = "replay" => rows[j] = row
  BY DEF CommitDecision, LeasedTo, Completed
<1>2. [rows[j] EXCEPT !.phase = "completed", !.agent = a, !.run = rpc[a].run] = row
  <2>1. rpc[a].run \in Nat
    BY DEF QueueTypes, Calls
  <2> HIDE DEF j
  <2> QED BY <1>0, <2>1, RowSteps
<1> DEFINE p == IF ~ok THEN "error"
                ELSE IF HasStore /\ d \in {"missing", "conflict"} THEN "refused"
                ELSE "recorded"
<1>3. rpc' = [rpc EXCEPT ![a].pc = p]
  BY DEF CompleteCommit
<1>4. IF HasStore /\ ok /\ d = "commit"
      THEN /\ rows' = [rows EXCEPT ![j] = [rows[j] EXCEPT !.phase = "completed", !.agent = a, !.run = rpc[a].run]]
           /\ episode' = [episode EXCEPT ![j] = "agent"]
      ELSE UNCHANGED <<rows, episode>>
  BY DEF CompleteCommit
<1>5. IF HasStore /\ ok /\ d = "commit"
      THEN rows' = [rows EXCEPT ![j] = row] /\ episode' = [episode EXCEPT ![j] = "agent"]
      ELSE UNCHANGED <<rows, episode>>
  BY <1>2, <1>4
<1>6. /\ p \in {"refused", "error", "recorded"}
      /\ HasStore /\ p = "recorded" => ok /\ d \in {"commit", "replay"}
      /\ HasStore /\ ok /\ d = "commit" => p = "recorded"
  <2> HIDE DEF d, ok
  <2> QED BY <1>1
<1>7. HasStore /\ ok /\ d = "commit" => episode[j] # "server"
  OBVIOUS
<1> HIDE DEF d, ok, row, j, p
<1>8. \/ /\ HasStore /\ p = "recorded"
         /\ rows' = [rows EXCEPT ![j] = row] /\ episode' = [episode EXCEPT ![j] = "agent"]
         /\ LeasedTo(j, a, rpc[a].run) /\ episode[j] # "server"
      \/ /\ UNCHANGED <<rows, episode>>
         /\ HasStore /\ p = "recorded" => rows[j] = row
  BY <1>1, <1>5, <1>6, <1>7
<1> QED BY <1>3, <1>6, <1>8 DEF j, row

LEMMA CompleteTypes ==
    ASSUME QueueTypes, NEW a \in Agents, Complete(a) \/ Disconnect(a) PROVE QueueTypes'
<1> USE DEF queueVars, registryVars, storeVars
<1>t. /\ rpc \in [Agents -> Calls] /\ rpc[a] \in Calls /\ CallOK(rpc[a])
      /\ rpc[a].pc \in Working => rpc[a].job \in Jobs /\ rpc[a].run \in Nat
  BY DEF QueueTypes, CallOK, Calls
<1>1. CASE CompleteCheck(a)
  <2>1. PICK l \in held[a], p \in {"unknown", "checked", "refused"} :
            rpc' = [rpc EXCEPT ![a] = [Idle EXCEPT !.job = l.job, !.run = l.run, !.pc = p]]
    BY <1>1 DEF CompleteCheck
  <2>2. l.job \in Jobs /\ l.run \in Nat
    BY DEF QueueTypes, Leases
  <2> DEFINE d == [Idle EXCEPT !.job = l.job, !.run = l.run, !.pc = p]
  <2>3. d \in Calls /\ CallOK(d)
    BY <2>2 DEF Idle, Calls, CallOK, Holders, Working
  <2>4. rpc' \in [Agents -> Calls] /\ \A b \in Agents : CallOK(rpc'[b])
    BY <2>1, <2>3, CallStep
  <2> QED BY <1>1, <2>4 DEF CompleteCheck, QueueTypes
<1>2. CASE CompleteUnknown(a)
  <2>1. PICK p \in {"refused", "error"} : rpc' = [rpc EXCEPT ![a].pc = p]
    BY <1>2 DEF CompleteUnknown
  <2>2. rpc' \in [Agents -> Calls] /\ \A b \in Agents : CallOK(rpc'[b])
    BY <1>2, <2>1, PcStep DEF CompleteUnknown, Working
  <2> QED BY <1>2, <2>2 DEF CompleteUnknown, QueueTypes
<1>3. CASE CompleteCommit(a)
  <2>1. PICK p \in {"refused", "error", "recorded"} : rpc' = [rpc EXCEPT ![a].pc = p]
    BY <1>3, Zenon, CommitAnswer
  <2>2. rpc' \in [Agents -> Calls] /\ \A b \in Agents : CallOK(rpc'[b])
    BY <1>3, <2>1, PcStep DEF CompleteCommit, Working
  <2>3. rows' \in [Jobs -> [phase : Phases, agent : Holders, run : Nat]]
        /\ episode' \in [Jobs -> {"none", "server", "agent"}]
    <3> DEFINE j == rpc[a].job
    <3> DEFINE row == Completed(a, rpc[a].run)
    <3>2. j \in Jobs /\ rpc[a].run \in Nat /\ a \in Holders
      BY <1>3, <1>t DEF CompleteCommit, Working, Holders
    <3>1. \/ rows' = [rows EXCEPT ![j] = row] /\ episode' = [episode EXCEPT ![j] = "agent"]
          \/ UNCHANGED <<rows, episode>>
      BY <1>3, CommitAnswer
    <3>3. row \in [phase : Phases, agent : Holders, run : Nat]
      BY <3>2 DEF Completed, Phases, AtEnd
    <3>4. /\ rows \in [Jobs -> [phase : Phases, agent : Holders, run : Nat]]
          /\ episode \in [Jobs -> {"none", "server", "agent"}]
      BY DEF QueueTypes
    <3> HIDE DEF j, row
    <3> QED BY <3>1, <3>2, <3>3, <3>4
  <2> QED BY <1>3, <2>2, <2>3 DEF CompleteCommit, QueueTypes
<1>4. CASE CompleteDeliver(a)
  <2>1. rpc' \in [Agents -> Calls] /\ \A b \in Agents : CallOK(rpc'[b])
    BY <1>4, PcStep DEF CompleteDeliver, Working
  <2>2. rpc[a].job \in Jobs /\ rpc[a].run \in Nat
    BY <1>4, <1>t DEF CompleteDeliver, Working
  <2>3. inflight' \in [Jobs -> Entries]
    BY <1>4, <2>2, EntryType DEF CompleteDeliver, QueueTypes
  <2>4. acks' \in [Jobs -> SUBSET [agent : Agents, run : Nat]]
    BY <1>4, <2>2 DEF CompleteDeliver, QueueTypes
  <2> QED BY <1>4, <2>1, <2>3, <2>4 DEF CompleteDeliver, QueueTypes
<1>5. CASE CompleteAnswer(a)
  BY <1>5, CallEnds DEF CompleteAnswer, QueueTypes
<1>6. CASE CompleteFails(a)
  BY <1>6, CallEnds DEF CompleteFails, QueueTypes
<1>7. CASE Disconnect(a)
  BY <1>7, CallEnds DEF Disconnect, QueueTypes
<1> QED BY <1>1, <1>2, <1>3, <1>4, <1>5, <1>6, <1>7 DEF Complete

\* Recovery puts every pending row in the queue once.
LEMMA RestoredOrder ==
    ASSUME QueueTypes, NEW s \in SetToSeqs(RestoredQueue)
    PROVE  /\ s \in Seq(Leases)
           /\ {s[i] : i \in 1..Len(s)} = RestoredQueue
           /\ \A i, k \in 1..Len(s) : s[i].job = s[k].job => i = k
<1> DEFINE n == Cardinality(RestoredQueue)
<1>1. IsFiniteSet(RestoredQueue) /\ RestoredQueue \subseteq Leases
  <2> DEFINE P == {k \in Jobs : rows[k].phase = "pending"}
             f == [j \in P |-> Lease(j, rows[j].run)]
  <2>1. IsFiniteSet(P)
    BY QueueConstants, FS_Subset
  <2>2. f \in Surjection(P, RestoredQueue)
    BY DEF Surjection, RestoredQueue
  <2>3. RestoredQueue \subseteq Leases
    BY EntryType DEF RestoredQueue, QueueTypes
  <2> HIDE DEF P, f
  <2> QED BY <2>1, <2>2, <2>3, FS_Surjection
<1>2. n \in Nat /\ s \in [1..n -> RestoredQueue]
      /\ \A i, k \in 1..n : i # k => s[i] # s[k]
  BY <1>1, FS_CardinalityType DEF SetToSeqs
<1>3. s \in Seq(Leases) /\ Len(s) = n
  <2> HIDE DEF n
  <2> QED BY <1>1, <1>2
<1>4. s \in Surjection(1..n, RestoredQueue)
  <2>1. s \in Injection(1..n, RestoredQueue)
    BY <1>2 DEF Injection, IsInjective
  <2>2. IsFiniteSet(1..n) /\ Cardinality(1..n) = n
    BY <1>2, FS_Interval
  <2>3. Cardinality(1..n) = Cardinality(RestoredQueue)
    BY <2>2
  <2> HIDE DEF n
  <2> QED BY <1>1, <2>1, <2>3, FS_Injection
<1>5. {s[i] : i \in 1..Len(s)} = RestoredQueue
  BY <1>2, <1>3, <1>4 DEF Surjection
<1>6. \A x, y \in RestoredQueue : x.job = y.job => x = y
  BY DEF RestoredQueue, Lease
<1>7. ASSUME NEW i \in 1..n, NEW k \in 1..n, s[i].job = s[k].job PROVE i = k
  BY <1>2, <1>6, <1>7
<1> QED BY <1>3, <1>5, <1>7

LEMMA RecoverTypes == ASSUME QueueTypes, CrashAndRecover PROVE QueueTypes'
<1>1. pending' \in Seq(Leases)
  BY RestoredOrder DEF CrashAndRecover
<1>2. inflight' \in [Jobs -> Entries]
  <2>1. \A j \in Jobs : [agent |-> rows[j].agent, run |-> rows[j].run] \in Entries
    BY DEF QueueTypes, Entries
  <2> QED BY <2>1, EntryType DEF CrashAndRecover
<1>3. waiter' \in [Jobs -> {"new", "persisted", "waiting", "recovered", "abandoned", "ending", "done", "lost"}]
  BY DEF CrashAndRecover, AfterRestart, QueueTypes
<1>4. rpc' \in [Agents -> Calls] /\ \A b \in Agents : CallOK(rpc'[b])
  BY IdleType DEF CrashAndRecover
<1> QED BY <1>1, <1>2, <1>3, <1>4 DEF CrashAndRecover, QueueTypes

LEMMA TypesStep == ASSUME QueueTypes, [Next]_jobVars PROVE QueueTypes'
<1>1. CASE UNCHANGED jobVars
  BY <1>1 DEF jobVars, QueueTypes, queueVars, registryVars, storeVars
<1> QED BY <1>1, EpisodeTypes, ReclaimTypes, PollTypes, CompleteTypes, RecoverTypes DEF Next

-----------------------------------------------------------------------------
(* Completion: a row that is completed stays as it is.                     *)

LEMMA RowsKept ==
    ASSUME QueueTypes, HasStore, [Next]_jobVars
    PROVE  \A j \in Jobs :
              /\ rows[j].phase = "completed" => rows'[j] = rows[j]
              /\ episode[j] = "agent" => episode'[j] = "agent"
              /\ rows'[j].phase = "completed" => rows[j].phase = "completed" \/ episode'[j] = "agent"
<1> USE DEF queueVars, registryVars, storeVars
<1> DEFINE R == [phase : Phases, agent : Holders, run : Nat]
           Kept == UNCHANGED <<rows, episode>>
           Goal == \A j \in Jobs :
              /\ rows[j].phase = "completed" => rows'[j] = rows[j]
              /\ episode[j] = "agent" => episode'[j] = "agent"
              /\ rows'[j].phase = "completed" => rows[j].phase = "completed" \/ episode'[j] = "agent"
<1>t. rows \in [Jobs -> R] /\ episode \in [Jobs -> {"none", "server", "agent"}]
  BY DEF QueueTypes
<1>0. Kept => Goal
  OBVIOUS
<1>c. ASSUME NEW j \in Jobs, NEW row, rows' = [rows EXCEPT ![j] = row], rows[j].phase # "completed",
             \/ episode' = episode /\ row.phase # "completed"
             \/ episode' = [episode EXCEPT ![j] = "agent"]
      PROVE  Goal
  BY <1>c, <1>t
<1>1. ASSUME NEW j \in Jobs, EpisodeTask(j) \/ CancelEpisode(j) PROVE Goal
  <2>1. CASE PersistJob(j)
    <3> DEFINE row == [phase |-> "pending", agent |-> NoAgent, run |-> 1]
    <3>1. Kept \/ (rows' = [rows EXCEPT ![j] = row] /\ rows[j].phase = "none" /\ episode' = episode)
      BY <2>1 DEF PersistJob
    <3>2. row.phase = "pending"
      OBVIOUS
    <3> HIDE DEF row, Goal
    <3> QED BY <3>1, <3>2, <1>0, <1>c
  <2>2. CASE mark_agent_job_terminal(j)
    <3> DEFINE row == [rows[j] EXCEPT !.phase = "timed_out"]
    <3>1. Kept \/ (rows' = [rows EXCEPT ![j] = row] /\ rows[j].phase \notin AtEnd /\ episode' = episode)
      BY <2>2 DEF mark_agent_job_terminal
    <3>2. row.phase = "timed_out"
      BY <1>t
    <3>3. "completed" \in AtEnd
      BY DEF AtEnd
    <3> HIDE DEF row, Goal
    <3> QED BY <3>1, <3>2, <3>3, <1>0, <1>c
  <2>3. CASE CommitLocal(j)
    BY <2>3, <1>t DEF CommitLocal
  <2>4. CASE enqueue(j) \/ GiveUp(j) \/ TakeCompletion(j) \/ CancelEpisode(j)
    BY <2>4 DEF enqueue, GiveUp, TakeCompletion, CancelEpisode
  <2> QED BY <1>1, <2>1, <2>2, <2>3, <2>4 DEF EpisodeTask
<1>2. ASSUME NEW a \in Agents,
             \/ register_agent(a) \/ Ages(a) \/ agent_heartbeat(a) \/ poll_agent_job(a)
             \/ Reclaim(a) \/ Poll(a) \/ Complete(a) \/ Disconnect(a)
      PROVE  Goal
  <2>t. /\ rpc[a] \in Calls
        /\ rpc[a].pc \in Working => rpc[a].job \in Jobs
        /\ \A c \in rpc[a].todo : c.job \in Jobs
    BY DEF QueueTypes, CallOK, Calls, Claimed
  <2>1. CASE ReclaimCas(a)
    <3>1. Kept \/ \E c \in rpc[a].todo : Requeues(c) /\ Requeue(a, c) /\ episode' = episode
      BY <2>1 DEF ReclaimCas
    <3>2. ASSUME NEW c \in rpc[a].todo, Requeues(c), Requeue(a, c), episode' = episode PROVE Goal
      <4> DEFINE row == [phase |-> "pending", agent |-> NoAgent, run |-> runs[c.job] + 1]
      <4>1. rows' = [rows EXCEPT ![c.job] = row]
        BY <3>2 DEF Requeue
      <4>2. rows[c.job].phase = "leased" /\ row.phase = "pending" /\ c.job \in Jobs
        BY <2>t, <3>2 DEF Requeues
      <4> HIDE DEF row, Goal
      <4> QED BY <4>1, <4>2, <3>2, <1>c
    <3> QED BY <3>1, <3>2, <1>0
  <2>2. CASE PollLease(a)
    <3> DEFINE j == rpc[a].job
               row == [phase |-> "leased", agent |-> a, run |-> rows[j].run]
               row0 == [rows[j] EXCEPT !.phase = "leased", !.agent = a]
    <3>1. Kept \/ (rows' = [rows EXCEPT ![j] = row0] /\ rows[j].phase = "pending" /\ episode' = episode)
      BY <2>2 DEF PollLease
    <3>2. j \in Jobs
      BY <2>2, <2>t DEF PollLease, Working
    <3>3. row0 = row /\ row.phase = "leased"
      <4>1. rows[j] \in R
        BY <1>t, <3>2
      <4> HIDE DEF j
      <4> QED BY <4>1, RowSteps
    <3> HIDE DEF row, row0, j, Goal
    <3> QED BY <3>1, <3>2, <3>3, <1>0, <1>c
  <2>3. CASE CompleteCommit(a)
    <3> DEFINE j == rpc[a].job  row == Completed(a, rpc[a].run)
    <3>1. \/ /\ rows' = [rows EXCEPT ![j] = row] /\ episode' = [episode EXCEPT ![j] = "agent"]
             /\ LeasedTo(j, a, rpc[a].run)
          \/ Kept
      BY <2>3, CommitAnswer
    <3>2. j \in Jobs
      BY <2>3, <2>t DEF CompleteCommit, Working
    <3>3. LeasedTo(j, a, rpc[a].run) => rows[j].phase # "completed"
      BY DEF LeasedTo
    <3> HIDE DEF j, row, Goal
    <3> QED BY <3>1, <3>2, <3>3, <1>0, <1>c
  <2>4. CASE \/ register_agent(a) \/ Ages(a) \/ agent_heartbeat(a) \/ poll_agent_job(a)
             \/ HeartbeatReclaims(a) \/ ReclaimReplace(a) \/ ReclaimDone(a)
    BY <2>4 DEF register_agent, Ages, agent_heartbeat, poll_agent_job, HeartbeatReclaims,
                StartReclaim, ReclaimReplace, ReclaimDone
  <2>5. CASE \/ PollPop(a) \/ PollHandOut(a) \/ CompleteCheck(a) \/ CompleteUnknown(a)
             \/ CompleteDeliver(a) \/ CompleteAnswer(a) \/ CompleteFails(a) \/ Disconnect(a)
    BY <2>5 DEF PollPop, PollHandOut, CompleteCheck, CompleteUnknown, CompleteDeliver,
                CompleteAnswer, CompleteFails, Disconnect
  <2> QED BY <1>2, <2>1, <2>2, <2>3, <2>4, <2>5 DEF Reclaim, Poll, Complete
<1>3. CASE CrashAndRecover
  BY <1>3 DEF CrashAndRecover
<1>4. CASE UNCHANGED jobVars
  BY <1>4 DEF jobVars
<1> HIDE DEF Goal
<1> QED BY <1>1, <1>2, <1>3, <1>4 DEF Next, Goal

\* Which steps of an agent lead its call to the points that matter.
LEMMA CallMoves ==
    ASSUME QueueTypes, NEW a \in Agents,
           \/ agent_heartbeat(a) \/ poll_agent_job(a)
           \/ Reclaim(a) \/ Poll(a) \/ Complete(a) \/ Disconnect(a)
    PROVE  /\ rpc'[a].pc = "recorded" => CompleteCommit(a)
           /\ rpc'[a].pc \in {"popped", "granted"} => PollPop(a) \/ PollLease(a)
           /\ rpc'[a].pc = "requeued" => ReclaimCas(a)
           /\ \A b \in Agents : b # a => rpc'[b] = rpc[b]
<1> DEFINE Goal ==
        /\ rpc'[a].pc = "recorded" => CompleteCommit(a)
        /\ rpc'[a].pc \in {"popped", "granted"} => PollPop(a) \/ PollLease(a)
        /\ rpc'[a].pc = "requeued" => ReclaimCas(a)
        /\ \A b \in Agents : b # a => rpc'[b] = rpc[b]
<1>t. rpc \in [Agents -> Calls] /\ rpc[a] \in Calls
  BY DEF QueueTypes
<1>c. ASSUME NEW c, rpc' = [rpc EXCEPT ![a] = c],
             /\ c.pc = "recorded" => CompleteCommit(a)
             /\ c.pc \in {"popped", "granted"} => PollPop(a) \/ PollLease(a)
             /\ c.pc = "requeued" => ReclaimCas(a)
      PROVE  Goal
  BY <1>c, <1>t
<1>i. Idle \in Calls /\ Idle.pc = "idle"
  BY IdleType
<1>e. rpc' = [rpc EXCEPT ![a] = Idle] => Goal
  BY <1>i, <1>c
<1> SUFFICES Goal
  OBVIOUS
<1> HIDE DEF Goal
<1>1. CASE agent_heartbeat(a) \/ poll_agent_job(a) \/ HeartbeatReclaims(a)
  <2>1. PICK polls : \/ rpc' = [rpc EXCEPT ![a] = [Idle EXCEPT !.pc = "heartbeat"]]
                     \/ rpc' = [rpc EXCEPT ![a] = [Idle EXCEPT !.pc = "reclaim", !.todo = Candidates,
                                                              !.polls = polls]]
    BY <1>1 DEF agent_heartbeat, poll_agent_job, HeartbeatReclaims, StartReclaim
  <2>2. /\ [Idle EXCEPT !.pc = "heartbeat"].pc = "heartbeat"
        /\ [Idle EXCEPT !.pc = "reclaim", !.todo = Candidates, !.polls = polls].pc = "reclaim"
    BY DEF Idle
  <2> QED BY <2>1, <2>2, <1>c
<1>2. CASE ReclaimCas(a)
  <2>1. PICK x : \/ Requeue(a, x)
                 \/ rpc' = [rpc EXCEPT ![a] = [rpc[a] EXCEPT !.todo = @ \ {x}]]
    BY <1>2 DEF ReclaimCas
  <2> DEFINE c == [rpc[a] EXCEPT !.pc = "requeued", !.todo = @ \ {x}, !.job = x.job, !.run = x.run,
                                 !.holder = x.holder, !.new = runs[x.job] + 1]
             d == [rpc[a] EXCEPT !.todo = @ \ {x}]
  <2>2. c.pc = "requeued" /\ d.pc = rpc[a].pc /\ rpc[a].pc = "reclaim"
    BY <1>2, <1>t DEF Calls, ReclaimCas
  <2>3. rpc' = [rpc EXCEPT ![a] = c] \/ rpc' = [rpc EXCEPT ![a] = d]
    BY <2>1 DEF Requeue
  <2> HIDE DEF c, d
  <2> QED BY <2>2, <2>3, <1>c, <1>2
<1>3. CASE ReclaimReplace(a) \/ ReclaimDone(a)
  <2> DEFINE c == [Idle EXCEPT !.pc = "reclaim", !.todo = rpc[a].todo, !.polls = rpc[a].polls]
  <2>1. rpc' = [rpc EXCEPT ![a] = c] \/ rpc' = [rpc EXCEPT ![a] = Idle]
    BY <1>3 DEF ReclaimReplace, ReclaimDone
  <2>2. c.pc = "reclaim"
    BY DEF Idle
  <2> QED BY <2>1, <2>2, <1>c, <1>e
<1>4. CASE PollPop(a)
  <2> DEFINE c == [Idle EXCEPT !.pc = "popped", !.job = Head(pending).job, !.run = Head(pending).run]
  <2>1. rpc' = [rpc EXCEPT ![a] = c] \/ rpc' = [rpc EXCEPT ![a] = Idle]
    BY <1>4 DEF PollPop
  <2>2. c.pc = "popped"
    BY DEF Idle
  <2> QED BY <2>1, <2>2, <1>c, <1>e, <1>4
<1>p. ASSUME NEW p \in Working \ {"requeued"}, rpc' = [rpc EXCEPT ![a].pc = p], rpc[a].pc \in Working
      PROVE  rpc'[a].pc = p /\ \A b \in Agents : b # a => rpc'[b] = rpc[b]
  BY <1>p, PcStep
<1>5. CASE PollLease(a)
  <2>1. rpc' = [rpc EXCEPT ![a].pc = "granted"] \/ rpc' = [rpc EXCEPT ![a] = Idle]
    BY <1>5 DEF PollLease
  <2> QED BY <1>5, <2>1, <1>e, <1>p DEF PollLease, Working, Goal
<1>6. CASE PollHandOut(a) \/ CompleteAnswer(a) \/ CompleteFails(a) \/ Disconnect(a)
  BY <1>6, <1>e DEF PollHandOut, CompleteAnswer, CompleteFails, Disconnect
<1>7. CASE CompleteCheck(a)
  <2>1. PICK l \in held[a], p \in {"unknown", "checked", "refused"} :
            rpc' = [rpc EXCEPT ![a] = [Idle EXCEPT !.job = l.job, !.run = l.run, !.pc = p]]
    BY <1>7 DEF CompleteCheck
  <2> DEFINE c == [Idle EXCEPT !.job = l.job, !.run = l.run, !.pc = p]
  <2>2. c.pc = p
    BY DEF Idle
  <2>3. rpc' = [rpc EXCEPT ![a] = c]
    BY <2>1
  <2> HIDE DEF c
  <2> QED BY <2>2, <2>3, <1>c
<1>8. CASE CompleteUnknown(a) \/ CompleteDeliver(a)
  <2>1. PICK p \in {"refused", "error"} : rpc' = [rpc EXCEPT ![a].pc = p]
    BY <1>8 DEF CompleteUnknown, CompleteDeliver
  <2> QED BY <1>8, <2>1, <1>p DEF CompleteUnknown, CompleteDeliver, Working, Goal
<1>9. CASE CompleteCommit(a)
  <2>1. PICK p \in {"refused", "error", "recorded"} : rpc' = [rpc EXCEPT ![a].pc = p]
    BY <1>9, CommitAnswer
  <2> QED BY <1>9, <2>1, <1>p DEF CompleteCommit, Working, Goal
<1> QED BY <1>1, <1>2, <1>3, <1>4, <1>5, <1>6, <1>7, <1>8, <1>9 DEF Reclaim, Poll, Complete, Goal

LEMMA StoreRecordsStep ==
    ASSUME Records, HasStore, [Next]_jobVars PROVE StoreRecords'
<1> USE DEF queueVars, registryVars, storeVars
<1>t. QueueTypes /\ StoreRecords
  BY DEF Records
<1>s. /\ \A j \in Jobs : rows[j].phase = "completed" => episode[j] = "agent"
      /\ \A a \in Agents : rpc[a].pc = "recorded" => rows[rpc[a].job] = Completed(a, rpc[a].run)
      /\ \A j \in Jobs : \A l \in acks[j] : rows[j] = Completed(l.agent, l.run)
  BY <1>t DEF StoreRecords
<1>k. /\ \A j \in Jobs : rows[j].phase = "completed" => rows'[j] = rows[j]
      /\ \A j \in Jobs : rows'[j].phase = "completed" => episode'[j] = "agent"
  BY <1>t, <1>s, RowsKept
<1>p. /\ \A a, r : Completed(a, r).phase = "completed"
      /\ \A a \in Agents : rpc[a].pc = "recorded" => rpc[a].job \in Jobs
  BY <1>t DEF Completed, QueueTypes, CallOK, Working
<1>1. ASSUME \A a \in Agents : rpc'[a].pc = "recorded" => rpc'[a] = rpc[a], acks' = acks
      PROVE  StoreRecords'
  BY <1>1, <1>s, <1>k, <1>p DEF StoreRecords
<1>2. ASSUME NEW a \in Agents, CompleteCommit(a) PROVE StoreRecords'
  <2> DEFINE j == rpc[a].job  row == Completed(a, rpc[a].run)
  <2>1. PICK p \in {"refused", "error", "recorded"} :
          /\ rpc' = [rpc EXCEPT ![a].pc = p]
          /\ \/ p = "recorded" /\ rows' = [rows EXCEPT ![j] = row]
             \/ rows' = rows /\ (p = "recorded" => rows[j] = row)
    BY <1>2, <1>t, CommitAnswer
  <2>2. /\ rpc'[a].pc = p /\ rpc'[a].job = j /\ rpc'[a].run = rpc[a].run
        /\ \A b \in Agents : b # a => rpc'[b] = rpc[b]
    BY <1>2, <1>t, <2>1, PcStep DEF CompleteCommit, Working
  <2>3. j \in Jobs /\ rows \in [Jobs -> [phase : Phases, agent : Holders, run : Nat]]
    BY <1>2, <1>t DEF CompleteCommit, QueueTypes, CallOK, Working
  <2>4. p = "recorded" => rows'[j] = row
    BY <2>1, <2>3
  <2>5. acks' = acks
    BY <1>2 DEF CompleteCommit
  <2>6. ASSUME NEW b \in Agents, rpc'[b].pc = "recorded"
        PROVE  rows'[rpc'[b].job] = Completed(b, rpc'[b].run)
    <3>1. CASE b = a
      BY <2>2, <2>4, <2>6, <3>1
    <3>2. CASE b # a
      BY <2>2, <2>6, <3>2, <1>s, <1>k, <1>p
    <3> QED BY <3>1, <3>2
  <2> HIDE DEF j, row
  <2> QED BY <2>5, <2>6, <1>s, <1>k, <1>p DEF StoreRecords
<1>3. ASSUME NEW a \in Agents, CompleteDeliver(a) PROVE StoreRecords'
  <2> DEFINE j == rpc[a].job  l == [agent |-> a, run |-> rpc[a].run]
  <2>1. acks' = acks \/ acks' = [acks EXCEPT ![j] = acks[j] \union {l}]
    BY <1>3 DEF CompleteDeliver
  <2>2. rows[j] = Completed(l.agent, l.run) /\ j \in Jobs
    BY <1>3, <1>s, <1>p DEF CompleteDeliver
  <2>3. \A b \in Agents : rpc'[b].pc = "recorded" => rpc'[b] = rpc[b]
    <3>1. ~ CompleteCommit(a)
      BY <1>3 DEF CompleteDeliver, CompleteCommit
    <3> QED BY <1>3, <3>1, <1>t, CallMoves DEF Complete
  <2>4. \A k \in Jobs : \A m \in acks'[k] : m \in acks[k] \/ (k = j /\ m = l)
    BY <2>1, <2>2, <1>t DEF QueueTypes
  <2> HIDE DEF j, l
  <2> QED BY <2>2, <2>3, <2>4, <1>s, <1>k, <1>p DEF StoreRecords
<1>4. ASSUME NEW a \in Agents,
             \/ register_agent(a) \/ Ages(a) \/ agent_heartbeat(a) \/ poll_agent_job(a)
             \/ Reclaim(a) \/ Poll(a) \/ Complete(a) \/ Disconnect(a),
             ~ CompleteCommit(a), ~ CompleteDeliver(a)
      PROVE  StoreRecords'
  <2>1. CASE register_agent(a) \/ Ages(a)
    BY <2>1, <1>1 DEF register_agent, Ages
  <2>2. CASE ~ (register_agent(a) \/ Ages(a))
    <3>1. \A b \in Agents : rpc'[b].pc = "recorded" => rpc'[b] = rpc[b]
      BY <1>4, <2>2, <1>t, CallMoves
    <3>2. acks' = acks
      BY <1>4, <2>2 DEF agent_heartbeat, poll_agent_job, Reclaim, HeartbeatReclaims, StartReclaim,
            ReclaimCas, ReclaimReplace, ReclaimDone, Poll, PollPop, PollLease, PollHandOut, Complete,
            CompleteCheck, CompleteUnknown, CompleteAnswer, CompleteFails, Disconnect
    <3> QED BY <3>1, <3>2, <1>1
  <2> QED BY <2>1, <2>2
<1>5. ASSUME NEW j \in Jobs, EpisodeTask(j) \/ CancelEpisode(j) PROVE StoreRecords'
  <2>1. rpc' = rpc /\ acks' = acks
    BY <1>5 DEF EpisodeTask, PersistJob, enqueue, GiveUp, mark_agent_job_terminal, TakeCompletion,
                CommitLocal, CancelEpisode
  <2> QED BY <2>1, <1>1
<1>6. CASE CrashAndRecover
  BY <1>6, <1>1, IdleType DEF CrashAndRecover
<1>7. CASE UNCHANGED jobVars
  BY <1>7, <1>1 DEF jobVars
<1> QED BY <1>2, <1>3, <1>4, <1>5, <1>6, <1>7 DEF Next

LEMMA MemoryRecordsStep ==
    ASSUME Records, ~HasStore, [Next]_jobVars PROVE MemoryRecords'
<1> USE DEF queueVars, registryVars, storeVars
<1>t. /\ QueueTypes
      /\ inflight \in [Jobs -> Entries] /\ acks \in [Jobs -> SUBSET [agent : Agents, run : Nat]]
      /\ waiter \in [Jobs -> {"new", "persisted", "waiting", "recovered", "abandoned", "ending", "done", "lost"}]
  BY DEF Records, QueueTypes
<1>m. \A j \in Jobs :
        /\ waiter[j] \in {"new", "persisted"} => inflight[j] = NoEntry /\ acks[j] = {}
        /\ acks[j] # {} => inflight[j] = NoEntry /\ \E l : acks[j] = {l}
  BY DEF Records, MemoryRecords
<1>e. ASSUME acks' = acks,
             \A j \in Jobs : waiter'[j] \in {"new", "persisted"} => waiter[j] \in {"new", "persisted"},
             \A j \in Jobs : inflight[j] = NoEntry => inflight'[j] = NoEntry
      PROVE  MemoryRecords'
  BY <1>e, <1>m DEF MemoryRecords
<1>1. ASSUME NEW j \in Jobs, EpisodeTask(j) \/ CancelEpisode(j) PROVE MemoryRecords'
  <2>1. CASE enqueue(j)
    BY <2>1, <1>t, <1>m DEF enqueue, MemoryRecords
  <2>2. CASE GiveUp(j) \/ CancelEpisode(j)
    BY <2>2, <1>t, <1>e DEF GiveUp, CancelEpisode, abandon
  <2>3. CASE PersistJob(j) \/ mark_agent_job_terminal(j) \/ TakeCompletion(j) \/ CommitLocal(j)
    BY <2>3, <1>t, <1>e DEF PersistJob, mark_agent_job_terminal, TakeCompletion, CommitLocal
  <2> QED BY <1>1, <2>1, <2>2, <2>3 DEF EpisodeTask
<1>2. ASSUME NEW a \in Agents,
             \/ register_agent(a) \/ Ages(a) \/ agent_heartbeat(a) \/ poll_agent_job(a)
             \/ Reclaim(a) \/ Poll(a) \/ Complete(a) \/ Disconnect(a)
      PROVE  MemoryRecords'
  <2>t. rpc[a].pc = "requeued" => rpc[a].holder \in Agents
    BY <1>t DEF QueueTypes, CallOK
  <2>1. CASE ReclaimReplace(a)
    <3>1. StillHeld(a) => inflight[rpc[a].job].agent # NoAgent
      BY <2>1, <2>t, EntryType DEF StillHeld, ReclaimReplace
    <3>2. \A j \in Jobs : inflight[j] = NoEntry => inflight'[j] = NoEntry
      BY <2>1, <3>1, <1>t, EntryType DEF ReclaimReplace
    <3> QED BY <2>1, <3>2, <1>e DEF ReclaimReplace
  <2>2. CASE PollHandOut(a)
    BY <2>2, <1>t, <1>e DEF PollHandOut
  <2>3. CASE CompleteDeliver(a)
    <3> DEFINE j == rpc[a].job  l == [agent |-> a, run |-> rpc[a].run]
    <3>1. /\ waiter' = waiter /\ inflight' = [inflight EXCEPT ![j] = NoEntry]
          /\ acks' = IF inflight[j] # NoEntry THEN [acks EXCEPT ![j] = acks[j] \union {l}] ELSE acks
      BY <2>3 DEF CompleteDeliver
    <3>2. j \in Jobs
      BY <2>3, <1>t DEF CompleteDeliver, QueueTypes, CallOK, Working
    <3> HIDE DEF j, l
    <3> QED BY <3>1, <3>2, <1>t, <1>m DEF MemoryRecords
  <2>4. CASE \/ register_agent(a) \/ Ages(a) \/ agent_heartbeat(a) \/ poll_agent_job(a)
             \/ HeartbeatReclaims(a) \/ ReclaimCas(a) \/ ReclaimDone(a)
    BY <2>4, <1>e DEF register_agent, Ages, agent_heartbeat, poll_agent_job, HeartbeatReclaims,
                StartReclaim, ReclaimCas, ReclaimDone
  <2>5. CASE \/ PollPop(a) \/ PollLease(a) \/ CompleteCheck(a) \/ CompleteUnknown(a)
             \/ CompleteCommit(a) \/ CompleteAnswer(a) \/ CompleteFails(a) \/ Disconnect(a)
    BY <2>5, <1>e DEF PollPop, PollLease, CompleteCheck, CompleteUnknown, CompleteCommit,
                CompleteAnswer, CompleteFails, Disconnect
  <2> QED BY <1>2, <2>1, <2>2, <2>3, <2>4, <2>5 DEF Reclaim, Poll, Complete
<1>3. CASE CrashAndRecover
  BY <1>3 DEF CrashAndRecover
<1>4. CASE UNCHANGED jobVars
  BY <1>4, <1>e DEF jobVars
<1> QED BY <1>1, <1>2, <1>3, <1>4 DEF Next

\* ACCEPTED is only answered for the completion that is in the store, and for
\* one completion of a job, with a store or without (complete_agent_job).
THEOREM CompletedOnce == Spec => [](AcceptedIsRecorded /\ AcceptedOnce)
<1>1. Init => Records
  BY TypesInit, IdleType, EntryType DEF Init, Records, StoreRecords, MemoryRecords
<1>2. Records /\ [Next]_jobVars => Records'
  BY TypesStep, StoreRecordsStep, MemoryRecordsStep DEF Records, StoreRecords, MemoryRecords
<1>3. Records => AcceptedIsRecorded
  BY DEF Records, StoreRecords, Completed, AcceptedIsRecorded
<1>4. Records => AcceptedOnce
  <2> SUFFICES ASSUME Records, NEW j \in Jobs PROVE Cardinality(acks[j]) <= 1
    BY DEF AcceptedOnce
  <2>1. acks[j] = {} \/ \E l : acks[j] = {l}
    <3>1. CASE HasStore
      <4>1. acks[j] \subseteq [agent : Agents, run : Nat]
        BY DEF Records, QueueTypes
      <4>4. \A l \in acks[j] : rows[j] = Completed(l.agent, l.run)
        BY <3>1 DEF Records, StoreRecords
      <4>5. \A a, b, q, r : Completed(a, q) = Completed(b, r) => a = b /\ q = r
        BY DEF Completed
      <4>2. \A l, m \in acks[j] : l.agent = m.agent /\ l.run = m.run
        BY <4>4, <4>5
      <4>3. \A l, m \in acks[j] : l = m
        BY <4>1, <4>2
      <4> QED BY <4>3
    <3>2. CASE ~HasStore
      BY <3>2 DEF Records, MemoryRecords
    <3> QED BY <3>1, <3>2
  <2>2. Cardinality({}) = 0 /\ \A l : Cardinality({l}) = 1
    BY FS_EmptySet, FS_Singleton
  <2>3. CASE acks[j] = {}
    BY <2>2, <2>3
  <2>4. ASSUME NEW l, acks[j] = {l} PROVE Cardinality(acks[j]) <= 1
    <3>1. Cardinality(acks[j]) = 1
      BY <2>2, <2>4
    <3> QED BY <3>1
  <2> QED BY <2>1, <2>3, <2>4
<1> QED BY <1>1, <1>2, <1>3, <1>4, PTL DEF Spec

-----------------------------------------------------------------------------
(* Tokens: what a step does to the offers of jobs.                         *)

SameHand(b) ==
    /\ Hand(b)' <=> Hand(b)
    /\ Hand(b) => rpc'[b].job = rpc[b].job /\ rpc'[b].run = rpc[b].run

LEMMA TokenFacts ==
    ASSUME QueueTypes
    PROVE  /\ Len(pending) \in Nat
           /\ \A i \in 1..Len(pending) : pending[i] \in Leases /\ pending[i] \in Tokens
           /\ \A a \in Agents : Hand(a) => /\ rpc[a].job \in Jobs /\ rpc[a].run \in Nat
                                           /\ Lease(rpc[a].job, rpc[a].run) \in Tokens
           /\ \A t \in Tokens : /\ t \in Leases
                                /\ t.job \in Jobs
                                /\ t.run \in Nat
                                /\ t = Lease(t.job, t.run)
                                /\ \/ \E i \in 1..Len(pending) : t = pending[i]
                                   \/ \E a \in Agents : Hand(a) /\ t = Lease(rpc[a].job, rpc[a].run)
<1>1. Len(pending) \in Nat /\ \A i \in 1..Len(pending) : pending[i] \in Leases
  BY DEF QueueTypes
<1>2. \A a \in Agents : Hand(a) => rpc[a].job \in Jobs /\ rpc[a].run \in Nat
  BY DEF Hand, QueueTypes, CallOK, Calls, Working
<1>3. \A t \in Leases : t.job \in Jobs /\ t.run \in Nat /\ t = Lease(t.job, t.run)
  BY DEF Leases, Lease
<1>4. \A t \in Tokens : \/ \E i \in 1..Len(pending) : t = pending[i]
                        \/ \E a \in Agents : Hand(a) /\ t = Lease(rpc[a].job, rpc[a].run)
  BY DEF Tokens
<1>5. \A i \in 1..Len(pending) : pending[i] \in Tokens
  BY DEF Tokens
<1>6. \A a \in Agents : Hand(a) => Lease(rpc[a].job, rpc[a].run) \in Tokens
  BY DEF Tokens
<1>7. \A t \in Tokens : t \in Leases
  BY <1>1, <1>2, <1>4, EntryType
<1> QED BY <1>1, <1>2, <1>3, <1>4, <1>5, <1>6, <1>7

LEMMA SamePlaces ==
    ASSUME pending' = pending, \A b \in Agents : SameHand(b)
    PROVE  Tokens' = Tokens /\ (OnePlace => OnePlace')
<1>1. \A b \in Agents : /\ Hand(b)' <=> Hand(b)
                        /\ Hand(b) => rpc'[b].job = rpc[b].job /\ rpc'[b].run = rpc[b].run
  BY DEF SameHand
<1>2. \A t : t \in Tokens' <=> t \in Tokens
  BY <1>1 DEF Tokens
<1>3. OnePlace => OnePlace'
  BY <1>1 DEF OnePlace
<1> QED BY <1>2, <1>3

\* A job that is not offered comes to the end of the queue.
LEMMA NewPlace ==
    ASSUME QueueTypes, OnePlace, NEW l \in Leases, pending' = Append(pending, l),
           \A b \in Agents : SameHand(b), \A t \in Tokens : t.job # l.job
    PROVE  OnePlace' /\ \A t : t \in Tokens' <=> t \in Tokens \/ t = l
<1>1. \A b \in Agents : /\ Hand(b)' <=> Hand(b)
                        /\ Hand(b) => rpc'[b].job = rpc[b].job /\ rpc'[b].run = rpc[b].run
  BY DEF SameHand
<1> DEFINE n == Len(pending)
<1>2. /\ n \in Nat /\ Len(pending') = n + 1 /\ pending'[n + 1] = l
      /\ \A i \in 1..n : pending'[i] = pending[i]
  BY DEF QueueTypes
<1>3. /\ \A i \in 1..n : pending[i].job # l.job
      /\ \A b \in Agents : Hand(b) => rpc[b].job # l.job
  BY TokenFacts, EntryType
<1> HIDE DEF n
<1>4. \A i \in 1..Len(pending') : i \in 1..n \/ i = n + 1
  BY <1>2
<1>5. \A i \in 1..n : i \in 1..Len(pending')
  BY <1>2
<1>6. \A t : t \in Tokens' <=> t \in Tokens \/ t = l
  <2>1. \A t : t \in Tokens => t \in Tokens'
    BY <1>1, <1>2, <1>5 DEF Tokens, n
  <2>2. l \in Tokens'
    BY <1>2 DEF Tokens
  <2>3. \A t : t \in Tokens' => t \in Tokens \/ t = l
    BY <1>1, <1>2, <1>4 DEF Tokens, n
  <2> QED BY <2>1, <2>2, <2>3
<1>7. OnePlace'
  BY <1>1, <1>2, <1>3, <1>4 DEF OnePlace, n
<1> QED BY <1>6, <1>7

\* A poll takes the first job out of the queue.
LEMMA PopPlace ==
    ASSUME QueueTypes, OnePlace, pending # <<>>, pending' = Tail(pending), NEW a \in Agents, ~Hand(a),
           Hand(a)', rpc'[a].job = Head(pending).job, rpc'[a].run = Head(pending).run,
           \A b \in Agents : b # a => rpc'[b] = rpc[b]
    PROVE  OnePlace' /\ Tokens' = Tokens
<1> DEFINE n == Len(pending)
<1>1. /\ pending[1] \in Leases /\ Head(pending) = pending[1]
      /\ n \in Nat /\ n >= 1 /\ Len(pending') = n - 1
      /\ \A i \in 1..Len(pending') : pending'[i] = pending[i + 1] /\ i + 1 \in 1..n
  BY Popped DEF QueueTypes
<1>2. pending[1] = Lease(rpc'[a].job, rpc'[a].run)
  BY <1>1 DEF Leases, Lease
<1>3. \A b \in Agents : b # a => (Hand(b)' <=> Hand(b)) /\ rpc'[b].job = rpc[b].job /\ rpc'[b].run = rpc[b].run
  BY DEF Hand
<1> HIDE DEF n
<1>i. \A i \in 1..n : i = 1 \/ (i - 1 \in 1..Len(pending') /\ pending'[i - 1] = pending[i])
  BY <1>1
<1>4. \A t : t \in Tokens' => t \in Tokens
  <2>1. ASSUME NEW t \in Tokens' PROVE t \in Tokens
    <3>1. CASE \E i \in 1..Len(pending') : t = pending'[i]
      BY <3>1, <1>1 DEF Tokens, n
    <3>2. CASE \E b \in Agents : Hand(b)' /\ t = Lease(rpc'[b].job, rpc'[b].run)
      <4>1. PICK b \in Agents : Hand(b)' /\ t = Lease(rpc'[b].job, rpc'[b].run)
        BY <3>2
      <4>2. CASE b = a
        BY <4>1, <4>2, <1>1, <1>2 DEF Tokens, n
      <4>3. CASE b # a
        BY <4>1, <4>3, <1>3 DEF Tokens
      <4> QED BY <4>2, <4>3
    <3> QED BY <2>1, <3>1, <3>2 DEF Tokens
  <2> QED BY <2>1
<1>5. \A t : t \in Tokens => t \in Tokens'
  <2>1. ASSUME NEW i \in 1..n PROVE pending[i] \in Tokens'
    <3>1. CASE i = 1
      BY <3>1, <1>2 DEF Tokens
    <3>2. CASE i # 1
      BY <3>2, <1>i DEF Tokens
    <3> QED BY <3>1, <3>2
  <2>2. ASSUME NEW b \in Agents, Hand(b) PROVE Lease(rpc[b].job, rpc[b].run) \in Tokens'
    BY <2>2, <1>3 DEF Tokens
  <2> QED BY <2>1, <2>2 DEF Tokens, n
<1>6. OnePlace'
  <2>1. \A i, k \in 1..Len(pending') : pending'[i].job = pending'[k].job => i = k
    BY <1>1 DEF OnePlace, n
  <2>2. \A b \in Agents : b # a /\ Hand(b) => rpc[b].job # pending[1].job
    BY <1>1 DEF OnePlace, n
  <2>3. \A i \in 1..Len(pending') : pending'[i].job # pending[1].job
    BY <1>1 DEF OnePlace, n
  <2>4. \A i \in 1..Len(pending') : \A b \in Agents : b # a /\ Hand(b) => pending'[i].job # rpc[b].job
    BY <1>1 DEF OnePlace, n
  <2>5. \A b, c \in Agents : Hand(b) /\ Hand(c) /\ rpc[b].job = rpc[c].job => b = c
    BY DEF OnePlace
  <2> QED BY <1>1, <1>3, <2>1, <2>2, <2>3, <2>4, <2>5 DEF OnePlace
<1> QED BY <1>4, <1>5, <1>6

\* A refused lease goes back to the front of the queue.
LEMMA PushPlace ==
    ASSUME QueueTypes, OnePlace, NEW a \in Agents, Hand(a),
           pending' = <<Lease(rpc[a].job, rpc[a].run)>> \o pending,
           ~Hand(a)', \A b \in Agents : b # a => rpc'[b] = rpc[b]
    PROVE  OnePlace' /\ Tokens' = Tokens
<1> DEFINE n == Len(pending)  l == Lease(rpc[a].job, rpc[a].run)
<1>1. l \in Leases /\ l.job = rpc[a].job /\ pending \in Seq(Leases)
  BY TokenFacts, EntryType DEF QueueTypes
<1>2. /\ n \in Nat /\ Len(pending') = n + 1 /\ pending'[1] = l
      /\ \A i \in 2..n + 1 : pending'[i] = pending[i - 1] /\ i - 1 \in 1..n
  <2>1. <<l>> \in Seq(Leases) /\ Len(<<l>>) = 1 /\ <<l>>[1] = l
    BY <1>1
  <2>2. pending' = <<l>> \o pending
    OBVIOUS
  <2> HIDE DEF l
  <2> QED BY <1>1, <2>1, <2>2, ConcatProperties
<1>3. \A b \in Agents : b # a => (Hand(b)' <=> Hand(b)) /\ rpc'[b].job = rpc[b].job /\ rpc'[b].run = rpc[b].run
  BY DEF Hand
<1> HIDE DEF n, l
<1>i. /\ \A i \in 1..Len(pending') : i = 1 \/ (i \in 2..n + 1 /\ i - 1 \in 1..n /\ pending'[i] = pending[i - 1])
      /\ \A i \in 1..n : i + 1 \in 1..Len(pending') /\ pending'[i + 1] = pending[i]
  BY <1>2
<1>4. \A t : t \in Tokens' => t \in Tokens
  <2>1. ASSUME NEW i \in 1..Len(pending') PROVE pending'[i] \in Tokens
    <3>1. CASE i = 1
      BY <3>1, <1>2 DEF Tokens, l
    <3>2. CASE i # 1
      BY <3>2, <1>i DEF Tokens, n
    <3> QED BY <3>1, <3>2
  <2>2. ASSUME NEW b \in Agents, Hand(b)' PROVE Lease(rpc'[b].job, rpc'[b].run) \in Tokens
    BY <2>2, <1>3 DEF Tokens
  <2> QED BY <2>1, <2>2 DEF Tokens
<1>5. \A t : t \in Tokens => t \in Tokens'
  <2>1. ASSUME NEW i \in 1..n PROVE pending[i] \in Tokens'
    BY <1>i DEF Tokens
  <2>2. ASSUME NEW b \in Agents, Hand(b) PROVE Lease(rpc[b].job, rpc[b].run) \in Tokens'
    <3>1. CASE b = a
      <4>1. l \in Tokens'
        BY <1>2 DEF Tokens
      <4> QED BY <3>1, <4>1 DEF l
    <3>2. CASE b # a
      BY <2>2, <3>2, <1>3 DEF Tokens
    <3> QED BY <3>1, <3>2
  <2> QED BY <2>1, <2>2 DEF Tokens, n
<1>6. OnePlace'
  <2>2. \A b \in Agents : b # a /\ Hand(b) => rpc[b].job # l.job
    BY <1>1 DEF OnePlace, n
  <2>3. \A i \in 1..n : pending[i].job # l.job
    BY <1>1 DEF OnePlace, n
  <2>1. \A i, k \in 1..Len(pending') : pending'[i].job = pending'[k].job => i = k
    <3>1. \A i, k \in 1..n : pending[i].job = pending[k].job => i = k
      BY DEF OnePlace, n
    <3> QED BY <1>2, <1>i, <2>3, <3>1
  <2>4. \A i \in 1..Len(pending') : \A b \in Agents : b # a /\ Hand(b) => pending'[i].job # rpc[b].job
    BY <1>i, <1>2, <2>2 DEF OnePlace, n
  <2>5. \A b, c \in Agents : Hand(b) /\ Hand(c) /\ rpc[b].job = rpc[c].job => b = c
    BY DEF OnePlace
  <2> QED BY <1>3, <2>1, <2>4, <2>5 DEF OnePlace
<1> QED BY <1>4, <1>5, <1>6

\* A poll gives away what it has in its hands.
LEMMA DropPlace ==
    ASSUME QueueTypes, OnePlace, NEW a \in Agents, Hand(a), pending' = pending,
           ~Hand(a)', \A b \in Agents : b # a => rpc'[b] = rpc[b]
    PROVE  /\ OnePlace'
           /\ \A t : t \in Tokens' => t \in Tokens /\ t.job # rpc[a].job
           /\ \A t \in Tokens : t.job # rpc[a].job => t \in Tokens'
<1>1. \A b \in Agents : b # a => (Hand(b)' <=> Hand(b)) /\ rpc'[b].job = rpc[b].job /\ rpc'[b].run = rpc[b].run
  BY DEF Hand
<1>2. OnePlace'
  BY <1>1 DEF OnePlace
<1>3. ASSUME NEW t \in Tokens' PROVE t \in Tokens /\ t.job # rpc[a].job
  <2>1. CASE \E i \in 1..Len(pending) : t = pending[i]
    BY <2>1 DEF Tokens, OnePlace
  <2>2. CASE \E b \in Agents : Hand(b)' /\ t = Lease(rpc'[b].job, rpc'[b].run)
    <3>1. PICK b \in Agents : Hand(b)' /\ t = Lease(rpc'[b].job, rpc'[b].run)
      BY <2>2
    <3>2. b # a /\ Hand(b) /\ t = Lease(rpc[b].job, rpc[b].run) /\ t.job = rpc[b].job
      BY <1>1, <3>1 DEF Lease
    <3> QED BY <3>2 DEF Tokens, OnePlace
  <2> QED BY <1>3, <2>1, <2>2 DEF Tokens
<1>4. ASSUME NEW t \in Tokens, t.job # rpc[a].job PROVE t \in Tokens'
  <2>1. CASE \E i \in 1..Len(pending) : t = pending[i]
    BY <2>1 DEF Tokens
  <2>2. CASE \E b \in Agents : Hand(b) /\ t = Lease(rpc[b].job, rpc[b].run)
    <3>1. PICK b \in Agents : Hand(b) /\ t = Lease(rpc[b].job, rpc[b].run)
      BY <2>2
    <3>2. b # a
      BY <1>4, <3>1 DEF Lease
    <3> QED BY <1>1, <3>1, <3>2 DEF Tokens
  <2> QED BY <2>1, <2>2 DEF Tokens
<1> QED BY <1>2, <1>3, <1>4

\* A job that is abandoned leaves the queue.
LEMMA AbandonPlace ==
    ASSUME QueueTypes, OnePlace, NEW j \in Jobs, abandon(j), \A b \in Agents : SameHand(b)
    PROVE  /\ OnePlace'
           /\ \A t : t \in Tokens' => t \in Tokens
           /\ \A t \in Tokens : t.job # j => t \in Tokens'
<1> DEFINE S == {e \in Leases : e.job # j}
<1>1. \A b \in Agents : /\ Hand(b)' <=> Hand(b)
                        /\ Hand(b) => rpc'[b].job = rpc[b].job /\ rpc'[b].run = rpc[b].run
  BY DEF SameHand
<1>2. pending' = Keep(pending, S) /\ pending \in Seq(Leases)
  BY DEF abandon, QueueTypes
<1>3. PICK h : Picked(pending', pending, S, Len(pending), h)
  BY <1>2, KeepProperties
<1>4. /\ Len(pending) \in Nat /\ Len(pending') \in Nat
      /\ \A i \in 1..Len(pending') : /\ h[i] \in 1..Len(pending) /\ pending'[i] = pending[h[i]]
                                     /\ pending'[i] \in S
      /\ \A i, k \in 1..Len(pending') : i < k => h[i] < h[k]
      /\ \A k \in 1..Len(pending) : pending[k] \in S => \E i \in 1..Len(pending') : h[i] = k
  <2>1. pending' \in Seq(Leases)
    BY <1>2, KeepProperties
  <2> HIDE DEF S
  <2> QED BY <1>2, <1>3, <2>1 DEF Picked
<1>5. \A i, k \in 1..Len(pending') : h[i] = h[k] => i = k
  <2>1. ASSUME NEW i \in 1..Len(pending'), NEW k \in 1..Len(pending'), h[i] = h[k] PROVE i = k
    <3>1. ~(i < k) /\ ~(k < i)
      BY <1>4, <2>1
    <3> QED BY <1>4, <3>1
  <2> QED BY <2>1
<1>6. OnePlace'
  <2>1. \A i, k \in 1..Len(pending') : pending'[i].job = pending'[k].job => i = k
    BY <1>4, <1>5 DEF OnePlace
  <2> QED BY <1>1, <1>4, <2>1 DEF OnePlace
<1>7. \A t : t \in Tokens' => t \in Tokens
  BY <1>1, <1>4 DEF Tokens
<1>8. ASSUME NEW t \in Tokens, t.job # j PROVE t \in Tokens'
  <2>1. CASE \E i \in 1..Len(pending) : t = pending[i]
    <3>1. PICK i \in 1..Len(pending) : t = pending[i]
      BY <2>1
    <3>2. pending[i] \in S
      BY <3>1, <1>8, <1>2
    <3> QED BY <3>1, <3>2, <1>4 DEF Tokens
  <2>2. CASE \E b \in Agents : Hand(b) /\ t = Lease(rpc[b].job, rpc[b].run)
    BY <2>2, <1>1 DEF Tokens
  <2> QED BY <2>1, <2>2 DEF Tokens
<1> QED BY <1>6, <1>7, <1>8

\* After a crash the offers are the pending rows.
LEMMA RestoredPlaces ==
    ASSUME QueueTypes, CrashAndRecover
    PROVE  OnePlace' /\ Tokens' = RestoredQueue
<1>1. /\ {pending'[i] : i \in 1..Len(pending')} = RestoredQueue
      /\ \A i, k \in 1..Len(pending') : pending'[i].job = pending'[k].job => i = k
  BY RestoredOrder DEF CrashAndRecover
<1>2. \A b \in Agents : ~Hand(b)'
  BY IdleType DEF CrashAndRecover, Hand
<1> QED BY <1>1, <1>2 DEF OnePlace, Tokens

LEMMA RowsFitStep ==
    ASSUME QueueTypes, RowsFit, [Next]_jobVars PROVE RowsFit'
<1> USE DEF queueVars, registryVars, storeVars
<1> DEFINE R == [phase : Phases, agent : Holders, run : Nat]
           OK(x) == /\ x.phase = "pending" => x.agent = NoAgent
                    /\ x.phase = "leased" => x.agent # NoAgent
<1>t. rows \in [Jobs -> R] /\ \A j \in Jobs : OK(rows[j])
  BY DEF QueueTypes, RowsFit
<1>g. RowsFit' <=> \A j \in Jobs : OK(rows'[j])
  BY DEF RowsFit
<1>0. rows' = rows => RowsFit'
  BY <1>t, <1>g
<1>c. ASSUME NEW j \in Jobs, NEW row, rows' = [rows EXCEPT ![j] = row], OK(row) PROVE RowsFit'
  <2>1. \A k \in Jobs : rows'[k] = IF k = j THEN row ELSE rows[k]
    BY <1>c, <1>t
  <2> HIDE DEF OK
  <2> QED BY <2>1, <1>c, <1>t, <1>g
<1>1. ASSUME NEW j \in Jobs, EpisodeTask(j) \/ CancelEpisode(j) PROVE RowsFit'
  <2>1. CASE PersistJob(j)
    <3> DEFINE row == [phase |-> "pending", agent |-> NoAgent, run |-> 1]
    <3>1. rows' = rows \/ rows' = [rows EXCEPT ![j] = row]
      BY <2>1 DEF PersistJob
    <3>2. OK(row)
      OBVIOUS
    <3> HIDE DEF row, OK
    <3> QED BY <3>1, <3>2, <1>0, <1>c
  <2>2. CASE mark_agent_job_terminal(j)
    <3> DEFINE row == [rows[j] EXCEPT !.phase = "timed_out"]
    <3>1. rows' = rows \/ rows' = [rows EXCEPT ![j] = row]
      BY <2>2 DEF mark_agent_job_terminal
    <3>2. OK(row)
      <4>1. row.phase = "timed_out"
        BY <1>t
      <4> HIDE DEF row
      <4> QED BY <4>1
    <3> HIDE DEF row, OK
    <3> QED BY <3>1, <3>2, <1>0, <1>c
  <2>3. CASE enqueue(j) \/ GiveUp(j) \/ TakeCompletion(j) \/ CancelEpisode(j) \/ CommitLocal(j)
    BY <2>3, <1>0 DEF enqueue, GiveUp, TakeCompletion, CancelEpisode, CommitLocal
  <2> QED BY <1>1, <2>1, <2>2, <2>3 DEF EpisodeTask
<1>2. ASSUME NEW a \in Agents,
             \/ register_agent(a) \/ Ages(a) \/ agent_heartbeat(a) \/ poll_agent_job(a)
             \/ Reclaim(a) \/ Poll(a) \/ Complete(a) \/ Disconnect(a)
      PROVE  RowsFit'
  <2>t. /\ rpc[a] \in Calls /\ rpc[a].run \in Nat
        /\ rpc[a].pc \in Working => rpc[a].job \in Jobs
        /\ \A c \in rpc[a].todo : c.job \in Jobs
    BY DEF QueueTypes, CallOK, Calls, Claimed
  <2>1. CASE ReclaimCas(a)
    <3>2. ASSUME NEW c \in rpc[a].todo, Requeue(a, c) PROVE RowsFit'
      <4> DEFINE row == [phase |-> "pending", agent |-> NoAgent, run |-> runs[c.job] + 1]
      <4>1. rows' = [rows EXCEPT ![c.job] = row] \/ rows' = rows
        BY <3>2 DEF Requeue
      <4>2. OK(row) /\ c.job \in Jobs
        BY <2>t, <3>2
      <4> HIDE DEF row, OK
      <4> QED BY <4>1, <4>2, <1>0, <1>c
    <3> QED BY <2>1, <3>2, <1>0 DEF ReclaimCas
  <2>2. CASE PollLease(a)
    <3> DEFINE j == rpc[a].job
               row == [phase |-> "leased", agent |-> a, run |-> rows[j].run]
               row0 == [rows[j] EXCEPT !.phase = "leased", !.agent = a]
    <3>1. rows' = rows \/ rows' = [rows EXCEPT ![j] = row0]
      BY <2>2 DEF PollLease
    <3>2. j \in Jobs
      BY <2>2, <2>t DEF PollLease, Working
    <3>3. row0 = row /\ OK(row)
      <4>1. rows[j] \in R
        BY <1>t, <3>2
      <4>2. row0 = row
        <5> HIDE DEF j
        <5> QED BY <4>1, RowSteps
      <4>3. OK(row)
        BY EntryType
      <4> QED BY <4>2, <4>3
    <3> HIDE DEF row, row0, j, OK
    <3> QED BY <3>1, <3>2, <3>3, <1>0, <1>c
  <2>3. CASE CompleteCommit(a)
    <3> DEFINE j == rpc[a].job  row == Completed(a, rpc[a].run)
    <3>1. rows' = rows \/ rows' = [rows EXCEPT ![j] = row]
      BY <2>3, CommitAnswer
    <3>2. j \in Jobs
      BY <2>3, <2>t DEF CompleteCommit, Working
    <3>3. OK(row)
      BY DEF Completed
    <3> HIDE DEF j, row, OK
    <3> QED BY <3>1, <3>2, <3>3, <1>0, <1>c
  <2>4. CASE \/ register_agent(a) \/ Ages(a) \/ agent_heartbeat(a) \/ poll_agent_job(a)
             \/ HeartbeatReclaims(a) \/ ReclaimReplace(a) \/ ReclaimDone(a)
    BY <2>4, <1>0 DEF register_agent, Ages, agent_heartbeat, poll_agent_job, HeartbeatReclaims,
                StartReclaim, ReclaimReplace, ReclaimDone
  <2>5. CASE \/ PollPop(a) \/ PollHandOut(a) \/ CompleteCheck(a) \/ CompleteUnknown(a)
             \/ CompleteDeliver(a) \/ CompleteAnswer(a) \/ CompleteFails(a) \/ Disconnect(a)
    BY <2>5, <1>0 DEF PollPop, PollHandOut, CompleteCheck, CompleteUnknown, CompleteDeliver,
                CompleteAnswer, CompleteFails, Disconnect
  <2> QED BY <1>2, <2>1, <2>2, <2>3, <2>4, <2>5 DEF Reclaim, Poll, Complete
<1>3. CASE CrashAndRecover
  BY <1>3, <1>0 DEF CrashAndRecover
<1>4. CASE UNCHANGED jobVars
  BY <1>4, <1>0 DEF jobVars
<1> QED BY <1>1, <1>2, <1>3, <1>4 DEF Next

\* Steps of an agent that leave every poll's hands as they are.
LEMMA OtherHands ==
    ASSUME QueueTypes, NEW a \in Agents,
           \/ agent_heartbeat(a) \/ poll_agent_job(a) \/ Reclaim(a) \/ Complete(a)
    PROVE  \A b \in Agents : SameHand(b)
<1>i. Idle.pc = "idle"
  BY IdleType
<1>1. ~Hand(a) /\ ~(rpc[a].pc = "reclaim" /\ rpc[a].todo = {} /\ rpc[a].polls)
  <2>1. CASE agent_heartbeat(a) \/ poll_agent_job(a) \/ HeartbeatReclaims(a) \/ CompleteCheck(a)
    BY <2>1, <1>i DEF Hand, agent_heartbeat, poll_agent_job, HeartbeatReclaims, CompleteCheck
  <2>2. CASE ReclaimCas(a) \/ ReclaimReplace(a) \/ ReclaimDone(a)
    BY <2>2 DEF Hand, ReclaimCas, ReclaimReplace, ReclaimDone
  <2>3. CASE CompleteUnknown(a) \/ CompleteCommit(a) \/ CompleteDeliver(a)
    BY <2>3 DEF Hand, CompleteUnknown, CompleteCommit, CompleteDeliver
  <2>4. CASE CompleteAnswer(a) \/ CompleteFails(a)
    BY <2>4 DEF Hand, CompleteAnswer, CompleteFails
  <2> QED BY <2>1, <2>2, <2>3, <2>4 DEF Reclaim, Complete
<1>2. ~PollPop(a) /\ ~PollLease(a)
  BY <1>1 DEF PollPop, PollLease, Hand
<1>3. rpc'[a].pc \notin {"popped", "granted"} /\ \A b \in Agents : b # a => rpc'[b] = rpc[b]
  BY <1>2, CallMoves
<1> QED BY <1>1, <1>3 DEF Hand, SameHand

LEMMA SameHands == ASSUME rpc' = rpc PROVE \A b \in Agents : SameHand(b)
BY DEF SameHand, Hand

\* What TokensFit says of the jobs, as a step changes the entry of job j at most.
LEMMA FitStep ==
    ASSUME QueueTypes, TokensFit, NEW j \in Jobs,
           \A k \in Jobs : k # j => inflight'[k] = inflight[k],
           \A k \in Jobs : waiter'[k] \in {"new", "persisted"} => waiter[k] \in {"new", "persisted"},
           \A t \in Tokens' : t.job # j => t \in Tokens,
           \A t \in Tokens : t.job # j => t \in Tokens',
           \A t \in Tokens' : t \in Leases,
           \A t \in Tokens' : t.job = j =>
              /\ ~Held(j)'
              /\ inflight'[j] # NoEntry => t.run = inflight'[j].run
              /\ waiter'[j] \notin {"new", "persisted"},
           inflight'[j] # NoEntry /\ ~Held(j)' => Lease(j, inflight'[j].run) \in Tokens',
           waiter'[j] \in {"new", "persisted"} => ~Held(j)'
    PROVE  TokensFit'
<1>1. \A k \in Jobs : k # j => (Held(k)' <=> Held(k))
  BY DEF Held
<1>2. /\ \A t \in Tokens : /\ ~Held(t.job)
                           /\ inflight[t.job] # NoEntry => t.run = inflight[t.job].run
                           /\ waiter[t.job] \notin {"new", "persisted"}
      /\ \A k \in Jobs : /\ inflight[k] # NoEntry /\ ~Held(k) => Lease(k, inflight[k].run) \in Tokens
                         /\ waiter[k] \in {"new", "persisted"} => ~Held(k)
  BY DEF TokensFit
<1>3. ASSUME NEW t \in Tokens'
      PROVE  /\ ~Held(t.job)'
             /\ inflight'[t.job] # NoEntry => t.run = inflight'[t.job].run
             /\ waiter'[t.job] \notin {"new", "persisted"}
  <2>1. t.job \in Jobs
    BY DEF Leases
  <2>2. CASE t.job = j
    BY <2>2
  <2>3. CASE t.job # j
    BY <2>1, <2>3, <1>1, <1>2
  <2> QED BY <2>2, <2>3
<1>4. ASSUME NEW k \in Jobs
      PROVE  /\ inflight'[k] # NoEntry /\ ~Held(k)' => Lease(k, inflight'[k].run) \in Tokens'
             /\ waiter'[k] \in {"new", "persisted"} => ~Held(k)'
  <2>1. CASE k = j
    BY <2>1
  <2>2. CASE k # j
    <3>1. inflight[k].run \in Nat
      BY DEF QueueTypes, Entries
    <3>2. Lease(k, inflight[k].run).job # j
      BY <3>1, <2>2, EntryType
    <3> QED BY <2>2, <3>2, <1>1, <1>2
  <2> QED BY <2>1, <2>2
<1> QED BY <1>3, <1>4 DEF TokensFit

LEMMA SameFit ==
    ASSUME QueueTypes, TokensFit, inflight' = inflight, Tokens' = Tokens,
           \A k \in Jobs : waiter'[k] \in {"new", "persisted"} => waiter[k] \in {"new", "persisted"}
    PROVE  TokensFit'
<1>1. \A t \in Tokens : t.job \in Jobs
  BY TokenFacts
<1> QED BY <1>1 DEF TokensFit, Held

LEMMA EpisodeOffers ==
    ASSUME Offers, NEW j \in Jobs, EpisodeTask(j) \/ CancelEpisode(j)
    PROVE  OnePlace' /\ TokensFit'
<1> USE DEF queueVars, registryVars, storeVars
<1>t. /\ QueueTypes /\ OnePlace /\ TokensFit
      /\ inflight \in [Jobs -> Entries]
      /\ waiter \in [Jobs -> {"new", "persisted", "waiting", "recovered", "abandoned", "ending", "done", "lost"}]
  BY DEF Offers, QueueTypes
<1>f. \A t \in Tokens : t \in Leases /\ t.job \in Jobs
  BY <1>t, TokenFacts
<1>1. CASE PersistJob(j) \/ mark_agent_job_terminal(j) \/ TakeCompletion(j) \/ CommitLocal(j)
  <2>1. /\ pending' = pending /\ inflight' = inflight /\ rpc' = rpc
        /\ \A k \in Jobs : waiter'[k] \in {"new", "persisted"} => waiter[k] \in {"new", "persisted"}
    BY <1>1, <1>t DEF PersistJob, mark_agent_job_terminal, TakeCompletion, CommitLocal
  <2> QED BY <2>1, <1>t, SameHands, SamePlaces, SameFit
<1>2. CASE enqueue(j)
  <2> DEFINE l == Lease(j, 1)  e == [agent |-> NoAgent, run |-> 1]
  <2>1. /\ rpc' = rpc /\ pending' = Append(pending, l) /\ inflight' = [inflight EXCEPT ![j] = e]
        /\ waiter' = [waiter EXCEPT ![j] = "waiting"] /\ waiter[j] = "persisted"
    BY <1>2 DEF enqueue
  <2>2. l \in Leases /\ l.job = j /\ l.run = 1 /\ e.agent = NoAgent /\ e.run = 1
    BY EntryType
  <2>3. \A t \in Tokens : t.job # l.job
    BY <1>t, <2>1, <2>2 DEF TokensFit
  <2> HIDE DEF l
  <2>4. OnePlace' /\ \A t : t \in Tokens' <=> t \in Tokens \/ t = l
    BY <1>t, <2>1, <2>2, <2>3, SameHands, NewPlace
  <2>5. /\ inflight'[j] = e /\ ~Held(j)' /\ waiter'[j] = "waiting"
        /\ \A k \in Jobs : k # j => inflight'[k] = inflight[k]
        /\ \A k \in Jobs : waiter'[k] \in {"new", "persisted"} => waiter[k] \in {"new", "persisted"}
    BY <1>t, <2>1, <2>2 DEF Held
  <2>6. Lease(j, inflight'[j].run) \in Tokens'
    BY <2>2, <2>4, <2>5 DEF l
  <2>7. \A t \in Tokens' : t.job = j => t = l
    BY <2>2, <2>3, <2>4
  <2> HIDE DEF e
  <2> QED BY <1>t, <1>f, <2>2, <2>4, <2>5, <2>6, <2>7, FitStep
<1>3. CASE GiveUp(j) \/ CancelEpisode(j)
  <2>1. /\ abandon(j) /\ rpc' = rpc /\ inflight' = [inflight EXCEPT ![j] = NoEntry]
        /\ \A k \in Jobs : waiter'[k] \in {"new", "persisted"} => waiter[k] \in {"new", "persisted"}
        /\ waiter'[j] \notin {"new", "persisted"}
    BY <1>3, <1>t DEF GiveUp, CancelEpisode, Waits, abandon
  <2>2. /\ OnePlace'
        /\ \A t : t \in Tokens' => t \in Tokens
        /\ \A t \in Tokens : t.job # j => t \in Tokens'
    BY <2>1, <1>t, SameHands, AbandonPlace
  <2>3. inflight'[j] = NoEntry /\ ~Held(j)' /\ \A k \in Jobs : k # j => inflight'[k] = inflight[k]
    BY <2>1, <1>t, EntryType DEF Held
  <2> QED BY <1>t, <1>f, <2>1, <2>2, <2>3, FitStep
<1> QED BY <1>1, <1>2, <1>3 DEF EpisodeTask

LEMMA AgentOffers ==
    ASSUME Offers, ~Disconnects, NEW a \in Agents,
           \/ register_agent(a) \/ Ages(a) \/ agent_heartbeat(a) \/ poll_agent_job(a)
           \/ Reclaim(a) \/ Poll(a) \/ Complete(a) \/ Disconnect(a)
    PROVE  OnePlace' /\ TokensFit'
<1> USE DEF queueVars, registryVars, storeVars
<1>t. /\ QueueTypes /\ OnePlace /\ TokensFit
      /\ inflight \in [Jobs -> Entries] /\ rpc \in [Agents -> Calls]
      /\ rpc[a].pc \in Working => rpc[a].job \in Jobs /\ rpc[a].run \in Nat
      /\ rpc[a].pc = "requeued" => rpc[a].holder \in Agents /\ rpc[a].new \in Nat
  BY DEF Offers, QueueTypes, CallOK, Calls
<1>f. \A t \in Tokens : t \in Leases /\ t.job \in Jobs
  BY <1>t, TokenFacts
<1>s. ASSUME pending' = pending, inflight' = inflight, waiter' = waiter, \A b \in Agents : SameHand(b)
      PROVE  OnePlace' /\ TokensFit'
  BY <1>s, <1>t, SamePlaces, SameFit
<1>1. CASE register_agent(a) \/ Ages(a)
  BY <1>1, <1>s, SameHands DEF register_agent, Ages
<1>2. CASE \/ agent_heartbeat(a) \/ poll_agent_job(a) \/ HeartbeatReclaims(a) \/ ReclaimCas(a)
           \/ ReclaimDone(a) \/ CompleteCheck(a) \/ CompleteUnknown(a) \/ CompleteCommit(a)
           \/ CompleteAnswer(a) \/ CompleteFails(a)
  <2>1. \A b \in Agents : SameHand(b)
    BY <1>2, <1>t, OtherHands DEF Reclaim, Complete
  <2>2. pending' = pending /\ inflight' = inflight /\ waiter' = waiter
    BY <1>2 DEF agent_heartbeat, poll_agent_job, HeartbeatReclaims, StartReclaim, ReclaimCas, ReclaimDone,
                CompleteCheck, CompleteUnknown, CompleteCommit, CompleteAnswer, CompleteFails
  <2> QED BY <2>1, <2>2, <1>s
<1>3. CASE ReclaimReplace(a)
  <2>c. rpc[a].job \in Jobs /\ rpc[a].new \in Nat
    BY <1>3, <1>t DEF ReclaimReplace, Working
  <2>j. PICK j \in Jobs, n \in Nat : j = rpc[a].job /\ n = rpc[a].new
    BY <2>c
  <2> DEFINE l == Lease(j, n)  e == [agent |-> NoAgent, run |-> n]
  <2>1. \A b \in Agents : SameHand(b)
    BY <1>3, <1>t, OtherHands DEF Reclaim
  <2>2. j \in Jobs /\ n \in Nat /\ rpc[a].holder \in Agents /\ waiter' = waiter
    BY <1>3, <1>t DEF ReclaimReplace, Working
  <2>3. CASE StillHeld(a)
    <3>1. /\ pending' = Append(pending, l) /\ inflight' = [inflight EXCEPT ![j] = e]
          /\ inflight[j] = [agent |-> rpc[a].holder, run |-> rpc[a].run]
      BY <1>3, <2>3, <2>j DEF ReclaimReplace, StillHeld
    <3>2. Held(j)
      BY <2>2, <3>1, EntryType DEF Held
    <3>3. l \in Leases /\ l.job = j /\ l.run = n /\ e.agent = NoAgent /\ e.run = n
      BY <2>2, EntryType
    <3>4. (\A t \in Tokens : t.job # j) /\ waiter[j] \notin {"new", "persisted"}
      BY <1>t, <2>2, <3>2 DEF TokensFit
    <3> HIDE DEF l
    <3>5. OnePlace' /\ \A t : t \in Tokens' <=> t \in Tokens \/ t = l
      BY <1>t, <2>1, <3>1, <3>3, <3>4, NewPlace
    <3>6. /\ inflight'[j] = e /\ ~Held(j)'
          /\ \A k \in Jobs : k # j => inflight'[k] = inflight[k]
      BY <1>t, <2>2, <3>1, <3>3 DEF Held
    <3>7. Lease(j, inflight'[j].run) \in Tokens'
      BY <3>3, <3>5, <3>6 DEF l
    <3>8. \A t \in Tokens' : t.job = j => t = l
      BY <3>4, <3>5
    <3> HIDE DEF e
    <3> QED BY <1>t, <1>f, <2>2, <3>3, <3>4, <3>5, <3>6, <3>7, <3>8, FitStep
  <2>4. CASE ~StillHeld(a)
    BY <1>3, <2>1, <2>4, <1>s DEF ReclaimReplace
  <2> QED BY <2>3, <2>4
<1>4. CASE PollPop(a)
  <2>0. ~Hand(a)
    BY <1>4 DEF PollPop, Hand
  <2>1. CASE can_agent_run(a) /\ pending # <<>>
    <3> DEFINE c == [Idle EXCEPT !.pc = "popped", !.job = Head(pending).job, !.run = Head(pending).run]
    <3>1. /\ rpc' = [rpc EXCEPT ![a] = c] /\ pending' = Tail(pending)
          /\ inflight' = inflight /\ waiter' = waiter
      BY <1>4, <2>1 DEF PollPop
    <3>2. c.pc = "popped" /\ c.job = Head(pending).job /\ c.run = Head(pending).run
      BY DEF Idle
    <3> HIDE DEF c
    <3>3. rpc'[a] = c /\ \A b \in Agents : b # a => rpc'[b] = rpc[b]
      BY <3>1, <1>t
    <3>4. Hand(a)' /\ rpc'[a].job = Head(pending).job /\ rpc'[a].run = Head(pending).run
      BY <3>2, <3>3 DEF Hand
    <3>5. OnePlace' /\ Tokens' = Tokens
      BY <1>t, <2>0, <2>1, <3>1, <3>3, <3>4, PopPlace
    <3> QED BY <3>1, <3>5, <1>t, SameFit
  <2>2. CASE ~(can_agent_run(a) /\ pending # <<>>)
    <3>1. rpc' = [rpc EXCEPT ![a] = Idle] /\ pending' = pending /\ inflight' = inflight /\ waiter' = waiter
      BY <1>4, <2>2 DEF PollPop
    <3>2. \A b \in Agents : SameHand(b)
      BY <2>0, <3>1, <1>t, IdleType DEF SameHand, Hand
    <3> QED BY <3>1, <3>2, <1>s
  <2> QED BY <2>1, <2>2
<1>5. CASE PollLease(a)
  <2>0. Hand(a) /\ rpc[a].pc \in Working /\ inflight' = inflight /\ waiter' = waiter
    BY <1>5 DEF PollLease, Hand, Working
  <2>1. CASE rpc' = [rpc EXCEPT ![a].pc = "granted"] /\ pending' = pending
    <3>1. /\ rpc'[a].pc = "granted" /\ rpc'[a].job = rpc[a].job /\ rpc'[a].run = rpc[a].run
          /\ \A b \in Agents : b # a => rpc'[b] = rpc[b]
      BY <2>0, <2>1, <1>t, PcStep DEF Working
    <3>2. \A b \in Agents : SameHand(b)
      BY <2>0, <3>1 DEF SameHand, Hand
    <3> QED BY <2>0, <2>1, <3>2, <1>s
  <2>2. CASE rpc' = [rpc EXCEPT ![a] = Idle] /\ pending' = <<Lease(rpc[a].job, rpc[a].run)>> \o pending
    <3>1. ~Hand(a)' /\ \A b \in Agents : b # a => rpc'[b] = rpc[b]
      BY <2>2, <1>t, IdleType DEF Hand
    <3>2. OnePlace' /\ Tokens' = Tokens
      BY <1>t, <2>0, <2>2, <3>1, PushPlace
    <3> QED BY <2>0, <3>2, <1>t, SameFit
  <2> QED BY <1>5, <2>1, <2>2 DEF PollLease
<1>6. CASE PollHandOut(a)
  <2>c. rpc[a].job \in Jobs
    BY <1>6, <1>t DEF PollHandOut, Working
  <2>j. PICK j \in Jobs : j = rpc[a].job
    BY <2>c
  <2> DEFINE e == [inflight[j] EXCEPT !.agent = a]
  <2>0. Hand(a) /\ j \in Jobs /\ rpc[a].run \in Nat /\ waiter' = waiter
    BY <1>6, <1>t DEF PollHandOut, Hand, Working
  <2>1. ~Hand(a)' /\ (\A b \in Agents : b # a => rpc'[b] = rpc[b]) /\ pending' = pending
    BY <1>6, <1>t, IdleType DEF Hand, PollHandOut
  <2>2. /\ OnePlace'
        /\ \A t : t \in Tokens' => t \in Tokens /\ t.job # j
        /\ \A t \in Tokens : t.job # j => t \in Tokens'
    BY <1>t, <2>0, <2>1, <2>j, DropPlace
  <2>3. waiter[j] \notin {"new", "persisted"} /\ ~Held(j)
    <3>1. Lease(j, rpc[a].run) \in Tokens /\ Lease(j, rpc[a].run).job = j
      BY <1>t, <2>0, <2>j, TokenFacts, EntryType
    <3> QED BY <3>1, <1>t DEF TokensFit
  <2>4. /\ \A k \in Jobs : k # j => inflight'[k] = inflight[k]
        /\ inflight'[j] = NoEntry \/ Held(j)'
    <3>1. CASE inflight[j] # NoEntry
      <4>1. inflight' = [inflight EXCEPT ![j] = e]
        BY <1>6, <2>j, <3>1 DEF PollHandOut
      <4>2. inflight[j] \in Entries
        BY <1>t, <2>0
      <4>3. e.agent = a
        BY <4>2 DEF Entries
      <4> HIDE DEF e
      <4> QED BY <4>1, <4>3, <1>t, <2>0, EntryType DEF Held
    <3>2. CASE inflight[j] = NoEntry
      BY <1>6, <2>j, <3>2 DEF PollHandOut
    <3> QED BY <3>1, <3>2
  <2> QED BY <1>t, <1>f, <2>0, <2>2, <2>3, <2>4, FitStep
<1>7. CASE CompleteDeliver(a)
  <2>c. rpc[a].job \in Jobs
    BY <1>7, <1>t DEF CompleteDeliver, Working
  <2>j. PICK j \in Jobs : j = rpc[a].job
    BY <2>c
  <2>1. \A b \in Agents : SameHand(b)
    BY <1>7, <1>t, OtherHands DEF Complete
  <2>2. /\ j \in Jobs /\ pending' = pending /\ waiter' = waiter
        /\ inflight' = [inflight EXCEPT ![j] = NoEntry]
    BY <1>7, <1>t, <2>j DEF CompleteDeliver, Working
  <2>3. OnePlace' /\ Tokens' = Tokens
    BY <1>t, <2>1, <2>2, SamePlaces
  <2>4. inflight'[j] = NoEntry /\ ~Held(j)' /\ \A k \in Jobs : k # j => inflight'[k] = inflight[k]
    BY <2>2, <1>t, EntryType DEF Held
  <2>5. \A t \in Tokens : t.job = j => waiter[j] \notin {"new", "persisted"}
    BY <1>t DEF TokensFit
  <2> QED BY <1>t, <1>f, <2>2, <2>3, <2>4, <2>5, FitStep
<1> QED BY <1>1, <1>2, <1>3, <1>4, <1>5, <1>6, <1>7 DEF Reclaim, Poll, Complete, Disconnect

LEMMA RecoverOffers == ASSUME Offers, CrashAndRecover PROVE OnePlace' /\ TokensFit'
<1>t. /\ QueueTypes /\ RowsFit
      /\ rows \in [Jobs -> [phase : Phases, agent : Holders, run : Nat]]
  BY DEF Offers, QueueTypes
<1>1. OnePlace' /\ Tokens' = RestoredQueue
  BY <1>t, RestoredPlaces
<1>2. /\ inflight' = [j \in Jobs |-> IF Restored(j)
                                     THEN [agent |-> rows[j].agent, run |-> rows[j].run] ELSE NoEntry]
      /\ waiter' = [j \in Jobs |-> AfterRestart(j)]
  BY DEF CrashAndRecover
<1>3. ASSUME NEW j \in Jobs, rows[j].phase = "pending"
      PROVE  ~Held(j)' /\ inflight'[j].run = rows[j].run /\ waiter'[j] = "recovered"
  BY <1>3, <1>2, <1>t DEF Held, Restored, AfterRestart, RowsFit
<1>4. ASSUME NEW t \in RestoredQueue
      PROVE  /\ ~Held(t.job)'
             /\ inflight'[t.job] # NoEntry => t.run = inflight'[t.job].run
             /\ waiter'[t.job] \notin {"new", "persisted"}
  <2>1. PICK j \in Jobs : rows[j].phase = "pending" /\ t = Lease(j, rows[j].run)
    BY DEF RestoredQueue
  <2>2. t.job = j /\ t.run = rows[j].run
    BY <2>1 DEF Lease
  <2> QED BY <2>1, <2>2, <1>3
<1>5. ASSUME NEW j \in Jobs, inflight'[j] # NoEntry, ~Held(j)'
      PROVE  Lease(j, inflight'[j].run) \in RestoredQueue
  <2>1. rows[j].phase = "pending"
    BY <1>5, <1>2, <1>t DEF Held, Restored, RowsFit
  <2> QED BY <2>1, <1>3 DEF RestoredQueue
<1>6. ASSUME NEW j \in Jobs, waiter'[j] \in {"new", "persisted"} PROVE ~Held(j)'
  <2>1. ~Restored(j)
    BY <1>6, <1>2 DEF AfterRestart
  <2> QED BY <2>1, <1>2, EntryType DEF Held
<1> QED BY <1>1, <1>4, <1>5, <1>6 DEF TokensFit

LEMMA OffersInit == Init => Offers
<1> SUFFICES ASSUME Init PROVE Offers
  OBVIOUS
<1>1. QueueTypes
  BY TypesInit
<1>2. Len(pending) = 0 /\ (\A a \in Agents : ~Hand(a)) /\ \A j \in Jobs : inflight[j] = NoEntry /\ ~Held(j)
  BY IdleType, EntryType DEF Init, Hand, Held
<1>3. RowsFit
  BY EntryType DEF Init, RowsFit
<1>4. Tokens = {}
  BY <1>2 DEF Tokens
<1> QED BY <1>1, <1>2, <1>3, <1>4 DEF Offers, OnePlace, TokensFit

LEMMA OffersStep == ASSUME Offers, ~Disconnects, [Next]_jobVars PROVE Offers'
<1>1. QueueTypes' /\ RowsFit'
  BY TypesStep, RowsFitStep DEF Offers
<1>2. OnePlace' /\ TokensFit'
  <2>1. CASE UNCHANGED jobVars
    <3>1. pending' = pending /\ inflight' = inflight /\ waiter' = waiter /\ rpc' = rpc
      BY <2>1 DEF jobVars, queueVars
    <3> QED BY <3>1, SameHands, SamePlaces, SameFit DEF Offers
  <2> QED BY <2>1, EpisodeOffers, AgentOffers, RecoverOffers DEF Next
<1> QED BY <1>1, <1>2 DEF Offers

\* A job nobody holds is offered in exactly one place, the queue or the hands
\* of one poll, under its current run (poll_agent_job, reclaim_stale_jobs,
\* restore_persisted), as long as no caller disconnects in the middle of a poll.
THEOREM WaitingJobsAreOffered == ASSUME ~Disconnects PROVE Spec => []UnheldIsReachable
<1>1. Init => Offers
  BY OffersInit
<1>2. Offers /\ [Next]_jobVars => Offers'
  BY OffersStep
<1>3. Offers => UnheldIsReachable
  <2> SUFFICES ASSUME Offers, NEW j \in Jobs, inflight[j] # NoEntry, inflight[j].agent = NoAgent
               PROVE  Cardinality(InHands(j)) + Cardinality(Queued(j)) = 1
    BY DEF UnheldIsReachable
  <2> DEFINE l == Lease(j, inflight[j].run)
  <2>0. QueueTypes /\ OnePlace /\ l \in Leases /\ l.job = j /\ l.run = inflight[j].run
        /\ DOMAIN pending = 1..Len(pending)
    <3>1. inflight[j].run \in Nat
      BY DEF Offers, QueueTypes, Entries
    <3> QED BY <3>1, EntryType DEF Offers, QueueTypes
  <2>1. l \in Tokens
    BY DEF Offers, TokensFit, Held
  <2>2. Cardinality({}) = 0 /\ \A x : Cardinality({x}) = 1
    BY FS_EmptySet, FS_Singleton
  <2> HIDE DEF l
  <2>q. Queued(j) = {i \in 1..Len(pending) : pending[i] = l}
    BY <2>0 DEF Queued, l
  <2>h. InHands(j) = {a \in Agents : Hand(a) /\ Lease(rpc[a].job, rpc[a].run) = l}
    <3>1. \A a \in Agents : Hand(a) => (Lease(rpc[a].job, rpc[a].run) = l <=>
                                          rpc[a].job = j /\ rpc[a].run = inflight[j].run)
      BY DEF Lease, l
    <3> QED BY <3>1 DEF InHands, Hand
  <2>3. CASE \E i \in 1..Len(pending) : l = pending[i]
    <3>1. PICK i \in 1..Len(pending) : l = pending[i]
      BY <2>3
    <3>2. Queued(j) = {i}
      BY <2>0, <2>q, <3>1 DEF OnePlace
    <3>3. InHands(j) = {}
      BY <2>0, <2>h, <3>1 DEF OnePlace, Lease
    <3>4. Cardinality(Queued(j)) = 1 /\ Cardinality(InHands(j)) = 0
      BY <2>2, <3>2, <3>3
    <3> QED BY <3>4
  <2>4. CASE \E a \in Agents : Hand(a) /\ l = Lease(rpc[a].job, rpc[a].run)
    <3>1. PICK a \in Agents : Hand(a) /\ l = Lease(rpc[a].job, rpc[a].run)
      BY <2>4
    <3>2. InHands(j) = {a}
      BY <2>0, <2>h, <3>1 DEF OnePlace, Lease
    <3>3. Queued(j) = {}
      BY <2>0, <2>q, <3>1 DEF OnePlace, Lease
    <3>4. Cardinality(Queued(j)) = 0 /\ Cardinality(InHands(j)) = 1
      BY <2>2, <3>2, <3>3
    <3> QED BY <3>4
  <2> QED BY <2>1, <2>3, <2>4 DEF Tokens
<1> QED BY <1>1, <1>2, <1>3, PTL DEF Spec

-----------------------------------------------------------------------------
(* Memory and store: what a step does to claims, grants and leases.        *)

Wanted(j) == waiter[j] \notin {"new", "persisted"}

\* The call of b makes no claim, ends none it acts on and gets no grant.
Quiet(b) ==
    \/ rpc'[b] = rpc[b]
    \/ /\ rpc[b].pc # "requeued"
       /\ rpc'[b].pc \notin {"requeued", "granted"}
       /\ rpc'[b].todo \subseteq rpc[b].todo

Orders == RunsInOrder /\ ClaimsAreOld /\ GrantsFit /\ LeaseAgrees

LEMMA AgreementFacts ==
    ASSUME Agreement
    PROVE  /\ QueueTypes /\ OnePlace /\ TokensFit /\ RowsFit /\ Orders
           /\ \A j \in Jobs : runs[j] \in Nat /\ inflight[j] \in Entries /\ inflight[j].run \in Nat
           /\ \A j \in Jobs : rows[j] \in [phase : Phases, agent : Holders, run : Nat] /\ rows[j].run \in Nat
           /\ \A t \in Tokens : t \in Leases /\ t.job \in Jobs /\ t.run \in Nat
           /\ \A a \in Agents : \A c \in Claims(a) : c.job \in Jobs /\ c.run \in Nat /\ c.holder \in Agents
           /\ \A a \in Agents : /\ rpc[a] \in Calls /\ rpc[a].todo \subseteq Claims(a)
                                /\ rpc[a].run \in Nat /\ rpc[a].new \in Nat
                                /\ rpc[a].pc \in {"requeued", "popped", "granted"} => rpc[a].job \in Jobs
           /\ \A a \in Agents : rpc[a].pc = "requeued" =>
                 [job |-> rpc[a].job, holder |-> rpc[a].holder, run |-> rpc[a].run] \in Claims(a)
<1>1. QueueTypes /\ OnePlace /\ TokensFit /\ RowsFit /\ Orders
  BY DEF Agreement, Offers, Orders
<1>2. /\ \A j \in Jobs : runs[j] \in Nat /\ inflight[j] \in Entries /\ inflight[j].run \in Nat
      /\ \A j \in Jobs : rows[j] \in [phase : Phases, agent : Holders, run : Nat] /\ rows[j].run \in Nat
  BY <1>1 DEF QueueTypes, Entries
<1>3. \A t \in Tokens : t \in Leases /\ t.job \in Jobs /\ t.run \in Nat
  BY <1>1, TokenFacts
<1>4. \A a \in Agents : /\ rpc[a] \in Calls /\ rpc[a].todo \subseteq Claims(a) /\ rpc[a].todo \subseteq Claimed
                        /\ rpc[a].run \in Nat /\ rpc[a].new \in Nat
                        /\ rpc[a].pc \in {"requeued", "popped", "granted"} => rpc[a].job \in Jobs
                        /\ rpc[a].pc = "requeued" => rpc[a].holder \in Agents
  BY <1>1 DEF QueueTypes, CallOK, Calls, Working, Claims
<1>5. \A a \in Agents : rpc[a].pc = "requeued" =>
                 [job |-> rpc[a].job, holder |-> rpc[a].holder, run |-> rpc[a].run] \in Claims(a)
  BY DEF Claims
<1>6. ASSUME NEW a \in Agents, NEW c \in Claims(a) PROVE c.job \in Jobs /\ c.run \in Nat /\ c.holder \in Agents
  <2>1. CASE c \in rpc[a].todo
    BY <2>1, <1>4 DEF Claimed
  <2>2. CASE rpc[a].pc = "requeued" /\ c = [job |-> rpc[a].job, holder |-> rpc[a].holder, run |-> rpc[a].run]
    BY <2>2, <1>4
  <2> QED BY <2>1, <2>2 DEF Claims
<1> QED BY <1>1, <1>2, <1>3, <1>4, <1>5, <1>6

LEMMA QuietStep ==
    ASSUME Agreement, runs' = runs,
           \A b \in Agents : Quiet(b),
           \A t \in Tokens' : t \in Tokens,
           \A j \in Jobs : ~Wanted(j)' => ~Wanted(j),
           \A j \in Jobs : inflight'[j] = inflight[j] \/ inflight'[j] = NoEntry,
           \A j \in Jobs : \/ rows'[j] = rows[j]
                           \/ rows'[j].phase \in AtEnd /\ rows'[j].run <= runs[j]
                           \/ rows[j].phase = "none" /\ ~Held(j) /\ rows'[j].run <= runs[j]
    PROVE  Orders'
<1>f. /\ QueueTypes /\ OnePlace /\ TokensFit /\ RowsFit /\ Orders
      /\ \A j \in Jobs : runs[j] \in Nat /\ inflight[j] \in Entries /\ inflight[j].run \in Nat
      /\ \A j \in Jobs : rows[j] \in [phase : Phases, agent : Holders, run : Nat] /\ rows[j].run \in Nat
      /\ \A t \in Tokens : t \in Leases /\ t.job \in Jobs /\ t.run \in Nat
      /\ \A a \in Agents : \A c \in Claims(a) : c.job \in Jobs /\ c.run \in Nat /\ c.holder \in Agents
      /\ \A a \in Agents : rpc[a].pc \in {"requeued", "popped", "granted"} => rpc[a].job \in Jobs
  BY AgreementFacts
<1>q. ASSUME NEW b \in Agents
      PROVE  /\ rpc'[b].pc \in {"requeued", "granted"} => rpc'[b] = rpc[b]
             /\ rpc[b].pc = "requeued" => rpc'[b] = rpc[b]
             /\ \A c \in Claims(b)' : c \in Claims(b)
  BY DEF Quiet, Claims
<1>n. NoEntry.run = 0 /\ NoEntry.agent = NoAgent
  BY DEF NoEntry
<1>1. RunsInOrder'
  <2>1. \A j \in Jobs : runs[j] >= 1 /\ inflight[j].run <= runs[j] /\ rows[j].run <= runs[j]
    BY <1>f DEF Orders, RunsInOrder
  <2>2. \A j \in Jobs : runs'[j] >= 1 /\ inflight'[j].run <= runs'[j] /\ rows'[j].run <= runs'[j]
    <3> SUFFICES ASSUME NEW j \in Jobs
                 PROVE  runs'[j] >= 1 /\ inflight'[j].run <= runs'[j] /\ rows'[j].run <= runs'[j]
      OBVIOUS
    <3>1. runs[j] \in Nat /\ runs'[j] = runs[j] /\ runs[j] >= 1
      BY <1>f, <2>1
    <3>2. inflight'[j].run <= runs[j]
      BY <1>n, <2>1, <3>1
    <3>3. rows'[j].run <= runs[j]
      BY <2>1, <3>1
    <3> QED BY <3>1, <3>2, <3>3
  <2>3. \A t \in Tokens' : t.run <= runs'[t.job]
    BY <1>f DEF Orders, RunsInOrder
  <2>4. \A a \in Agents : rpc'[a].pc = "requeued" => rpc'[a].run < rpc'[a].new /\ rpc'[a].new <= runs'[rpc'[a].job]
    BY <1>q, <1>f DEF Orders, RunsInOrder
  <2> QED BY <2>2, <2>3, <2>4 DEF RunsInOrder
<1>2. ClaimsAreOld'
  <2> SUFFICES ASSUME NEW a \in Agents, NEW c \in Claims(a)'
               PROVE  /\ c.run <= runs'[c.job]
                      /\ \A t \in Tokens' : t.job = c.job => c.run < t.run
                      /\ Held(c.job)' => \/ c.run < inflight'[c.job].run
                                         \/ c.run = inflight'[c.job].run /\ c.holder = inflight'[c.job].agent
                      /\ waiter'[c.job] \notin {"new", "persisted"}
    BY DEF ClaimsAreOld
  <2>1. c \in Claims(a) /\ c.job \in Jobs
    BY <1>q, <1>f
  <2>2. /\ c.run <= runs[c.job]
        /\ \A t \in Tokens : t.job = c.job => c.run < t.run
        /\ Held(c.job) => \/ c.run < inflight[c.job].run
                          \/ c.run = inflight[c.job].run /\ c.holder = inflight[c.job].agent
        /\ Wanted(c.job)
    BY <2>1, <1>f DEF Orders, ClaimsAreOld, Wanted
  <2>3. Wanted(c.job)' /\ (Held(c.job)' => inflight'[c.job] = inflight[c.job])
    BY <2>1, <2>2, <1>n DEF Held
  <2> QED BY <2>2, <2>3 DEF Wanted, Held
<1>3. GrantsFit'
  <2> SUFFICES ASSUME NEW a \in Agents, rpc'[a].pc = "granted", Recorded(rpc'[a].job)
               PROVE  \/ rows'[rpc'[a].job] = [phase |-> "leased", agent |-> a, run |-> rpc'[a].run]
                      \/ rows'[rpc'[a].job].phase \in AtEnd
    BY DEF GrantsFit, Recorded, LeasedTo
  <2>1. rpc'[a] = rpc[a] /\ rpc[a].job \in Jobs
    BY <1>q, <1>f
  <2>2. LeasedTo(rpc[a].job, a, rpc[a].run) \/ rows[rpc[a].job].phase \in AtEnd
    BY <2>1, <1>f DEF Orders, GrantsFit
  <2>3. rows[rpc[a].job].phase # "none"
    BY <2>2 DEF LeasedTo, AtEnd
  <2> QED BY <2>1, <2>2, <2>3 DEF LeasedTo
<1>4. LeaseAgrees'
  <2> SUFFICES ASSUME NEW j \in Jobs, Recorded(j), inflight'[j].agent # NoAgent
               PROVE  \/ rows'[j] = [phase |-> "leased", agent |-> inflight'[j].agent, run |-> inflight'[j].run]
                      \/ rows'[j].phase \in AtEnd
                      \/ \E a \in Agents : rpc'[a].pc = "requeued" /\ rpc'[a].job = j
                                           /\ rpc'[a].run = inflight'[j].run
    BY DEF LeaseAgrees, Recorded
  <2>1. inflight'[j] = inflight[j] /\ Held(j)
    BY <1>n DEF Held
  <2>2. \/ rows[j] = [phase |-> "leased", agent |-> inflight[j].agent, run |-> inflight[j].run]
        \/ rows[j].phase \in AtEnd
        \/ \E a \in Agents : rpc[a].pc = "requeued" /\ rpc[a].job = j
                             /\ rpc[a].run = inflight[j].run
    BY <2>1, <1>f DEF Orders, LeaseAgrees
  <2>3. CASE \E a \in Agents : rpc[a].pc = "requeued" /\ rpc[a].job = j /\ rpc[a].run = inflight[j].run
    BY <2>1, <2>3, <1>q
  <2>4. CASE \/ rows[j] = [phase |-> "leased", agent |-> inflight[j].agent, run |-> inflight[j].run]
             \/ rows[j].phase \in AtEnd
    BY <2>1, <2>4
  <2> QED BY <2>2, <2>3, <2>4
<1> QED BY <1>1, <1>2, <1>3, <1>4 DEF Orders

\* A job that no claim of its run or a later one refers to is offered.
LEMMA OfferStep ==
    ASSUME Agreement, rows' = rows, runs' = runs,
           NEW j \in Jobs, NEW n \in Nat, n <= runs[j],
           inflight' = [inflight EXCEPT ![j] = [agent |-> NoAgent, run |-> n]],
           \A t \in Tokens' : t \in Tokens \/ t = Lease(j, n),
           \A k \in Jobs : ~Wanted(k)' => ~Wanted(k),
           \A b \in Agents : \A c \in Claims(b) : c.job = j => c.run < n,
           \A b \in Agents : \/ rpc'[b] = rpc[b]
                             \/ /\ rpc[b].pc = "requeued" /\ rpc[b].job = j
                                /\ rpc'[b].pc = "reclaim" /\ rpc'[b].todo = rpc[b].todo
    PROVE  Orders'
<1>f. /\ QueueTypes /\ OnePlace /\ TokensFit /\ RowsFit /\ Orders
      /\ \A k \in Jobs : runs[k] \in Nat /\ inflight[k] \in Entries /\ inflight[k].run \in Nat
      /\ \A t \in Tokens : t \in Leases /\ t.job \in Jobs /\ t.run \in Nat
      /\ \A a \in Agents : \A c \in Claims(a) : c.job \in Jobs /\ c.run \in Nat /\ c.holder \in Agents
      /\ \A a \in Agents : rpc[a].pc \in {"requeued", "popped", "granted"} => rpc[a].job \in Jobs
      /\ inflight \in [Jobs -> Entries]
  BY AgreementFacts DEF QueueTypes
<1>l. Lease(j, n).job = j /\ Lease(j, n).run = n
  BY EntryType
<1>e. /\ inflight'[j].agent = NoAgent /\ inflight'[j].run = n
      /\ \A k \in Jobs : k # j => inflight'[k] = inflight[k]
  BY <1>f
<1>q. ASSUME NEW b \in Agents
      PROVE  /\ rpc'[b].pc \in {"requeued", "granted"} => rpc'[b] = rpc[b]
             /\ rpc[b].pc = "requeued" => rpc'[b] = rpc[b] \/ rpc[b].job = j
             /\ \A c \in Claims(b)' : c \in Claims(b)
  BY DEF Claims
<1>1. RunsInOrder'
  <2>1. \A k \in Jobs : runs[k] >= 1 /\ inflight[k].run <= runs[k] /\ rows[k].run <= runs[k]
    BY <1>f DEF Orders, RunsInOrder
  <2>2. \A k \in Jobs : runs'[k] >= 1 /\ inflight'[k].run <= runs'[k] /\ rows'[k].run <= runs'[k]
    BY <1>e, <2>1
  <2>3. \A t \in Tokens' : t.run <= runs'[t.job]
    BY <1>f, <1>l DEF Orders, RunsInOrder
  <2>4. \A a \in Agents : rpc'[a].pc = "requeued" => rpc'[a].run < rpc'[a].new /\ rpc'[a].new <= runs'[rpc'[a].job]
    BY <1>q, <1>f DEF Orders, RunsInOrder
  <2> QED BY <2>2, <2>3, <2>4 DEF RunsInOrder
<1>2. ClaimsAreOld'
  <2> SUFFICES ASSUME NEW a \in Agents, NEW c \in Claims(a)'
               PROVE  /\ c.run <= runs'[c.job]
                      /\ \A t \in Tokens' : t.job = c.job => c.run < t.run
                      /\ Held(c.job)' => \/ c.run < inflight'[c.job].run
                                         \/ c.run = inflight'[c.job].run /\ c.holder = inflight'[c.job].agent
                      /\ waiter'[c.job] \notin {"new", "persisted"}
    BY DEF ClaimsAreOld
  <2>1. c \in Claims(a) /\ c.job \in Jobs
    BY <1>q, <1>f
  <2>2. /\ c.run <= runs[c.job]
        /\ \A t \in Tokens : t.job = c.job => c.run < t.run
        /\ Held(c.job) => \/ c.run < inflight[c.job].run
                          \/ c.run = inflight[c.job].run /\ c.holder = inflight[c.job].agent
        /\ Wanted(c.job)
    BY <2>1, <1>f DEF Orders, ClaimsAreOld, Wanted
  <2>3. Wanted(c.job)' /\ (Held(c.job)' => inflight'[c.job] = inflight[c.job])
    BY <2>1, <2>2, <1>e DEF Held
  <2>4. \A t \in Tokens' : t.job = c.job => c.run < t.run
    BY <2>1, <2>2, <1>l
  <2> QED BY <2>2, <2>3, <2>4 DEF Wanted, Held
<1>3. GrantsFit'
  <2> SUFFICES ASSUME NEW a \in Agents, rpc'[a].pc = "granted", Recorded(rpc'[a].job)
               PROVE  \/ rows'[rpc'[a].job] = [phase |-> "leased", agent |-> a, run |-> rpc'[a].run]
                      \/ rows'[rpc'[a].job].phase \in AtEnd
    BY DEF GrantsFit, Recorded, LeasedTo
  <2>1. rpc'[a] = rpc[a]
    BY <1>q
  <2> QED BY <2>1, <1>f DEF Orders, GrantsFit, LeasedTo
<1>4. LeaseAgrees'
  <2> SUFFICES ASSUME NEW k \in Jobs, Recorded(k), inflight'[k].agent # NoAgent
               PROVE  \/ rows'[k] = [phase |-> "leased", agent |-> inflight'[k].agent, run |-> inflight'[k].run]
                      \/ rows'[k].phase \in AtEnd
                      \/ \E a \in Agents : rpc'[a].pc = "requeued" /\ rpc'[a].job = k
                                           /\ rpc'[a].run = inflight'[k].run
    BY DEF LeaseAgrees, Recorded
  <2>1. inflight'[k] = inflight[k] /\ k # j
    BY <1>e
  <2>2. \/ rows[k] = [phase |-> "leased", agent |-> inflight[k].agent, run |-> inflight[k].run]
        \/ rows[k].phase \in AtEnd
        \/ \E a \in Agents : rpc[a].pc = "requeued" /\ rpc[a].job = k
                             /\ rpc[a].run = inflight[k].run
    BY <2>1, <1>f DEF Orders, LeaseAgrees
  <2>3. CASE \E a \in Agents : rpc[a].pc = "requeued" /\ rpc[a].job = k /\ rpc[a].run = inflight[k].run
    BY <2>1, <2>3, <1>q
  <2>4. CASE \/ rows[k] = [phase |-> "leased", agent |-> inflight[k].agent, run |-> inflight[k].run]
             \/ rows[k].phase \in AtEnd
    BY <2>1, <2>4
  <2> QED BY <2>2, <2>3, <2>4
<1> QED BY <1>1, <1>2, <1>3, <1>4 DEF Orders

\* A reclaim reads the holders of the jobs.
LEMMA ReadStep ==
    ASSUME Agreement, NEW a \in Agents,
           rpc[a].pc # "requeued", rpc'[a].pc = "reclaim", rpc'[a].todo = Candidates,
           \A b \in Agents : b # a => rpc'[b] = rpc[b],
           rows' = rows, runs' = runs, inflight' = inflight, waiter' = waiter, Tokens' = Tokens
    PROVE  Orders'
<1>f. QueueTypes /\ TokensFit /\ Orders
  BY AgreementFacts
<1>c. \A c \in Candidates : /\ c.job \in Jobs /\ Held(c.job)
                            /\ c.holder = inflight[c.job].agent /\ c.run = inflight[c.job].run
  BY DEF Candidates, Held
<1>1. RunsInOrder'
  BY <1>f DEF Orders, RunsInOrder
<1>2. ClaimsAreOld'
  <2> SUFFICES ASSUME NEW b \in Agents, NEW c \in Claims(b)'
               PROVE  /\ c.run <= runs[c.job]
                      /\ \A t \in Tokens : t.job = c.job => c.run < t.run
                      /\ Held(c.job) => \/ c.run < inflight[c.job].run
                                        \/ c.run = inflight[c.job].run /\ c.holder = inflight[c.job].agent
                      /\ waiter[c.job] \notin {"new", "persisted"}
    BY DEF ClaimsAreOld, Held
  <2>1. CASE c \in Claims(b)
    BY <2>1, <1>f DEF Orders, ClaimsAreOld
  <2>2. CASE c \in Candidates
    <3>1. \A t \in Tokens : t.job # c.job
      BY <2>2, <1>c, <1>f DEF TokensFit
    <3>2. waiter[c.job] \notin {"new", "persisted"}
      BY <2>2, <1>c, <1>f DEF TokensFit
    <3>3. c.run <= runs[c.job]
      BY <2>2, <1>c, <1>f DEF Orders, RunsInOrder
    <3> QED BY <2>2, <1>c, <3>1, <3>2, <3>3
  <2>3. c \in Claims(b) \/ c \in Candidates
    BY DEF Claims
  <2> QED BY <2>1, <2>2, <2>3
<1>3. GrantsFit'
  BY <1>f DEF Orders, GrantsFit, LeasedTo
<1>4. LeaseAgrees'
  <2>1. \A b \in Agents : rpc[b].pc = "requeued" => rpc'[b] = rpc[b]
    OBVIOUS
  <2> QED BY <2>1, <1>f DEF Orders, LeaseAgrees
<1> QED BY <1>1, <1>2, <1>3, <1>4 DEF Orders

\* The compare and swap of a reclaim succeeds.
LEMMA RequeueStep ==
    ASSUME Agreement, NEW a \in Agents, rpc[a].pc = "reclaim",
           NEW c \in rpc[a].todo, Requeues(c), Requeue(a, c),
           inflight' = inflight, waiter' = waiter, pending' = pending
    PROVE  Orders'
<1>f. /\ QueueTypes /\ OnePlace /\ TokensFit /\ RowsFit /\ Orders
      /\ \A k \in Jobs : runs[k] \in Nat /\ inflight[k] \in Entries /\ inflight[k].run \in Nat
      /\ \A k \in Jobs : rows[k].run \in Nat
      /\ \A t \in Tokens : t \in Leases /\ t.job \in Jobs /\ t.run \in Nat
      /\ \A b \in Agents : \A x \in Claims(b) : x.job \in Jobs /\ x.run \in Nat /\ x.holder \in Agents
      /\ \A b \in Agents : rpc[b].pc \in {"requeued", "popped", "granted"} => rpc[b].job \in Jobs
      /\ c \in Claims(a)
      /\ runs \in [Jobs -> Nat] /\ rpc \in [Agents -> Calls] /\ rpc[a] \in Calls
      /\ rows \in [Jobs -> [phase : Phases, agent : Holders, run : Nat]]
  BY AgreementFacts DEF QueueTypes
<1>j. c \in Claimed /\ c.job \in Jobs /\ c.run \in Nat
  BY <1>f DEF Calls, Claimed
<1>j2. PICK j \in Jobs, n \in Nat : j = c.job /\ n = runs[j] + 1
  BY <1>f, <1>j
<1> DEFINE d == [rpc[a] EXCEPT !.pc = "requeued", !.todo = @ \ {c}, !.job = c.job, !.run = c.run,
                               !.holder = c.holder, !.new = runs[c.job] + 1]
<1>d. /\ d.pc = "requeued" /\ d.todo = rpc[a].todo \ {c} /\ d.job = j /\ d.run = c.run
      /\ d.holder = c.holder /\ d.new = n
  <2>1. CallOK(rpc[a])
    BY <1>f DEF QueueTypes
  <2>2. runs[c.job] + 1 \in Nat
    BY <1>f, <1>j
  <2>3. /\ d.pc = "requeued" /\ d.todo = rpc[a].todo \ {c} /\ d.job = c.job /\ d.run = c.run
        /\ d.holder = c.holder /\ d.new = runs[c.job] + 1
    <3>1. rpc[a] \in Calls /\ c \in Claimed
      BY <1>f, <1>j
    <3> QED BY <3>1 DEF Calls
  <2> HIDE DEF d
  <2> QED BY <2>3, <1>j2
<1>0. rpc' = [rpc EXCEPT ![a] = d]
  BY DEF Requeue
<1> HIDE DEF d
<1>g. rpc'[a] = d /\ \A b \in Agents : b # a => rpc'[b] = rpc[b]
  BY <1>0, <1>f
<1> DEFINE row == [phase |-> "pending", agent |-> NoAgent, run |-> n]
<1>r. /\ runs'[j] = n /\ \A k \in Jobs : k # j => runs'[k] = runs[k]
      /\ \A k \in Jobs : k # j \/ ~HasStore => rows'[k] = rows[k]
      /\ HasStore => /\ rows'[j] = row
                     /\ rows[j] = [phase |-> "leased", agent |-> c.holder, run |-> c.run]
  BY <1>f, <1>j2 DEF Requeue, Requeues
<1>w. row.run = n
  OBVIOUS
<1> HIDE DEF row
<1>t. Tokens' = Tokens
  <2>1. \A b \in Agents : SameHand(b)
    BY <1>d, <1>g DEF SameHand, Hand
  <2> QED BY <2>1, SamePlaces
<1>c. \A b \in Agents : \A x \in Claims(b)' : x \in Claims(b)
  <2>1. \A x \in Claims(a)' : x \in Claims(a)
    <3>1. c = [job |-> j, holder |-> c.holder, run |-> c.run]
      BY <1>j, <1>j2 DEF Claimed
    <3> QED BY <1>d, <1>f, <1>g, <3>1 DEF Claims
  <2> QED BY <1>g, <2>1 DEF Claims
<1>1. RunsInOrder'
  <2>1. /\ \A k \in Jobs : runs[k] >= 1 /\ inflight[k].run <= runs[k] /\ rows[k].run <= runs[k]
        /\ \A t \in Tokens : t.run <= runs[t.job]
        /\ \A b \in Agents : rpc[b].pc = "requeued" =>
              rpc[b].run < rpc[b].new /\ rpc[b].new <= runs[rpc[b].job]
    BY <1>f DEF Orders, RunsInOrder
  <2>0. \A k \in Jobs : runs'[k] \in Nat /\ runs[k] <= runs'[k]
    BY <1>f, <1>r, <1>j2
  <2>2. \A k \in Jobs : runs'[k] >= 1 /\ inflight'[k].run <= runs'[k]
    BY <1>f, <2>0, <2>1
  <2>3. ASSUME NEW k \in Jobs PROVE rows'[k].run <= runs'[k]
    <3>1. CASE HasStore /\ k = j
      BY <3>1, <1>r, <1>w
    <3>2. CASE ~(HasStore /\ k = j)
      BY <3>2, <1>r, <1>f, <2>0, <2>1
    <3> QED BY <3>1, <3>2
  <2>4. \A t \in Tokens' : t.run <= runs'[t.job]
    BY <1>f, <1>t, <2>0, <2>1
  <2>5. ASSUME NEW b \in Agents, rpc'[b].pc = "requeued"
        PROVE  rpc'[b].run < rpc'[b].new /\ rpc'[b].new <= runs'[rpc'[b].job]
    <3>1. CASE b = a
      <4>1. c.run <= runs[j]
        BY <1>f, <1>j2 DEF Orders, ClaimsAreOld
      <4> QED BY <3>1, <4>1, <1>d, <1>g, <1>r, <1>j, <1>j2, <1>f
    <3>2. CASE b # a
      <4>1. rpc'[b] = rpc[b] /\ rpc[b].job \in Jobs /\ rpc[b].new \in Nat
        BY <3>2, <2>5, <1>g, AgreementFacts
      <4> QED BY <4>1, <2>5, <2>0, <2>1, <1>f
    <3> QED BY <3>1, <3>2
  <2> QED BY <2>2, <2>3, <2>4, <2>5 DEF RunsInOrder
<1>2. ClaimsAreOld'
  <2>0. \A k \in Jobs : runs'[k] \in Nat /\ runs[k] <= runs'[k]
    BY <1>f, <1>r, <1>j2
  <2>1. ASSUME NEW b \in Agents, NEW x \in Claims(b)' PROVE x \in Claims(b) /\ x.run <= runs'[x.job]
    <3>1. x \in Claims(b) /\ x.job \in Jobs /\ x.run \in Nat /\ x.run <= runs[x.job]
      BY <1>c, <1>f DEF Orders, ClaimsAreOld
    <3> QED BY <3>1, <2>0, <1>f
  <2> QED BY <2>1, <1>t, <1>f DEF Orders, ClaimsAreOld, Held
<1>3. GrantsFit'
  <2> SUFFICES ASSUME NEW b \in Agents, rpc'[b].pc = "granted", Recorded(rpc'[b].job)
               PROVE  \/ rows'[rpc'[b].job] = [phase |-> "leased", agent |-> b, run |-> rpc'[b].run]
                      \/ rows'[rpc'[b].job].phase \in AtEnd
    BY DEF GrantsFit, Recorded, LeasedTo
  <2>1. rpc'[b] = rpc[b] /\ Hand(b) /\ rpc[b].job \in Jobs
    BY <1>d, <1>g, <1>f DEF Hand
  <2>2. \/ rows[rpc[b].job] = [phase |-> "leased", agent |-> b, run |-> rpc[b].run]
        \/ rows[rpc[b].job].phase \in AtEnd
    BY <2>1, <1>f DEF Orders, GrantsFit, LeasedTo
  <2>3. CASE HasStore /\ rpc[b].job = j
    <3>1. Lease(j, rpc[b].run) \in Tokens /\ rpc[b].run \in Nat
      BY <2>1, <2>3, <1>f, TokenFacts
    <3>2. c.run < rpc[b].run
      <4>1. \A t \in Tokens : t.job = j => c.run < t.run
        BY <1>f, <1>j2 DEF Orders, ClaimsAreOld
      <4>2. Lease(j, rpc[b].run).job = j /\ Lease(j, rpc[b].run).run = rpc[b].run
        BY <3>1, EntryType
      <4> QED BY <3>1, <4>1, <4>2
    <3>3. rows[j].phase = "leased" /\ rows[j].run = c.run
      BY <2>3, <1>r
    <3>4. rows[j].run # rpc[b].run
      BY <3>1, <3>2, <3>3, <1>j
    <3> QED BY <2>2, <2>3, <3>3, <3>4 DEF AtEnd
  <2>4. CASE ~(HasStore /\ rpc[b].job = j)
    BY <2>1, <2>2, <2>4, <1>r
  <2> QED BY <2>3, <2>4
<1>4. LeaseAgrees'
  <2> SUFFICES ASSUME NEW k \in Jobs, Recorded(k), inflight[k].agent # NoAgent
               PROVE  \/ rows'[k] = [phase |-> "leased", agent |-> inflight[k].agent, run |-> inflight[k].run]
                      \/ rows'[k].phase \in AtEnd
                      \/ \E b \in Agents : rpc'[b].pc = "requeued" /\ rpc'[b].job = k
                                           /\ rpc'[b].run = inflight[k].run
    BY DEF LeaseAgrees, Recorded
  <2>2. \/ rows[k] = [phase |-> "leased", agent |-> inflight[k].agent, run |-> inflight[k].run]
        \/ rows[k].phase \in AtEnd
        \/ \E b \in Agents : rpc[b].pc = "requeued" /\ rpc[b].job = k
                             /\ rpc[b].run = inflight[k].run
    BY <1>f DEF Orders, LeaseAgrees
  <2>3. CASE \E b \in Agents : rpc[b].pc = "requeued" /\ rpc[b].job = k /\ rpc[b].run = inflight[k].run
    BY <2>3, <1>g
  <2>4. CASE \/ rows[k] = [phase |-> "leased", agent |-> inflight[k].agent, run |-> inflight[k].run]
             \/ rows[k].phase \in AtEnd
    <3>1. CASE k = j
      <4>1. HasStore /\ rows[j].phase = "leased" /\ rows[j].run = c.run
        BY <3>1, <1>r DEF Recorded
      <4>2. inflight[k].run = c.run
        BY <2>4, <3>1, <4>1 DEF AtEnd
      <4> QED BY <3>1, <4>2, <1>d, <1>g
    <3>2. CASE k # j
      BY <2>4, <3>2, <1>r
    <3> QED BY <3>1, <3>2
  <2> QED BY <2>2, <2>3, <2>4
<1> QED BY <1>1, <1>2, <1>3, <1>4 DEF Orders

\* A reclaim finds that the entry has changed.
LEMMA LateStep ==
    ASSUME Agreement, NEW a \in Agents, rpc[a].pc = "requeued", ~StillHeld(a),
           rpc'[a].pc = "reclaim", rpc'[a].todo = rpc[a].todo,
           \A b \in Agents : b # a => rpc'[b] = rpc[b],
           rows' = rows, runs' = runs, inflight' = inflight, waiter' = waiter, Tokens' = Tokens
    PROVE  Orders'
<1>f. /\ QueueTypes /\ Orders
      /\ \A k \in Jobs : inflight[k] \in Entries
      /\ rpc[a].job \in Jobs /\ rpc[a].run \in Nat
      /\ [job |-> rpc[a].job, holder |-> rpc[a].holder, run |-> rpc[a].run] \in Claims(a)
  BY AgreementFacts
<1>c. \A b \in Agents : \A c \in Claims(b)' : c \in Claims(b)
  BY DEF Claims
<1>1. RunsInOrder'
  BY <1>f DEF Orders, RunsInOrder
<1>2. ClaimsAreOld'
  BY <1>f, <1>c DEF Orders, ClaimsAreOld, Held
<1>3. GrantsFit'
  BY <1>f DEF Orders, GrantsFit, LeasedTo
<1>4. LeaseAgrees'
  <2> SUFFICES ASSUME NEW k \in Jobs, Recorded(k), inflight[k].agent # NoAgent
               PROVE  \/ rows[k] = [phase |-> "leased", agent |-> inflight[k].agent, run |-> inflight[k].run]
                      \/ rows[k].phase \in AtEnd
                      \/ \E b \in Agents : rpc'[b].pc = "requeued" /\ rpc'[b].job = k
                                           /\ rpc'[b].run = inflight[k].run
    BY DEF LeaseAgrees, Recorded
  <2>1. \/ rows[k] = [phase |-> "leased", agent |-> inflight[k].agent, run |-> inflight[k].run]
        \/ rows[k].phase \in AtEnd
        \/ \E b \in Agents : rpc[b].pc = "requeued" /\ rpc[b].job = k
                             /\ rpc[b].run = inflight[k].run
    BY <1>f DEF Orders, LeaseAgrees
  <2>2. ~(rpc[a].job = k /\ rpc[a].run = inflight[k].run)
    <3> SUFFICES ASSUME rpc[a].job = k, rpc[a].run = inflight[k].run PROVE FALSE
      OBVIOUS
    <3>1. \/ rpc[a].run < inflight[k].run
          \/ rpc[a].run = inflight[k].run /\ rpc[a].holder = inflight[k].agent
      <4> DEFINE c == [job |-> rpc[a].job, holder |-> rpc[a].holder, run |-> rpc[a].run]
      <4>1. c.job = k /\ c.run = rpc[a].run /\ c.holder = rpc[a].holder /\ c \in Claims(a)
        BY <1>f
      <4> HIDE DEF c
      <4>2. Held(k)
        BY DEF Held
      <4> QED BY <4>1, <4>2, <1>f DEF Orders, ClaimsAreOld
    <3>2. rpc[a].holder = inflight[k].agent
      BY <3>1, <1>f
    <3>3. inflight[k] = [agent |-> rpc[a].holder, run |-> rpc[a].run]
      BY <3>2, <1>f DEF Entries
    <3> QED BY <3>3 DEF StillHeld
  <2> QED BY <2>1, <2>2
<1> QED BY <1>1, <1>2, <1>3, <1>4 DEF Orders

\* The store grants a poll the job it has popped.
LEMMA GrantStep ==
    ASSUME Agreement, NEW a \in Agents, rpc[a].pc = "popped",
           rpc'[a].pc = "granted", rpc'[a].job = rpc[a].job, rpc'[a].run = rpc[a].run,
           rpc'[a].todo = rpc[a].todo, \A b \in Agents : b # a => rpc'[b] = rpc[b],
           NEW j \in Jobs, j = rpc[a].job,
           \A k \in Jobs : k # j \/ ~HasStore => rows'[k] = rows[k],
           HasStore => /\ rows[j].phase = "pending" /\ rows[j].run = rpc[a].run
                       /\ rows'[j] = [phase |-> "leased", agent |-> a, run |-> rpc[a].run],
           runs' = runs, inflight' = inflight, waiter' = waiter, Tokens' = Tokens
    PROVE  Orders'
<1>f. /\ QueueTypes /\ TokensFit /\ Orders
      /\ \A b \in Agents : rpc[b].pc \in {"requeued", "popped", "granted"} => rpc[b].job \in Jobs
      /\ \A k \in Jobs : runs[k] \in Nat /\ rows[k].run \in Nat
  BY AgreementFacts
<1>h. ~Held(j)
  <2>1. Lease(j, rpc[a].run) \in Tokens /\ rpc[a].run \in Nat
    BY <1>f, TokenFacts DEF Hand
  <2>2. Lease(j, rpc[a].run).job = j
    BY <2>1, EntryType
  <2> QED BY <2>1, <2>2, <1>f DEF TokensFit
<1>c. \A b \in Agents : \A c \in Claims(b)' : c \in Claims(b)
  BY DEF Claims
<1>1. RunsInOrder'
  <2>1. \A k \in Jobs : rows'[k].run = rows[k].run
    OBVIOUS
  <2>2. \A b \in Agents : rpc'[b].pc = "requeued" => rpc'[b] = rpc[b]
    OBVIOUS
  <2> QED BY <1>f, <2>1, <2>2 DEF Orders, RunsInOrder
<1>2. ClaimsAreOld'
  BY <1>f, <1>c DEF Orders, ClaimsAreOld, Held
<1>3. GrantsFit'
  <2> SUFFICES ASSUME NEW b \in Agents, rpc'[b].pc = "granted", Recorded(rpc'[b].job)
               PROVE  \/ rows'[rpc'[b].job] = [phase |-> "leased", agent |-> b, run |-> rpc'[b].run]
                      \/ rows'[rpc'[b].job].phase \in AtEnd
    BY DEF GrantsFit, Recorded, LeasedTo
  <2>1. CASE b = a
    BY <2>1 DEF Recorded
  <2>2. CASE b # a
    <3>1. rpc'[b] = rpc[b] /\ rpc[b].job \in Jobs
      BY <2>2, <1>f
    <3>2. \/ rows[rpc[b].job] = [phase |-> "leased", agent |-> b, run |-> rpc[b].run]
          \/ rows[rpc[b].job].phase \in AtEnd
      BY <3>1, <1>f DEF Orders, GrantsFit, LeasedTo
    <3>3. HasStore => rpc[b].job # j
      BY <3>2 DEF AtEnd
    <3> QED BY <3>1, <3>2, <3>3
  <2> QED BY <2>1, <2>2
<1>4. LeaseAgrees'
  <2> SUFFICES ASSUME NEW k \in Jobs, Recorded(k), inflight[k].agent # NoAgent
               PROVE  \/ rows'[k] = [phase |-> "leased", agent |-> inflight[k].agent, run |-> inflight[k].run]
                      \/ rows'[k].phase \in AtEnd
                      \/ \E b \in Agents : rpc'[b].pc = "requeued" /\ rpc'[b].job = k
                                           /\ rpc'[b].run = inflight[k].run
    BY DEF LeaseAgrees, Recorded
  <2>1. rows'[k] = rows[k]
    BY <1>h DEF Held
  <2>2. \A b \in Agents : rpc[b].pc = "requeued" => rpc'[b] = rpc[b]
    OBVIOUS
  <2> QED BY <2>1, <2>2, <1>f DEF Orders, LeaseAgrees
<1> QED BY <1>1, <1>2, <1>3, <1>4 DEF Orders

\* A granted job is handed out.
LEMMA HandOutStep ==
    ASSUME Agreement, NEW a \in Agents, rpc[a].pc = "granted", rpc'[a] = Idle,
           \A b \in Agents : b # a => rpc'[b] = rpc[b],
           NEW j \in Jobs, j = rpc[a].job, inflight[j] # NoEntry,
           inflight' = [inflight EXCEPT ![j] = [agent |-> a, run |-> inflight[j].run]],
           \A t \in Tokens' : t \in Tokens /\ t.job # j,
           rows' = rows, runs' = runs, waiter' = waiter
    PROVE  Orders'
<1>f. /\ QueueTypes /\ TokensFit /\ Orders
      /\ inflight \in [Jobs -> Entries]
      /\ \A b \in Agents : \A x \in Claims(b) : x.job \in Jobs /\ x.run \in Nat /\ x.holder \in Agents
      /\ \A t \in Tokens : t \in Leases /\ t.job \in Jobs /\ t.run \in Nat
      /\ Idle.pc = "idle" /\ Idle.todo = {}
  BY AgreementFacts, IdleType DEF QueueTypes
<1>l. /\ Lease(j, rpc[a].run) \in Tokens /\ rpc[a].run \in Nat
      /\ Lease(j, rpc[a].run).job = j /\ Lease(j, rpc[a].run).run = rpc[a].run
  BY <1>f, TokenFacts, EntryType DEF Hand
<1>r. rpc[a].run = inflight[j].run
  BY <1>l, <1>f DEF TokensFit
<1>e. /\ inflight'[j].agent = a /\ inflight'[j].run = inflight[j].run
      /\ \A k \in Jobs : k # j => inflight'[k] = inflight[k]
  BY <1>f
<1>c. \A b \in Agents : \A c \in Claims(b)' : c \in Claims(b)
  BY <1>f DEF Claims
<1>1. RunsInOrder'
  <2>1. \A k \in Jobs : inflight'[k].run = inflight[k].run
    BY <1>e
  <2>2. \A b \in Agents : rpc'[b].pc = "requeued" => rpc'[b] = rpc[b]
    BY <1>f
  <2> QED BY <1>f, <2>1, <2>2 DEF Orders, RunsInOrder
<1>2. ClaimsAreOld'
  <2> SUFFICES ASSUME NEW b \in Agents, NEW c \in Claims(b)'
               PROVE  /\ c.run <= runs[c.job]
                      /\ \A t \in Tokens' : t.job = c.job => c.run < t.run
                      /\ Held(c.job)' => \/ c.run < inflight'[c.job].run
                                         \/ c.run = inflight'[c.job].run /\ c.holder = inflight'[c.job].agent
                      /\ waiter[c.job] \notin {"new", "persisted"}
    BY DEF ClaimsAreOld
  <2>1. c \in Claims(b) /\ c.job \in Jobs
    BY <1>c, <1>f
  <2>2. /\ c.run <= runs[c.job]
        /\ \A t \in Tokens : t.job = c.job => c.run < t.run
        /\ Held(c.job) => \/ c.run < inflight[c.job].run
                          \/ c.run = inflight[c.job].run /\ c.holder = inflight[c.job].agent
        /\ waiter[c.job] \notin {"new", "persisted"}
    BY <2>1, <1>f DEF Orders, ClaimsAreOld
  <2>3. CASE c.job = j
    <3>1. c.run < inflight'[j].run
      BY <2>2, <2>3, <1>l, <1>r, <1>e
    <3> QED BY <2>2, <2>3, <3>1
  <2>4. CASE c.job # j
    BY <2>1, <2>2, <2>4, <1>e DEF Held
  <2> QED BY <2>3, <2>4
<1>3. GrantsFit'
  <2>1. \A b \in Agents : rpc'[b].pc = "granted" => rpc'[b] = rpc[b]
    BY <1>f
  <2> QED BY <2>1, <1>f DEF Orders, GrantsFit, LeasedTo
<1>4. LeaseAgrees'
  <2> SUFFICES ASSUME NEW k \in Jobs, Recorded(k), inflight'[k].agent # NoAgent
               PROVE  \/ rows[k] = [phase |-> "leased", agent |-> inflight'[k].agent, run |-> inflight'[k].run]
                      \/ rows[k].phase \in AtEnd
                      \/ \E b \in Agents : rpc'[b].pc = "requeued" /\ rpc'[b].job = k
                                           /\ rpc'[b].run = inflight'[k].run
    BY DEF LeaseAgrees, Recorded
  <2>1. CASE k = j
    BY <2>1, <1>e, <1>r, <1>f DEF Orders, GrantsFit, LeasedTo
  <2>2. CASE k # j
    <3>1. inflight'[k] = inflight[k]
      BY <2>2, <1>e
    <3>2. \A b \in Agents : rpc[b].pc = "requeued" => rpc'[b] = rpc[b]
      OBVIOUS
    <3> QED BY <3>1, <3>2, <1>f DEF Orders, LeaseAgrees
  <2> QED BY <2>1, <2>2
<1> QED BY <1>1, <1>2, <1>3, <1>4 DEF Orders

\* Recovery makes memory from the rows.
LEMMA RecoverStep == ASSUME Agreement, CrashAndRecover PROVE Orders'
<1>f. /\ QueueTypes /\ RowsFit /\ Orders
      /\ \A k \in Jobs : runs[k] \in Nat /\ rows[k].run \in Nat
      /\ \A k \in Jobs : rows[k] \in [phase : Phases, agent : Holders, run : Nat]
  BY AgreementFacts
<1>i. \A b \in Agents : rpc'[b].pc = "idle" /\ Claims(b)' = {}
  BY IdleType DEF CrashAndRecover, Claims
<1>e. \A k \in Jobs :
        /\ Restored(k) => inflight'[k].agent = rows[k].agent /\ inflight'[k].run = rows[k].run
        /\ ~Restored(k) => inflight'[k].agent = NoAgent /\ inflight'[k].run = 0
  BY DEF CrashAndRecover, Restored, NoEntry
<1>u. runs' = runs /\ rows' = rows
  BY DEF CrashAndRecover
<1>o. \A k \in Jobs : runs[k] >= 1 /\ rows[k].run <= runs[k]
  BY <1>f DEF Orders, RunsInOrder
<1>1. RunsInOrder'
  <2>1. \A t \in Tokens' : t.run <= runs'[t.job]
    <3>1. Tokens' = RestoredQueue
      BY <1>f, RestoredPlaces
    <3>2. ASSUME NEW t \in RestoredQueue PROVE t.run <= runs[t.job]
      <4>1. PICK k \in Jobs : t = Lease(k, rows[k].run)
        BY DEF RestoredQueue
      <4>2. t.job = k /\ t.run = rows[k].run
        BY <4>1 DEF Lease
      <4> QED BY <4>2, <1>o
    <3> QED BY <3>1, <3>2, <1>u
  <2>2. ASSUME NEW k \in Jobs PROVE inflight'[k].run <= runs[k]
    <3>1. CASE Restored(k)
      BY <3>1, <1>e, <1>o
    <3>2. CASE ~Restored(k)
      <4>1. inflight'[k].run = 0
        BY <3>2, <1>e
      <4> QED BY <4>1, <1>f
    <3> QED BY <3>1, <3>2
  <2> QED BY <1>u, <1>i, <1>o, <2>1, <2>2 DEF RunsInOrder
<1>2. ClaimsAreOld'
  BY <1>i DEF ClaimsAreOld
<1>3. GrantsFit'
  BY <1>i DEF GrantsFit
<1>4. LeaseAgrees'
  <2> SUFFICES ASSUME NEW k \in Jobs, inflight'[k].agent # NoAgent
               PROVE  rows[k] = [phase |-> "leased", agent |-> inflight'[k].agent, run |-> inflight'[k].run]
    BY <1>u DEF LeaseAgrees
  <2>1. Restored(k) /\ inflight'[k].agent = rows[k].agent /\ inflight'[k].run = rows[k].run
    BY <1>e, EntryType
  <2>2. rows[k].phase = "leased"
    BY <2>1, <1>f DEF Restored, RowsFit
  <2>3. rows[k] = [phase |-> rows[k].phase, agent |-> rows[k].agent, run |-> rows[k].run]
    BY <1>f
  <2> QED BY <2>1, <2>2, <2>3
<1> QED BY <1>1, <1>2, <1>3, <1>4 DEF Orders

LEMMA EpisodeOrders ==
    ASSUME Agreement, NEW j \in Jobs, EpisodeTask(j) \/ CancelEpisode(j) PROVE Orders'
<1> USE DEF queueVars, registryVars, storeVars
<1>f. /\ QueueTypes /\ OnePlace /\ TokensFit
      /\ inflight \in [Jobs -> Entries]
      /\ waiter \in [Jobs -> {"new", "persisted", "waiting", "recovered", "abandoned", "ending", "done", "lost"}]
      /\ rows \in [Jobs -> [phase : Phases, agent : Holders, run : Nat]]
      /\ \A k \in Jobs : runs[k] \in Nat /\ runs[k] >= 1 /\ rows[k].run <= runs[k]
  BY AgreementFacts DEF Orders, RunsInOrder, QueueTypes
<1>1. ASSUME rpc' = rpc, runs' = runs, \A t \in Tokens' : t \in Tokens,
             \A k \in Jobs : ~Wanted(k)' => ~Wanted(k),
             \A k \in Jobs : inflight'[k] = inflight[k] \/ inflight'[k] = NoEntry,
             \A k \in Jobs : \/ rows'[k] = rows[k]
                             \/ rows'[k].phase \in AtEnd /\ rows'[k].run <= runs[k]
                             \/ rows[k].phase = "none" /\ ~Held(k) /\ rows'[k].run <= runs[k]
      PROVE  Orders'
  <2>1. \A b \in Agents : Quiet(b)
    BY <1>1 DEF Quiet
  <2> QED BY <1>1, <2>1, QuietStep
<1>2. CASE TakeCompletion(j) \/ CommitLocal(j) \/ PersistJob(j) \/ mark_agent_job_terminal(j)
  <2>1. /\ pending' = pending /\ inflight' = inflight /\ rpc' = rpc /\ runs' = runs
        /\ \A k \in Jobs : ~Wanted(k)' => ~Wanted(k)
    BY <1>2, <1>f DEF TakeCompletion, CommitLocal, PersistJob, mark_agent_job_terminal, Wanted
  <2>2. Tokens' = Tokens
    BY <2>1, SameHands, SamePlaces
  <2>3. ASSUME NEW k \in Jobs
        PROVE  \/ rows'[k] = rows[k]
               \/ rows'[k].phase \in AtEnd /\ rows'[k].run <= runs[k]
               \/ rows[k].phase = "none" /\ ~Held(k) /\ rows'[k].run <= runs[k]
    <3>1. CASE TakeCompletion(j) \/ CommitLocal(j)
      BY <3>1 DEF TakeCompletion, CommitLocal
    <3>2. CASE PersistJob(j)
      <4>1. ~Held(j)
        BY <3>2, <1>f DEF PersistJob, TokensFit
      <4>2. rows' = rows \/ /\ rows[j].phase = "none"
                            /\ rows' = [rows EXCEPT ![j] = [phase |-> "pending", agent |-> NoAgent, run |-> 1]]
        BY <3>2 DEF PersistJob
      <4>3. rows'[k] = rows[k] \/ (k = j /\ rows[j].phase = "none" /\ rows'[j].run = 1)
        BY <4>2, <1>f
      <4> QED BY <4>1, <4>3, <1>f
    <3>3. CASE mark_agent_job_terminal(j)
      <4> DEFINE row == [rows[j] EXCEPT !.phase = "timed_out"]
      <4>1. rows' = rows \/ rows' = [rows EXCEPT ![j] = row]
        BY <3>3 DEF mark_agent_job_terminal
      <4>2. row.phase = "timed_out" /\ row.run = rows[j].run /\ row.phase \in AtEnd
        BY <1>f DEF AtEnd
      <4> HIDE DEF row
      <4>3. rows'[k] = rows[k] \/ (k = j /\ rows'[k] = row)
        BY <4>1, <1>f
      <4> QED BY <4>2, <4>3, <1>f
    <3> QED BY <1>2, <3>1, <3>2, <3>3
  <2> QED BY <1>1, <2>1, <2>2, <2>3
<1>3. CASE GiveUp(j) \/ CancelEpisode(j)
  <2>1. /\ abandon(j) /\ rpc' = rpc /\ runs' = runs /\ rows' = rows
        /\ inflight' = [inflight EXCEPT ![j] = NoEntry]
        /\ \A k \in Jobs : ~Wanted(k)' => ~Wanted(k)
    BY <1>3, <1>f DEF GiveUp, CancelEpisode, abandon, Wanted
  <2>2. \A t \in Tokens' : t \in Tokens
    BY <2>1, <1>f, SameHands, AbandonPlace
  <2>3. \A k \in Jobs : inflight'[k] = inflight[k] \/ inflight'[k] = NoEntry
    BY <2>1, <1>f
  <2> QED BY <1>1, <2>1, <2>2, <2>3
<1>4. CASE enqueue(j)
  <2>1. /\ rpc' = rpc /\ rows' = rows /\ runs' = runs /\ pending' = Append(pending, Lease(j, 1))
        /\ inflight' = [inflight EXCEPT ![j] = [agent |-> NoAgent, run |-> 1]]
        /\ waiter[j] = "persisted" /\ \A k \in Jobs : ~Wanted(k)' => ~Wanted(k)
    BY <1>4, <1>f DEF enqueue, Wanted
  <2>2. Lease(j, 1) \in Leases /\ Lease(j, 1).job = j
    BY EntryType
  <2>3. \A t \in Tokens : t.job # Lease(j, 1).job
    BY <1>f, <2>1, <2>2 DEF TokensFit
  <2>4. \A t \in Tokens' : t \in Tokens \/ t = Lease(j, 1)
    BY <1>f, <2>1, <2>2, <2>3, SameHands, NewPlace
  <2>5. \A b \in Agents : \A c \in Claims(b) : c.job = j => c.run < 1
    BY <2>1, AgreementFacts DEF Orders, ClaimsAreOld
  <2>6. 1 \in Nat /\ 1 <= runs[j]
    BY <1>f
  <2> QED BY <2>1, <2>4, <2>5, <2>6, OfferStep
<1> QED BY <1>2, <1>3, <1>4 DEF EpisodeTask

LEMMA AgentOrders ==
    ASSUME Agreement, ~Disconnects, NEW a \in Agents,
           \/ register_agent(a) \/ Ages(a) \/ agent_heartbeat(a) \/ poll_agent_job(a)
           \/ Reclaim(a) \/ Complete(a)
    PROVE  Orders'
<1> USE DEF queueVars, registryVars, storeVars
<1>f. /\ QueueTypes /\ OnePlace /\ TokensFit /\ Orders
      /\ inflight \in [Jobs -> Entries]
      /\ rows \in [Jobs -> [phase : Phases, agent : Holders, run : Nat]]
      /\ rpc \in [Agents -> Calls] /\ rpc[a] \in Calls
      /\ rpc[a].pc \in Working => rpc[a].job \in Jobs
      /\ \A k \in Jobs : runs[k] \in Nat /\ runs[k] >= 1 /\ rows[k].run <= runs[k]
      /\ Idle.pc = "idle" /\ Idle.todo = {} /\ Idle \in Calls
  BY AgreementFacts, IdleType DEF Orders, RunsInOrder, QueueTypes, CallOK, Calls
<1>q. ASSUME Quiet(a), \A b \in Agents : b # a => rpc'[b] = rpc[b], Tokens' = Tokens,
             runs' = runs, waiter' = waiter,
             \A k \in Jobs : inflight'[k] = inflight[k] \/ inflight'[k] = NoEntry,
             \A k \in Jobs : rows'[k] = rows[k] \/ (rows'[k].phase \in AtEnd /\ rows'[k].run <= runs[k])
      PROVE  Orders'
  <2>1. \A b \in Agents : Quiet(b)
    BY <1>q DEF Quiet
  <2>2. \A k \in Jobs : ~Wanted(k)' => ~Wanted(k)
    BY <1>q DEF Wanted
  <2> QED BY <1>q, <2>1, <2>2, QuietStep
<1>1. CASE register_agent(a) \/ Ages(a)
  <2>1. /\ pending' = pending /\ inflight' = inflight /\ rpc' = rpc /\ runs' = runs
        /\ waiter' = waiter /\ rows' = rows
    BY <1>1 DEF register_agent, Ages
  <2>2. Tokens' = Tokens
    BY <2>1, SameHands, SamePlaces
  <2> QED BY <2>1, <2>2, <1>q DEF Quiet
<1>h. \A b \in Agents : SameHand(b)
  <2>1. CASE register_agent(a) \/ Ages(a)
    BY <2>1, SameHands DEF register_agent, Ages
  <2> QED BY <2>1, <1>f, OtherHands
<1>2. CASE poll_agent_job(a) \/ HeartbeatReclaims(a)
  <2>0. PICK polls : rpc' = [rpc EXCEPT ![a] = [Idle EXCEPT !.pc = "reclaim", !.todo = Candidates,
                                                            !.polls = polls]]
    BY <1>2 DEF poll_agent_job, HeartbeatReclaims, StartReclaim
  <2> DEFINE c == [Idle EXCEPT !.pc = "reclaim", !.todo = Candidates, !.polls = polls]
  <2>1. c.pc = "reclaim" /\ c.todo = Candidates
    BY DEF Idle
  <2>2. rpc' = [rpc EXCEPT ![a] = c]
    BY <2>0
  <2> HIDE DEF c
  <2>3. rpc'[a] = c /\ \A b \in Agents : b # a => rpc'[b] = rpc[b]
    BY <2>2, <1>f
  <2>4. /\ pending' = pending /\ inflight' = inflight /\ runs' = runs
        /\ waiter' = waiter /\ rows' = rows /\ rpc[a].pc # "requeued"
    BY <1>2, <1>f DEF poll_agent_job, HeartbeatReclaims, StartReclaim
  <2>5. Tokens' = Tokens
    BY <2>4, <1>h, SamePlaces
  <2> QED BY <2>1, <2>3, <2>4, <2>5, ReadStep
<1>3. CASE agent_heartbeat(a) \/ ReclaimDone(a) \/ CompleteCheck(a)
  <2>1. PICK c : rpc' = [rpc EXCEPT ![a] = c] /\ c.todo = {} /\ c.pc \notin {"requeued", "granted"}
    <3>1. CASE agent_heartbeat(a)
      <4> DEFINE c == [Idle EXCEPT !.pc = "heartbeat"]
      <4>1. c.todo = {} /\ c.pc = "heartbeat"
        BY DEF Idle
      <4>2. rpc' = [rpc EXCEPT ![a] = c]
        BY <3>1 DEF agent_heartbeat
      <4> HIDE DEF c
      <4> QED BY <4>1, <4>2
    <3>2. CASE ReclaimDone(a)
      BY <3>2, <1>f DEF ReclaimDone
    <3>3. CASE CompleteCheck(a)
      <4>1. PICK l \in held[a], p \in {"unknown", "checked", "refused"} :
                rpc' = [rpc EXCEPT ![a] = [Idle EXCEPT !.job = l.job, !.run = l.run, !.pc = p]]
        BY <3>3 DEF CompleteCheck
      <4> DEFINE c == [Idle EXCEPT !.job = l.job, !.run = l.run, !.pc = p]
      <4>2. c.pc = p /\ c.todo = {}
        BY DEF Idle
      <4>3. rpc' = [rpc EXCEPT ![a] = c]
        BY <4>1
      <4> HIDE DEF c
      <4> QED BY <4>2, <4>3
    <3> QED BY <1>3, <3>1, <3>2, <3>3
  <2>2. /\ pending' = pending /\ inflight' = inflight /\ runs' = runs
        /\ waiter' = waiter /\ rows' = rows /\ rpc[a].pc # "requeued"
    BY <1>3, <1>f DEF agent_heartbeat, ReclaimDone, CompleteCheck
  <2>3. Tokens' = Tokens
    BY <2>2, <1>h, SamePlaces
  <2>4. Quiet(a) /\ \A b \in Agents : b # a => rpc'[b] = rpc[b]
    BY <2>1, <2>2, <1>f DEF Quiet
  <2> QED BY <2>2, <2>3, <2>4, <1>q
<1>4. CASE ReclaimCas(a)
  <2>1. PICK c \in rpc[a].todo :
            \/ Requeues(c) /\ Requeue(a, c)
            \/ rpc' = [rpc EXCEPT ![a] = [rpc[a] EXCEPT !.todo = @ \ {c}]] /\ UNCHANGED <<runs, rows>>
    BY <1>4 DEF ReclaimCas
  <2>2. /\ pending' = pending /\ inflight' = inflight /\ waiter' = waiter /\ rpc[a].pc = "reclaim"
    BY <1>4 DEF ReclaimCas
  <2>3. CASE Requeues(c) /\ Requeue(a, c)
    BY <2>2, <2>3, RequeueStep
  <2>4. CASE rpc' = [rpc EXCEPT ![a] = [rpc[a] EXCEPT !.todo = @ \ {c}]] /\ UNCHANGED <<runs, rows>>
    <3> DEFINE d == [rpc[a] EXCEPT !.todo = @ \ {c}]
    <3>1. d.pc = "reclaim" /\ d.todo = rpc[a].todo \ {c}
      BY <2>2, <1>f DEF Calls
    <3>2. rpc' = [rpc EXCEPT ![a] = d]
      BY <2>4
    <3> HIDE DEF d
    <3>3. Quiet(a) /\ \A b \in Agents : b # a => rpc'[b] = rpc[b]
      BY <2>2, <3>1, <3>2, <1>f DEF Quiet
    <3>4. Tokens' = Tokens
      BY <2>2, <1>h, SamePlaces
    <3> QED BY <2>2, <2>4, <3>3, <3>4, <1>q
  <2> QED BY <2>1, <2>3, <2>4
<1>5. CASE ReclaimReplace(a)
  <2> DEFINE c == [Idle EXCEPT !.pc = "reclaim", !.todo = rpc[a].todo, !.polls = rpc[a].polls]
  <2>1. c.pc = "reclaim" /\ c.todo = rpc[a].todo
    BY DEF Idle
  <2>2. rpc' = [rpc EXCEPT ![a] = c] /\ rpc[a].pc = "requeued"
    BY <1>5 DEF ReclaimReplace
  <2> HIDE DEF c
  <2>3. rpc'[a] = c /\ \A b \in Agents : b # a => rpc'[b] = rpc[b]
    BY <2>2, <1>f
  <2>4. waiter' = waiter /\ rows' = rows /\ runs' = runs
    BY <1>5 DEF ReclaimReplace
  <2>5. CASE StillHeld(a)
    <3>0. rpc[a].job \in Jobs /\ rpc[a].new \in Nat
      BY <2>2, <1>f DEF Working, Calls
    <3>j. PICK j \in Jobs, n \in Nat : j = rpc[a].job /\ n = rpc[a].new
      BY <3>0
    <3>1. /\ inflight' = [inflight EXCEPT ![j] = [agent |-> NoAgent, run |-> n]]
          /\ pending' = Append(pending, Lease(j, n))
          /\ inflight[j] = [agent |-> rpc[a].holder, run |-> rpc[a].run]
      BY <1>5, <2>5, <3>j DEF ReclaimReplace, StillHeld
    <3>2. Held(j)
      BY <2>2, <3>1, <1>f, EntryType DEF Held, QueueTypes, CallOK
    <3>3. Lease(j, n) \in Leases /\ Lease(j, n).job = j
      BY EntryType
    <3>4. \A t \in Tokens : t.job # Lease(j, n).job
      BY <3>2, <3>3, <1>f DEF TokensFit
    <3>5. \A t \in Tokens' : t \in Tokens \/ t = Lease(j, n)
      BY <1>f, <1>h, <3>1, <3>3, <3>4, NewPlace
    <3>6. rpc[a].run < n /\ n <= runs[j] /\ rpc[a].run \in Nat
      BY <2>2, <3>j, <1>f DEF Orders, RunsInOrder, Calls
    <3>7. ASSUME NEW b \in Agents, NEW x \in Claims(b), x.job = j PROVE x.run < n
      <4>1. x.run < inflight[j].run \/ x.run = inflight[j].run
        BY <3>2, <3>7, <1>f DEF Orders, ClaimsAreOld
      <4>2. inflight[j].run = rpc[a].run /\ x.run \in Nat
        BY <3>1, AgreementFacts
      <4> QED BY <4>1, <4>2, <3>6
    <3>8. \A k \in Jobs : ~Wanted(k)' => ~Wanted(k)
      BY <2>4 DEF Wanted
    <3>9. \A b \in Agents : \/ rpc'[b] = rpc[b]
                            \/ /\ rpc[b].pc = "requeued" /\ rpc[b].job = j
                               /\ rpc'[b].pc = "reclaim" /\ rpc'[b].todo = rpc[b].todo
      BY <2>1, <2>2, <2>3, <3>j
    <3> QED BY <2>4, <3>1, <3>5, <3>6, <3>7, <3>8, <3>9, OfferStep
  <2>6. CASE ~StillHeld(a)
    <3>1. pending' = pending /\ inflight' = inflight
      BY <1>5, <2>6 DEF ReclaimReplace
    <3>2. Tokens' = Tokens
      BY <3>1, <1>h, SamePlaces
    <3> QED BY <2>1, <2>2, <2>3, <2>4, <2>6, <3>1, <3>2, LateStep
  <2> QED BY <2>5, <2>6
<1>6. CASE CompleteUnknown(a) \/ CompleteCommit(a) \/ CompleteDeliver(a)
  <2>0. rpc[a].pc \in Working /\ rpc[a].pc # "requeued" /\ waiter' = waiter /\ runs' = runs /\ pending' = pending
    BY <1>6 DEF CompleteUnknown, CompleteCommit, CompleteDeliver, Working
  <2>1. PICK p \in {"refused", "error", "recorded"} : rpc' = [rpc EXCEPT ![a].pc = p]
    <3>1. CASE CompleteCommit(a)
      BY <3>1, <1>f, CommitAnswer
    <3> QED BY <1>6, <3>1 DEF CompleteUnknown, CompleteDeliver
  <2>2. /\ rpc'[a].pc = p /\ rpc'[a].todo = rpc[a].todo
        /\ \A b \in Agents : b # a => rpc'[b] = rpc[b]
    BY <2>0, <2>1, <1>f, PcStep DEF Working
  <2>3. Quiet(a)
    BY <2>0, <2>2 DEF Quiet
  <2>4. Tokens' = Tokens
    BY <2>0, <1>h, SamePlaces
  <2>5. \A k \in Jobs : inflight'[k] = inflight[k] \/ inflight'[k] = NoEntry
    BY <1>6, <1>f DEF CompleteUnknown, CompleteCommit, CompleteDeliver
  <2>6. ASSUME NEW k \in Jobs
        PROVE  rows'[k] = rows[k] \/ (rows'[k].phase \in AtEnd /\ rows'[k].run <= runs[k])
    <3>1. CASE CompleteCommit(a)
      <4> DEFINE j == rpc[a].job  row == Completed(a, rpc[a].run)
      <4>1. rows' = rows \/ (rows' = [rows EXCEPT ![j] = row] /\ LeasedTo(j, a, rpc[a].run))
        BY <3>1, <1>f, CommitAnswer
      <4>2. row.phase = "completed" /\ row.run = rpc[a].run
        BY DEF Completed
      <4>3. LeasedTo(j, a, rpc[a].run) => rows[j].run = rpc[a].run
        BY DEF LeasedTo
      <4>4. j \in Jobs
        BY <2>0, <1>f
      <4> HIDE DEF j, row
      <4>5. rows'[k] = rows[k] \/ (k = j /\ rows'[k] = row /\ rows[j].run = rpc[a].run)
        BY <4>1, <4>3, <4>4, <1>f
      <4> QED BY <4>2, <4>5, <1>f DEF AtEnd
    <3>2. CASE CompleteUnknown(a) \/ CompleteDeliver(a)
      BY <3>2 DEF CompleteUnknown, CompleteDeliver
    <3> QED BY <1>6, <3>1, <3>2
  <2> QED BY <2>0, <2>2, <2>3, <2>4, <2>5, <2>6, <1>q
<1>7. CASE CompleteAnswer(a) \/ CompleteFails(a)
  <2>1. /\ rpc' = [rpc EXCEPT ![a] = Idle] /\ pending' = pending /\ inflight' = inflight /\ runs' = runs
        /\ waiter' = waiter /\ rows' = rows /\ rpc[a].pc # "requeued"
    BY <1>7 DEF CompleteAnswer, CompleteFails
  <2>2. Quiet(a) /\ \A b \in Agents : b # a => rpc'[b] = rpc[b]
    BY <2>1, <1>f DEF Quiet
  <2>3. Tokens' = Tokens
    BY <2>1, <1>h, SamePlaces
  <2> QED BY <2>1, <2>2, <2>3, <1>q
<1> QED BY <1>1, <1>2, <1>3, <1>4, <1>5, <1>6, <1>7 DEF Reclaim, Complete

LEMMA PollOrders == ASSUME Agreement, NEW a \in Agents, Poll(a) PROVE Orders'
<1> USE DEF queueVars, registryVars, storeVars
<1>f. /\ QueueTypes /\ OnePlace /\ TokensFit /\ Orders
      /\ inflight \in [Jobs -> Entries]
      /\ rows \in [Jobs -> [phase : Phases, agent : Holders, run : Nat]]
      /\ rpc \in [Agents -> Calls] /\ rpc[a] \in Calls
      /\ rpc[a].pc \in Working => rpc[a].job \in Jobs
      /\ Idle.pc = "idle" /\ Idle.todo = {} /\ Idle \in Calls
  BY AgreementFacts, IdleType DEF QueueTypes, CallOK
<1>q. ASSUME Quiet(a), \A b \in Agents : b # a => rpc'[b] = rpc[b], \A t \in Tokens' : t \in Tokens,
             runs' = runs, waiter' = waiter, inflight' = inflight, rows' = rows
      PROVE  Orders'
  <2>1. \A b \in Agents : Quiet(b)
    BY <1>q DEF Quiet
  <2>2. \A k \in Jobs : ~Wanted(k)' => ~Wanted(k)
    BY <1>q DEF Wanted
  <2> QED BY <1>q, <2>1, <2>2, QuietStep
<1>1. CASE PollPop(a)
  <2>0. /\ ~Hand(a) /\ rpc[a].pc # "requeued" /\ inflight' = inflight /\ runs' = runs
        /\ waiter' = waiter /\ rows' = rows
    BY <1>1 DEF PollPop, Hand
  <2>1. CASE can_agent_run(a) /\ pending # <<>>
    <3> DEFINE c == [Idle EXCEPT !.pc = "popped", !.job = Head(pending).job, !.run = Head(pending).run]
    <3>1. rpc' = [rpc EXCEPT ![a] = c] /\ pending' = Tail(pending)
      BY <1>1, <2>1 DEF PollPop
    <3>2. c.pc = "popped" /\ c.job = Head(pending).job /\ c.run = Head(pending).run /\ c.todo = {}
      BY DEF Idle
    <3> HIDE DEF c
    <3>3. rpc'[a] = c /\ \A b \in Agents : b # a => rpc'[b] = rpc[b]
      BY <3>1, <1>f
    <3>4. Hand(a)' /\ rpc'[a].job = Head(pending).job /\ rpc'[a].run = Head(pending).run
      BY <3>2, <3>3 DEF Hand
    <3>5. Tokens' = Tokens
      BY <1>f, <2>0, <2>1, <3>1, <3>3, <3>4, PopPlace
    <3>6. Quiet(a)
      BY <2>0, <3>2, <3>3 DEF Quiet
    <3> QED BY <2>0, <3>3, <3>5, <3>6, <1>q
  <2>2. CASE ~(can_agent_run(a) /\ pending # <<>>)
    <3>1. rpc' = [rpc EXCEPT ![a] = Idle] /\ pending' = pending
      BY <1>1, <2>2 DEF PollPop
    <3>2. (\A b \in Agents : SameHand(b)) /\ Quiet(a) /\ \A b \in Agents : b # a => rpc'[b] = rpc[b]
      BY <2>0, <3>1, <1>f DEF SameHand, Hand, Quiet
    <3>3. Tokens' = Tokens
      BY <3>1, <3>2, SamePlaces
    <3> QED BY <2>0, <3>2, <3>3, <1>q
  <2> QED BY <2>1, <2>2
<1>2. CASE PollLease(a)
  <2>0. /\ Hand(a) /\ rpc[a].pc = "popped" /\ rpc[a].pc \in Working /\ inflight' = inflight
        /\ waiter' = waiter /\ runs' = runs /\ rpc[a].job \in Jobs
    BY <1>2, <1>f DEF PollLease, Hand, Working
  <2>j. PICK j \in Jobs : j = rpc[a].job
    BY <2>0
  <2>1. CASE /\ rpc' = [rpc EXCEPT ![a].pc = "granted"] /\ pending' = pending
             /\ HasStore => rows[j].phase = "pending" /\ rows[j].run = rpc[a].run
             /\ rows' = IF HasStore THEN [rows EXCEPT ![j].phase = "leased", ![j].agent = a] ELSE rows
    <3>1. /\ rpc'[a].pc = "granted" /\ rpc'[a].job = rpc[a].job /\ rpc'[a].run = rpc[a].run
          /\ rpc'[a].todo = rpc[a].todo /\ \A b \in Agents : b # a => rpc'[b] = rpc[b]
      BY <2>0, <2>1, <1>f, PcStep DEF Working
    <3>2. \A b \in Agents : SameHand(b)
      BY <2>0, <3>1 DEF SameHand, Hand
    <3>3. Tokens' = Tokens
      BY <2>1, <3>2, SamePlaces
    <3> DEFINE row == [phase |-> "leased", agent |-> a, run |-> rows[j].run]
    <3>4. [rows[j] EXCEPT !.phase = "leased", !.agent = a] = row
      BY <1>f, RowSteps
    <3>5. rows' = IF HasStore THEN [rows EXCEPT ![j] = row] ELSE rows
      BY <2>1, <3>4
    <3>6. HasStore => row = [phase |-> "leased", agent |-> a, run |-> rpc[a].run]
      BY <2>1
    <3> HIDE DEF row
    <3>7. /\ \A k \in Jobs : k # j \/ ~HasStore => rows'[k] = rows[k]
          /\ HasStore => rows'[j] = row
      BY <3>5, <1>f
    <3>8. HasStore => /\ rows[j].phase = "pending" /\ rows[j].run = rpc[a].run
                      /\ rows'[j] = [phase |-> "leased", agent |-> a, run |-> rpc[a].run]
      BY <2>1, <3>6, <3>7
    <3> QED BY <2>0, <2>j, <3>1, <3>3, <3>7, <3>8, GrantStep
  <2>2. CASE /\ rpc' = [rpc EXCEPT ![a] = Idle] /\ rows' = rows
             /\ pending' = <<Lease(rpc[a].job, rpc[a].run)>> \o pending
    <3>1. ~Hand(a)' /\ Quiet(a) /\ \A b \in Agents : b # a => rpc'[b] = rpc[b]
      BY <2>0, <2>2, <1>f DEF Hand, Quiet
    <3>2. Tokens' = Tokens
      BY <1>f, <2>0, <2>2, <3>1, PushPlace
    <3> QED BY <2>0, <2>2, <3>1, <3>2, <1>q
  <2> QED BY <1>2, <2>j, <2>1, <2>2 DEF PollLease
<1>3. CASE PollHandOut(a)
  <2>0. /\ Hand(a) /\ rpc[a].pc = "granted" /\ rpc' = [rpc EXCEPT ![a] = Idle] /\ pending' = pending
        /\ waiter' = waiter /\ runs' = runs /\ rows' = rows /\ rpc[a].job \in Jobs
    BY <1>3, <1>f DEF PollHandOut, Hand, Working
  <2>j. PICK j \in Jobs : j = rpc[a].job
    BY <2>0
  <2>1. rpc'[a] = Idle /\ ~Hand(a)' /\ Quiet(a) /\ \A b \in Agents : b # a => rpc'[b] = rpc[b]
    BY <2>0, <1>f DEF Hand, Quiet
  <2>2. \A t \in Tokens' : t \in Tokens /\ t.job # j
    BY <1>f, <2>0, <2>1, <2>j, DropPlace
  <2>3. CASE inflight[j] = NoEntry
    BY <1>3, <2>0, <2>1, <2>2, <2>3, <2>j, <1>q DEF PollHandOut
  <2>4. CASE inflight[j] # NoEntry
    <3> DEFINE e == [inflight[j] EXCEPT !.agent = a]  d == [agent |-> a, run |-> inflight[j].run]
    <3>1. inflight' = [inflight EXCEPT ![j] = e]
      BY <1>3, <2>4, <2>j DEF PollHandOut
    <3>2. e = d
      <4>1. inflight[j] \in Entries
        BY <1>f
      <4> QED BY <4>1 DEF Entries
    <3> HIDE DEF e
    <3>3. inflight' = [inflight EXCEPT ![j] = d]
      BY <3>1, <3>2
    <3> QED BY <2>0, <2>1, <2>2, <2>4, <2>j, <3>3, HandOutStep
  <2> QED BY <2>3, <2>4
<1> QED BY <1>1, <1>2, <1>3 DEF Poll

\* Memory and store agree on who holds a job, whatever the order in which
\* polls, completions, reclaims of stale holders, abandoned jobs and crashes
\* are interleaved (lease_agent_job, requeue_agent_job, restore_persisted), as
\* long as no caller disconnects in the middle of a call.
THEOREM HoldersAgree == ASSUME ~Disconnects PROVE Spec => []LeaseAgrees
<1>1. Init => Agreement
  <2> SUFFICES ASSUME Init PROVE Agreement
    OBVIOUS
  <2>1. Offers
    BY OffersInit
  <2>2. /\ \A j \in Jobs : runs[j] = 1 /\ inflight[j] = NoEntry /\ rows[j] = NoRow
        /\ \A a \in Agents : rpc[a].pc = "idle" /\ rpc[a].todo = {} /\ ~Hand(a)
        /\ Len(pending) = 0
    BY IdleType DEF Init, Hand
  <2>3. Tokens = {} /\ \A a \in Agents : Claims(a) = {}
    BY <2>2 DEF Tokens, Claims
  <2>4. RunsInOrder
    BY <2>2, <2>3 DEF RunsInOrder, NoEntry, NoRow
  <2>5. ClaimsAreOld /\ GrantsFit
    BY <2>2, <2>3 DEF ClaimsAreOld, GrantsFit
  <2>6. LeaseAgrees
    BY <2>2, EntryType DEF LeaseAgrees
  <2> QED BY <2>1, <2>4, <2>5, <2>6 DEF Agreement
<1>2. Agreement /\ [Next]_jobVars => Agreement'
  <2> SUFFICES ASSUME Agreement, [Next]_jobVars PROVE Agreement'
    OBVIOUS
  <2>1. Offers'
    BY OffersStep DEF Agreement
  <2>2. Orders'
    <3>1. CASE UNCHANGED jobVars
      <4>1. /\ pending' = pending /\ inflight' = inflight /\ waiter' = waiter /\ rpc' = rpc
            /\ rows' = rows /\ runs' = runs
        BY <3>1 DEF jobVars, queueVars, storeVars
      <4>2. Tokens' = Tokens
        BY <4>1, SameHands, SamePlaces
      <4>3. (\A b \in Agents : Quiet(b)) /\ \A j \in Jobs : ~Wanted(j)' => ~Wanted(j)
        BY <4>1 DEF Quiet, Wanted
      <4> QED BY <4>1, <4>2, <4>3, QuietStep
    <3> QED BY <3>1, EpisodeOrders, AgentOrders, PollOrders, RecoverStep DEF Next, Disconnect
  <2> QED BY <2>1, <2>2 DEF Agreement, Orders
<1>3. Agreement => LeaseAgrees
  BY DEF Agreement
<1> QED BY <1>1, <1>2, <1>3, PTL DEF Spec

=============================================================================
