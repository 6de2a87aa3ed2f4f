--------------------------- MODULE AgentEpisodeProofs ---------------------------
(***************************************************************************)
(* Theorems about AgentEpisode, for every set of episodes, submissions,    *)
(* permits, reservations, sessions and crashes, with a store and without.  *)
(*                                                                         *)
(* Two inductive invariants.  Jobs says who executes an episode and what   *)
(* its row and the row of its job say meanwhile: with a store one          *)
(* submission at most is at work on an episode, the one the coordinator    *)
(* has an entry for.  Recorded says what the row of a session tells of the *)
(* session.                                                                *)
(***************************************************************************)
EXTENDS AgentEpisode, TLAPS

-----------------------------------------------------------------------------
(* The inductive invariants.                                               *)

Places == {"new", "over", "returned", "acquire", "creating", "created", "recorded", "waiting",
           "abandoned", "closing", "destroyed", "kept", "leaving",
           "recovered", "recovered_ends", "recovered_close"}
Owners == [AgentEpisodes -> Tasks \cup {NoTask}]

\* The coordinator keeps a second submission of an episode out until the
\* first is over; without a store it is up to the client.
Occupies(t) == pc[t] \notin {"new", "over"}
OneExecutes ==
    HasStore => \A t \in Tasks : Occupies(t) => owner[EpisodeOf[t]] = t /\ up = "up"

Executing ==
    /\ pc \in [Tasks -> Places] /\ owner \in Owners /\ handles \in Owners
    /\ up \in {"up", "down", "refused"}
    /\ OneExecutes
    /\ ~HasStore => up = "up"

SubmittedOnce == \A t, u \in Tasks : EpisodeOf[t] = EpisodeOf[u] => t = u

\* The row of the job follows the row of its episode, and a task that has not
\* enqueued the job yet finds none, or one that was given up.
JobTypes ==
    /\ storeUp \in BOOLEAN
    /\ job \in [AgentEpisodes -> {"none", "pending", "taken", "done", "closed"}]
    /\ ep \in [AgentEpisodes -> {"none", "queued", "dispatched", "terminal"}]
    /\ rows \in [AgentEpisodes -> {"none", "pending", "leased", "completed", "timed_out"}]
Unfinished(e) == OpenJob(e) /\ ep[e] = "dispatched"
RowFollows(e) ==
    /\ ep[e] = "dispatched" => rows[e] \in {"pending", "leased", "timed_out"}
    /\ ep[e] \in {"none", "queued"} => rows[e] = "none"
    /\ job[e] = "done" => ~OpenJob(e)
    /\ HasStore /\ up = "up" /\ storeUp /\ Unfinished(e) => owner[e] # NoTask
NotEnqueued(t) == pc[t] \in {"acquire", "creating", "created", "recorded"}
TaskFollows(t) ==
    /\ HasStore /\ NotEnqueued(t) => /\ ep[EpisodeOf[t]] \in {"queued", "dispatched"}
                                     /\ rows[EpisodeOf[t]] \in {"none", "timed_out"}
    /\ HasStore /\ storeUp /\ pc[t] = "recovered_close" => ~Unfinished(EpisodeOf[t])
Jobs ==
    /\ Executing /\ JobTypes
    /\ \A e \in AgentEpisodes : RowFollows(e)
    /\ \A t \in Tasks : TaskFollows(t)

\* A session is of its task's episode, and one that is recorded as destroyed
\* is.
SessionTypes ==
    /\ sid \in [Tasks -> Sessions \cup {NoSession}]
    /\ grow \in [Sessions -> {"none", "active", "cleanup_pending", "destroyed"}]
    /\ live \in SUBSET Sessions /\ todo \in SUBSET Sessions
    /\ made \in [AgentEpisodes -> Nat]
Made(s) == s[2] <= made[Of(s)]
SessionsFollow ==
    /\ \A s \in Sessions : /\ ~Made(s) => grow[s] = "none" /\ s \notin live
                           /\ grow[s] = "active" => ep[Of(s)] # "none"
                           /\ grow[s] = "destroyed" => s \notin live
    /\ \A t \in Tasks : /\ sid[t] # NoSession => Of(sid[t]) = EpisodeOf[t] /\ Made(sid[t])
                        /\ pc[t] = "destroyed" => sid[t] \notin live
Recorded == SessionTypes /\ SessionsFollow

-----------------------------------------------------------------------------
(* Steps of one task.                                                      *)

LEMMA PlaceChanges ==
    ASSUME pc \in [Tasks -> Places], NEW t \in Tasks, NEW p \in Places, Goto(t, p)
    PROVE  /\ pc' \in [Tasks -> Places] /\ pc'[t] = p
           /\ \A u \in Tasks : u # t => pc'[u] = pc[u]
  BY DEF Goto

\* With a store, no other submission of the episode executes.
LEMMA AloneWithOwner ==
    ASSUME Executing, HasStore, NEW t \in Tasks, Occupies(t)
    PROVE  /\ owner[EpisodeOf[t]] = t
           /\ \A u \in Tasks : u # t /\ EpisodeOf[u] = EpisodeOf[t] => ~Occupies(u)
  BY DEF Executing, OneExecutes

\* What a step of a task may do: it changes what is of its own episode.
LEMMA TaskStep ==
    ASSUME AgentConstants, Jobs, NEW t \in Tasks, NEW p \in Places, Goto(t, p), up = "up", up' = "up",
           owner' \in Owners, handles' \in Owners, JobTypes', storeUp' = storeUp \/ storeUp' = FALSE,
           \A x \in AgentEpisodes : x # EpisodeOf[t] =>
               owner'[x] = owner[x] /\ ep'[x] = ep[x] /\ rows'[x] = rows[x] /\ job'[x] = job[x],
           HasStore => \A u \in Tasks : u # t /\ EpisodeOf[u] = EpisodeOf[t] => ~Occupies(u),
           HasStore /\ p \notin {"new", "over"} => owner'[EpisodeOf[t]] = t,
           RowFollows(EpisodeOf[t])', TaskFollows(t)'
    PROVE  Jobs'
<1>1. /\ pc' \in [Tasks -> Places] /\ pc'[t] = p
      /\ \A u \in Tasks : u # t => pc'[u] = pc[u]
  BY PlaceChanges DEF Jobs, Executing
<1>2. \A u \in Tasks : EpisodeOf[u] \in AgentEpisodes
  BY DEF AgentConstants
<1>3. OneExecutes'
  <2> SUFFICES ASSUME HasStore, NEW u \in Tasks, Occupies(u)' PROVE owner'[EpisodeOf[u]] = u /\ up' = "up"
    BY DEF OneExecutes
  <2>1. CASE u = t
    BY <1>1, <2>1 DEF Occupies
  <2>2. CASE u # t
    <3>1. Occupies(u) /\ EpisodeOf[u] # EpisodeOf[t]
      BY <1>1, <2>2 DEF Occupies
    <3> QED
      BY <1>2, <3>1 DEF Jobs, Executing, OneExecutes
  <2> QED
    BY <2>1, <2>2
<1>4. Executing'
  BY <1>1, <1>3 DEF Jobs, Executing
<1>5. ASSUME NEW x \in AgentEpisodes PROVE RowFollows(x)'
  BY <1>5 DEF Jobs, RowFollows, Unfinished, OpenJob
<1>6. ASSUME NEW u \in Tasks, u # t PROVE TaskFollows(u)'
  <2>1. TaskFollows(u) /\ pc'[u] = pc[u]
    BY <1>1, <1>6 DEF Jobs
  <2>2. CASE EpisodeOf[u] # EpisodeOf[t]
    BY <1>2, <2>1, <2>2 DEF TaskFollows, NotEnqueued, Unfinished, OpenJob
  <2>3. CASE EpisodeOf[u] = EpisodeOf[t]
    BY <1>6, <2>1, <2>3 DEF TaskFollows, NotEnqueued, Occupies
  <2> QED
    BY <2>2, <2>3
<1> QED
  BY <1>4, <1>5, <1>6 DEF Jobs

\* Most steps change only the place of a task.
LEMMA TaskMoves ==
    ASSUME AgentConstants, Jobs, NEW t \in Tasks, NEW p \in Places \ {"new", "over"}, Goto(t, p), up = "up", Occupies(t),
           UNCHANGED <<up, owner, storeUp, ep, rows, job>>, handles' \in Owners,
           p \in {"acquire", "creating", "created", "recorded"} => NotEnqueued(t),
           p = "recovered_close" => ~Unfinished(EpisodeOf[t])
    PROVE  Jobs'
<1>1. EpisodeOf[t] \in AgentEpisodes /\ pc'[t] = p
  BY PlaceChanges DEF AgentConstants, Jobs, Executing
<1>2. RowFollows(EpisodeOf[t]) /\ TaskFollows(t)
  BY <1>1 DEF Jobs
<1>3. RowFollows(EpisodeOf[t])'
  BY <1>2 DEF RowFollows, Unfinished, OpenJob
<1>4. TaskFollows(t)'
  BY <1>1, <1>2 DEF TaskFollows, NotEnqueued, Unfinished, OpenJob
<1>5. owner' \in Owners /\ JobTypes'
  BY DEF Jobs, Executing, JobTypes
<1>6. HasStore => /\ owner'[EpisodeOf[t]] = t
                  /\ \A u \in Tasks : u # t /\ EpisodeOf[u] = EpisodeOf[t] => ~Occupies(u)
  BY AloneWithOwner DEF Jobs
<1> QED
  BY <1>3, <1>4, <1>5, <1>6, TaskStep

\* What the steps of the agent and of the client change.
LEMMA EpisodeStep ==
    ASSUME AgentConstants, Jobs, NEW e \in AgentEpisodes, UNCHANGED <<pc, owner, handles, up, storeUp>>, JobTypes',
           \A x \in AgentEpisodes : x # e => ep'[x] = ep[x] /\ rows'[x] = rows[x] /\ job'[x] = job[x],
           RowFollows(e)',
           \A t \in Tasks : EpisodeOf[t] = e /\ TaskFollows(t) => TaskFollows(t)'
    PROVE  Jobs'
<1>1. Executing'
  BY DEF Jobs, Executing, OneExecutes, Occupies
<1>2. ASSUME NEW x \in AgentEpisodes, x # e PROVE RowFollows(x)'
  BY <1>2 DEF Jobs, RowFollows, Unfinished, OpenJob
<1>3. ASSUME NEW u \in Tasks PROVE TaskFollows(u)'
  <2>1. TaskFollows(u) /\ EpisodeOf[u] \in AgentEpisodes
    BY DEF Jobs, AgentConstants
  <2>2. CASE EpisodeOf[u] # e
    BY <2>1, <2>2 DEF TaskFollows, NotEnqueued, Unfinished, OpenJob
  <2> QED
    BY <2>1, <2>2
<1> QED
  BY <1>1, <1>2, <1>3 DEF Jobs

LEMMA JobsRest ==
    ASSUME Jobs, UNCHANGED <<pc, owner, handles, up, ep, rows, job>>, storeUp' = storeUp \/ storeUp' = FALSE
    PROVE  Jobs'
<1>1. Executing' /\ JobTypes'
  BY DEF Jobs, Executing, OneExecutes, Occupies, JobTypes
<1>2. ASSUME NEW x \in AgentEpisodes PROVE RowFollows(x)'
  BY DEF Jobs, RowFollows, Unfinished, OpenJob
<1>3. ASSUME NEW u \in Tasks PROVE TaskFollows(u)'
  <2>1. TaskFollows(u)
    BY DEF Jobs
  <2> QED
    BY <2>1 DEF TaskFollows, NotEnqueued, Unfinished, OpenJob
<1> QED
  BY <1>1, <1>2, <1>3 DEF Jobs

-----------------------------------------------------------------------------
(* Jobs is inductive.                                                      *)

LEMMA JobsInit == ASSUME AgentConstants PROVE AgentInit => Jobs
<1> SUFFICES ASSUME AgentInit PROVE Jobs
  OBVIOUS
<1>1. Executing
  BY DEF AgentInit, Executing, OneExecutes, Occupies, Places, Owners
<1>2. JobTypes
  BY DEF AgentInit, JobTypes
<1>3. \A e \in AgentEpisodes : RowFollows(e)
  BY DEF AgentInit, RowFollows, OpenJob, Unfinished
<1>4. \A t \in Tasks : TaskFollows(t)
  BY DEF AgentInit, TaskFollows, NotEnqueued
<1> QED
  BY <1>1, <1>2, <1>3, <1>4 DEF Jobs

\* A submission that does not execute.
LEMMA TaskIgnored ==
    ASSUME Jobs, NEW t \in Tasks, pc[t] = "new", Goto(t, "over"),
           UNCHANGED <<owner, handles, up, storeUp, ep, rows, job>>
    PROVE  Jobs'
<1>1. /\ pc' \in [Tasks -> Places] /\ pc'[t] = "over"
      /\ \A u \in Tasks : u # t => pc'[u] = pc[u]
  BY PlaceChanges DEF Jobs, Executing, Places
<1>2. Executing' /\ JobTypes'
  BY <1>1 DEF Jobs, Executing, OneExecutes, Occupies, JobTypes
<1>3. ASSUME NEW x \in AgentEpisodes PROVE RowFollows(x)'
  BY DEF Jobs, RowFollows, Unfinished, OpenJob
<1>4. ASSUME NEW u \in Tasks PROVE TaskFollows(u)'
  <2>1. TaskFollows(u)
    BY DEF Jobs
  <2> QED
    BY <1>1, <2>1 DEF TaskFollows, NotEnqueued, Unfinished, OpenJob
<1> QED
  BY <1>2, <1>3, <1>4 DEF Jobs

\* The place a submission begins at, and the handle it sets.
LEMMA BeginsAt ==
    ASSUME AgentConstants, Jobs, NEW t \in Tasks, Begins(t)
    PROVE  /\ \E p \in {"returned", "acquire"} : Goto(t, p)
           /\ handles' \in Owners
  BY DEF Begins, Jobs, Executing, Owners, AgentConstants

LEMMA SubmitJobs ==
    ASSUME AgentConstants, Jobs, NEW t \in Tasks, submit_episode(t)
    PROVE  Jobs'
<1> DEFINE e == EpisodeOf[t]
<1>1. /\ e \in AgentEpisodes /\ up = "up" /\ up' = "up" /\ pc[t] = "new" /\ UNCHANGED <<job, rows>>
      /\ JobTypes /\ owner \in Owners /\ RowFollows(e)
  BY DEF submit_episode, AgentConstants, Jobs, Executing
<1>2. CASE ~HasStore
  <2>1. Begins(t) /\ UNCHANGED <<owner, ep, storeUp>>
    BY <1>2 DEF submit_episode
  <2>2. PICK p \in {"returned", "acquire"} : Goto(t, p)
    BY <2>1, BeginsAt
  <2>3. handles' \in Owners
    BY <2>1, BeginsAt
  <2>4. RowFollows(e)' /\ TaskFollows(t)'
    BY <1>1, <1>2, <2>1 DEF RowFollows, TaskFollows, OpenJob, Unfinished
  <2>5. JobTypes' /\ owner' \in Owners
    BY <1>1, <2>1 DEF JobTypes
  <2> QED
    BY <1>1, <1>2, <2>1, <2>2, <2>3, <2>4, <2>5, TaskStep DEF Places
<1>3. CASE HasStore /\ storeUp /\ ep[e] # "terminal" /\ Owns(e)
  <2>1. /\ ep' = [ep EXCEPT ![e] = IF ep[e] = "none" THEN "queued" ELSE ep[e]]
        /\ owner' = [owner EXCEPT ![e] = t] /\ Begins(t) /\ UNCHANGED storeUp /\ owner[e] = NoTask
    BY <1>3 DEF submit_episode, Owns
  <2>2. PICK p \in {"returned", "acquire"} : Goto(t, p)
    BY <2>1, BeginsAt
  <2>3. handles' \in Owners
    BY <2>1, BeginsAt
  <2>4. /\ owner' \in Owners /\ owner'[e] = t /\ t # NoTask
        /\ ep' \in [AgentEpisodes -> {"none", "queued", "dispatched", "terminal"}]
        /\ ep'[e] = IF ep[e] = "none" THEN "queued" ELSE ep[e]
        /\ \A x \in AgentEpisodes : x # e => owner'[x] = owner[x] /\ ep'[x] = ep[x]
    BY <1>1, <2>1 DEF AgentConstants, Owners, JobTypes
  <2>5. ~Unfinished(e)
    BY <1>1, <1>3, <2>1 DEF RowFollows
  <2>6. RowFollows(e)'
    BY <1>1, <2>1, <2>4 DEF RowFollows, OpenJob, Unfinished
  <2>7. ep'[e] \in {"queued", "dispatched"} /\ rows'[e] \in {"none", "timed_out"}
    BY <1>1, <1>3, <2>4, <2>5 DEF RowFollows, OpenJob, Unfinished, JobTypes
  <2>8. TaskFollows(t)'
    <3>1. pc'[t] = p
      BY <2>2, PlaceChanges DEF Places, Jobs, Executing
    <3> QED
      BY <2>2, <2>7, <3>1 DEF TaskFollows
  <2>9. JobTypes'
    BY <1>1, <2>1, <2>4 DEF JobTypes
  <2>10. \A u \in Tasks : u # t /\ EpisodeOf[u] = e => ~Occupies(u)
    BY <1>3, <2>1 DEF Jobs, Executing, OneExecutes, AgentConstants
  <2> QED
    BY <1>1, <2>1, <2>2, <2>3, <2>4, <2>6, <2>8, <2>9, <2>10, TaskStep DEF Places
<1>4. CASE HasStore /\ ~(storeUp /\ ep[e] # "terminal" /\ Owns(e))
  <2>1. Goto(t, "over") /\ UNCHANGED <<owner, ep, handles, storeUp>>
    BY <1>4 DEF submit_episode
  <2> QED
    BY <1>1, <2>1, TaskIgnored
<1> QED
  BY <1>2, <1>3, <1>4

LEMMA SubmitAsyncJobs ==
    ASSUME Jobs, NEW t \in Tasks, submit_episode_async(t)
    PROVE  Jobs'
  BY TaskIgnored DEF submit_episode_async, tableVars, storeVars

\* The steps that move a task and change nothing of its job.
LEMMA MovesJobs ==
    ASSUME AgentConstants, Jobs, NEW t \in Tasks,
           \/ Acquire(t) \/ AcquireEnds(t) \/ create_session_for_episode(t) \/ CreateEnds(t)
           \/ upsert_gateway_session(t) \/ WaitDone(t) \/ close_now(t) \/ CloseMarks(t) \/ Leave(t)
           \/ RecoveredDone(t)
    PROVE  Jobs'
<1>1. handles \in Owners /\ EpisodeOf[t] \in AgentEpisodes
  BY DEF Jobs, Executing, AgentConstants
<1>2. CASE Acquire(t) \/ AcquireEnds(t)
  <2>1. /\ up = "up" /\ Occupies(t) /\ UNCHANGED <<up, owner, handles, storeUp, ep, rows, job>>
        /\ \E p \in {"creating", "leaving"} : Goto(t, p)
        /\ NotEnqueued(t)
    BY <1>2 DEF Acquire, AcquireEnds, Occupies, NotEnqueued, storeVars, tableVars
  <2> QED
    BY <1>1, <2>1, TaskMoves DEF Places
<1>3. CASE create_session_for_episode(t) \/ CreateEnds(t)
  <2>1. /\ up = "up" /\ Occupies(t) /\ UNCHANGED <<up, owner, handles, storeUp, ep, rows, job>>
        /\ \E p \in {"created", "leaving"} : Goto(t, p)
        /\ NotEnqueued(t)
    BY <1>3 DEF create_session_for_episode, CreateEnds, Occupies, NotEnqueued, storeVars, tableVars
  <2> QED
    BY <1>1, <2>1, TaskMoves DEF Places
<1>4. CASE upsert_gateway_session(t)
  <2>1. /\ up = "up" /\ Occupies(t) /\ UNCHANGED <<up, owner, handles, storeUp, ep, rows, job>>
        /\ \E p \in {"recorded", "closing"} : Goto(t, p)
        /\ NotEnqueued(t)
    BY <1>4 DEF upsert_gateway_session, Occupies, NotEnqueued, storeVars, tableVars
  <2> QED
    BY <1>1, <2>1, TaskMoves DEF Places
<1>5. CASE WaitDone(t) \/ close_now(t) \/ CloseMarks(t)
  <2>1. /\ up = "up" /\ Occupies(t) /\ UNCHANGED <<up, owner, handles, storeUp, ep, rows, job>>
        /\ \E p \in {"closing", "leaving", "destroyed", "kept"} : Goto(t, p)
    BY <1>5 DEF WaitDone, AfterWait, close_now, CloseMarks, Occupies, storeVars, tableVars
  <2> QED
    BY <1>1, <2>1, TaskMoves DEF Places
<1>6. CASE Leave(t)
  <2>1. /\ up = "up" /\ Occupies(t) /\ UNCHANGED <<up, owner, storeUp, ep, rows, job>>
        /\ Goto(t, "returned")
    BY <1>6 DEF Leave, Occupies, storeVars
  <2>2. handles' \in Owners
    BY <1>1, <1>6 DEF Leave, Owners
  <2> QED
    BY <1>1, <2>1, <2>2, TaskMoves DEF Places
<1>7. CASE RecoveredDone(t)
  <2>1. /\ up = "up" /\ Occupies(t) /\ UNCHANGED <<up, owner, handles, storeUp, ep, rows, job>>
        /\ Goto(t, "recovered_close") /\ job[EpisodeOf[t]] = "done"
    BY <1>7 DEF RecoveredDone, Occupies, storeVars, tableVars
  <2>2. ~Unfinished(EpisodeOf[t])
    BY <1>1, <2>1 DEF Jobs, RowFollows, Unfinished
  <2> QED
    BY <1>1, <2>1, <2>2, TaskMoves DEF Places
<1> QED
  BY <1>2, <1>3, <1>4, <1>5, <1>6, <1>7

\* What is known of a task that acts, and of the job of its episode.
LEMMA TaskActs ==
    ASSUME AgentConstants, Jobs, NEW t \in Tasks, Occupies(t)
    PROVE  /\ EpisodeOf[t] \in AgentEpisodes /\ t # NoTask
           /\ JobTypes /\ owner \in Owners /\ handles \in Owners
           /\ RowFollows(EpisodeOf[t]) /\ TaskFollows(t)
           /\ HasStore => /\ owner[EpisodeOf[t]] = t
                          /\ \A u \in Tasks : u # t /\ EpisodeOf[u] = EpisodeOf[t] => ~Occupies(u)
<1>1. EpisodeOf[t] \in AgentEpisodes /\ t # NoTask
  BY DEF AgentConstants
<1> QED
  BY <1>1, AloneWithOwner DEF Jobs, Executing

\* A step that keeps the task in the hands of its owner.
LEMMA AcquireCodeJobs ==
    ASSUME AgentConstants, Jobs, NEW t \in Tasks, AcquireCode(t)
    PROVE  Jobs'
<1> DEFINE e == EpisodeOf[t]
<1>1. /\ up = "up" /\ up' = "up" /\ Occupies(t) /\ UNCHANGED <<owner, handles, storeUp, ep, rows>>
      /\ Goto(t, "waiting") /\ job' = [job EXCEPT ![e] = "pending"]
  BY DEF AcquireCode, Occupies, storeVars
<1>2. /\ e \in AgentEpisodes /\ JobTypes /\ owner \in Owners /\ handles \in Owners /\ RowFollows(e)
      /\ HasStore => /\ owner[e] = t /\ \A u \in Tasks : u # t /\ EpisodeOf[u] = e => ~Occupies(u)
  BY <1>1, TaskActs
<1>3. JobTypes' /\ job'[e] = "pending" /\ \A x \in AgentEpisodes : x # e => job'[x] = job[x]
  BY <1>1, <1>2 DEF JobTypes
<1>4. RowFollows(e)'
  BY <1>1, <1>2, <1>3 DEF RowFollows, OpenJob, Unfinished
<1>5. TaskFollows(t)'
  BY <1>1, PlaceChanges DEF TaskFollows, NotEnqueued, Jobs, Executing, Places
<1> QED
  BY <1>1, <1>2, <1>3, <1>4, <1>5, TaskStep DEF Places

LEMMA EnqueueJobs ==
    ASSUME AgentConstants, Jobs, NEW t \in Tasks, enqueue_agent_job(t)
    PROVE  Jobs'
<1> DEFINE e == EpisodeOf[t]
<1>1. up = "up" /\ up' = "up" /\ Occupies(t) /\ NotEnqueued(t) /\ UNCHANGED <<owner, handles, storeUp>>
  BY DEF enqueue_agent_job, Occupies, NotEnqueued
<1>2. /\ e \in AgentEpisodes /\ JobTypes /\ owner \in Owners /\ handles \in Owners /\ RowFollows(e)
      /\ HasStore => /\ owner[e] = t /\ \A u \in Tasks : u # t /\ EpisodeOf[u] = e => ~Occupies(u)
      /\ t # NoTask /\ TaskFollows(t)
  BY <1>1, TaskActs
<1>3. CASE HasStore /\ ~storeUp
  <2>1. Goto(t, "closing") /\ UNCHANGED <<rows, ep, job>>
    BY <1>3 DEF enqueue_agent_job
  <2> QED
    BY <1>1, <1>2, <2>1, TaskMoves DEF Places
<1>4. CASE ~(HasStore /\ ~storeUp)
  <2>1. job' = [job EXCEPT ![e] = "pending"] /\ Goto(t, "waiting")
    BY <1>4 DEF enqueue_agent_job
  <2>2. /\ job' \in [AgentEpisodes -> {"none", "pending", "taken", "done", "closed"}]
        /\ job'[e] = "pending" /\ \A x \in AgentEpisodes : x # e => job'[x] = job[x]
    BY <1>2, <2>1 DEF JobTypes
  <2>3. TaskFollows(t)'
    BY <2>1, PlaceChanges DEF TaskFollows, NotEnqueued, Jobs, Executing, Places
  <2>4. CASE ~HasStore
    <3>1. UNCHANGED <<rows, ep>>
      BY <1>4, <2>4 DEF enqueue_agent_job
    <3>2. RowFollows(e)' /\ JobTypes'
      BY <1>1, <1>2, <2>2, <2>4, <3>1 DEF RowFollows, OpenJob, Unfinished, JobTypes
    <3> QED
      BY <1>1, <1>2, <2>1, <2>2, <2>3, <2>4, <3>1, <3>2, TaskStep DEF Places
  <2>5. CASE HasStore
    <3>1. /\ rows' = [rows EXCEPT ![e] = IF rows[e] = "none" THEN "pending" ELSE rows[e]]
          /\ ep' = [ep EXCEPT ![e] = IF ep[e] = "terminal" THEN ep[e] ELSE "dispatched"]
      BY <1>4, <2>5 DEF enqueue_agent_job
    <3>2. ep[e] \in {"queued", "dispatched"} /\ rows[e] \in {"none", "timed_out"}
      BY <1>1, <1>2, <2>5 DEF TaskFollows
    <3>3. /\ ep' \in [AgentEpisodes -> {"none", "queued", "dispatched", "terminal"}]
          /\ rows' \in [AgentEpisodes -> {"none", "pending", "leased", "completed", "timed_out"}]
          /\ ep'[e] = "dispatched" /\ rows'[e] \in {"pending", "timed_out"}
          /\ \A x \in AgentEpisodes : x # e => ep'[x] = ep[x] /\ rows'[x] = rows[x]
      BY <1>2, <3>1, <3>2 DEF JobTypes
    <3>4. RowFollows(e)'
      BY <1>1, <1>2, <2>2, <2>5, <3>3 DEF RowFollows, OpenJob, Unfinished
    <3>5. JobTypes'
      BY <1>1, <1>2, <2>2, <3>3 DEF JobTypes
    <3> QED
      BY <1>1, <1>2, <2>1, <2>2, <2>3, <2>5, <3>3, <3>4, <3>5, TaskStep DEF Places
  <2> QED
    BY <2>4, <2>5
<1> QED
  BY <1>3, <1>4

LEMMA WaitEndsJobs ==
    ASSUME AgentConstants, Jobs, NEW t \in Tasks, WaitEnds(t)
    PROVE  Jobs'
<1> DEFINE e == EpisodeOf[t]
<1>1. /\ up = "up" /\ up' = "up" /\ Occupies(t) /\ UNCHANGED <<owner, handles, storeUp, ep, rows>>
      /\ job' = [job EXCEPT ![e] = "none"]
      /\ \E p \in {"abandoned", "closing", "leaving"} : Goto(t, p)
  BY DEF WaitEnds, AfterWait, Occupies, storeVars
<1>2. PICK p \in {"abandoned", "closing", "leaving"} : Goto(t, p)
  BY <1>1
<1>3. /\ e \in AgentEpisodes /\ JobTypes /\ owner \in Owners /\ handles \in Owners /\ RowFollows(e)
      /\ HasStore => /\ owner[e] = t /\ \A u \in Tasks : u # t /\ EpisodeOf[u] = e => ~Occupies(u)
  BY <1>1, TaskActs
<1>4. JobTypes' /\ job'[e] = "none" /\ \A x \in AgentEpisodes : x # e => job'[x] = job[x]
  BY <1>1, <1>3 DEF JobTypes
<1>5. RowFollows(e)'
  BY <1>1, <1>3, <1>4 DEF RowFollows, OpenJob, Unfinished
<1>6. TaskFollows(t)'
  BY <1>2, PlaceChanges DEF TaskFollows, NotEnqueued, Jobs, Executing, Places
<1> QED
  BY <1>1, <1>2, <1>3, <1>4, <1>5, <1>6, TaskStep DEF Places

\* What it does to a row to give it up.
LEMMA GivesUp ==
    ASSUME JobTypes, NEW e \in AgentEpisodes, RowFollows(e), UNCHANGED <<ep, up, owner, storeUp>>,
           job'[e] \in {job[e], "none"},
           rows' = IF storeUp THEN [rows EXCEPT ![e] = GaveUp(@)] ELSE rows
    PROVE  /\ rows' \in [AgentEpisodes -> {"none", "pending", "leased", "completed", "timed_out"}]
           /\ \A x \in AgentEpisodes : x # e => rows'[x] = rows[x]
           /\ RowFollows(e)'
<1>1. CASE ~storeUp
  BY <1>1 DEF JobTypes, RowFollows, OpenJob, Unfinished
<1>2. CASE storeUp
  <2>1. rows' = [rows EXCEPT ![e] = GaveUp(rows[e])]
    BY <1>2
  <2>2. GaveUp(rows[e]) = IF rows[e] \in {"pending", "leased"} THEN "timed_out" ELSE rows[e]
    BY DEF GaveUp
  <2>3. /\ rows' \in [AgentEpisodes -> {"none", "pending", "leased", "completed", "timed_out"}]
        /\ \A x \in AgentEpisodes : x # e => rows'[x] = rows[x]
        /\ rows'[e] = GaveUp(rows[e])
    BY <2>1, <2>2 DEF JobTypes
  <2>4. RowFollows(e)'
    BY <2>2, <2>3 DEF RowFollows, OpenJob, Unfinished
  <2> QED
    BY <2>3, <2>4
<1> QED
  BY <1>1, <1>2

LEMMA MarkJobs ==
    ASSUME AgentConstants, Jobs, NEW t \in Tasks, mark_agent_job_terminal(t)
    PROVE  Jobs'
<1> DEFINE e == EpisodeOf[t]
<1>1. /\ up = "up" /\ up' = "up" /\ Occupies(t) /\ UNCHANGED <<owner, handles, storeUp, ep, job>>
      /\ rows' = IF storeUp THEN [rows EXCEPT ![e] = GaveUp(@)] ELSE rows
      /\ Goto(t, "closing")
  BY DEF mark_agent_job_terminal, Occupies, tableVars
<1>2. /\ e \in AgentEpisodes /\ JobTypes /\ owner \in Owners /\ handles \in Owners /\ RowFollows(e)
      /\ HasStore => /\ owner[e] = t /\ \A u \in Tasks : u # t /\ EpisodeOf[u] = e => ~Occupies(u)
  BY <1>1, TaskActs
<1>3. /\ rows' \in [AgentEpisodes -> {"none", "pending", "leased", "completed", "timed_out"}]
      /\ \A x \in AgentEpisodes : x # e => rows'[x] = rows[x]
      /\ RowFollows(e)'
  BY <1>1, <1>2, GivesUp
<1>4. JobTypes'
  BY <1>1, <1>2, <1>3 DEF JobTypes
<1>5. TaskFollows(t)'
  BY <1>1, PlaceChanges DEF TaskFollows, NotEnqueued, Jobs, Executing, Places
<1> QED
  BY <1>1, <1>2, <1>3, <1>4, <1>5, TaskStep DEF Places

LEMMA RecoveredTimesOutJobs ==
    ASSUME AgentConstants, Jobs, NEW t \in Tasks, RecoveredTimesOut(t)
    PROVE  Jobs'
<1> DEFINE e == EpisodeOf[t]
           p == IF storeUp THEN "recovered_ends" ELSE "recovered_close"
<1>1. /\ up = "up" /\ up' = "up" /\ Occupies(t) /\ UNCHANGED <<owner, handles, storeUp, ep>>
      /\ rows' = IF storeUp THEN [rows EXCEPT ![e] = GaveUp(@)] ELSE rows
      /\ job' = [job EXCEPT ![e] = "none"]
      /\ Goto(t, p) /\ p \in Places
  BY DEF RecoveredTimesOut, Occupies, tableVars, Places
<1>2. /\ e \in AgentEpisodes /\ JobTypes /\ owner \in Owners /\ handles \in Owners /\ RowFollows(e)
      /\ HasStore => /\ owner[e] = t /\ \A u \in Tasks : u # t /\ EpisodeOf[u] = e => ~Occupies(u)
  BY <1>1, TaskActs
<1>3. /\ job' \in [AgentEpisodes -> {"none", "pending", "taken", "done", "closed"}]
      /\ job'[e] = "none" /\ \A x \in AgentEpisodes : x # e => job'[x] = job[x]
  BY <1>1, <1>2 DEF JobTypes
<1>4. /\ rows' \in [AgentEpisodes -> {"none", "pending", "leased", "completed", "timed_out"}]
      /\ \A x \in AgentEpisodes : x # e => rows'[x] = rows[x]
      /\ RowFollows(e)'
  BY <1>1, <1>2, <1>3, GivesUp
<1>5. JobTypes'
  BY <1>1, <1>2, <1>3, <1>4 DEF JobTypes
<1>6. TaskFollows(t)'
  BY <1>1, PlaceChanges DEF TaskFollows, NotEnqueued, Jobs, Executing
<1> QED
  BY <1>1, <1>2, <1>3, <1>4, <1>5, <1>6, TaskStep

\* A commit makes the row of the episode terminal, or the store refuses.
LEMMA CommitJobs ==
    ASSUME AgentConstants, Jobs, NEW t \in Tasks, commit_terminal(t) \/ RecoveredCommits(t)
    PROVE  Jobs'
<1> DEFINE e == EpisodeOf[t]
<1>1. up = "up" /\ up' = "up" /\ Occupies(t) /\ UNCHANGED <<handles, rows, job>>
  BY DEF commit_terminal, RecoveredCommits, Occupies, tableVars
<1>2. /\ e \in AgentEpisodes /\ JobTypes /\ owner \in Owners /\ handles \in Owners /\ RowFollows(e)
      /\ HasStore => /\ owner[e] = t /\ \A u \in Tasks : u # t /\ EpisodeOf[u] = e => ~Occupies(u)
  BY <1>1, TaskActs
<1>3. CASE HasStore
  <2>1. \/ owner' = [owner EXCEPT ![e] = NoTask] /\ Goto(t, "over")
        \/ owner' = owner /\ Goto(t, "recovered_close")
    BY <1>3 DEF commit_terminal, RecoveredCommits, tableVars
  <2>2. \/ storeUp' = storeUp /\ ep' = [ep EXCEPT ![e] = "terminal"]
        \/ storeUp' = FALSE /\ ep' = ep
    <3>1. CASE commit_terminal(t)
      <4> DEFINE fails == ep[e] = "none" \/ (ep[e] = "terminal" /\ t \in own)
      <4>1. /\ storeUp' = (storeUp /\ ~fails)
            /\ IF storeUp /\ ~fails THEN ep' = [ep EXCEPT ![e] = "terminal"] ELSE ep' = ep
        BY <1>3, <3>1 DEF commit_terminal
      <4> QED
        BY <4>1
    <3>2. CASE RecoveredCommits(t)
      <4> DEFINE fails == ep[e] # "dispatched"
      <4>1. /\ storeUp' = (storeUp /\ ~fails)
            /\ IF storeUp /\ ~fails THEN ep' = [ep EXCEPT ![e] = "terminal"] ELSE ep' = ep
        BY <3>2 DEF RecoveredCommits
      <4> QED
        BY <4>1
    <3> QED
      BY <3>1, <3>2
  <2>3. PICK p \in {"over", "recovered_close"} : Goto(t, p) /\ (p # "over" => owner' = owner)
    BY <2>1
  <2>4. /\ owner' \in Owners /\ \A x \in AgentEpisodes : x # e => owner'[x] = owner[x]
    BY <1>2, <2>1 DEF Owners
  <2>5. /\ JobTypes' /\ \A x \in AgentEpisodes : x # e => ep'[x] = ep[x]
        /\ (storeUp' = storeUp /\ ep'[e] = "terminal") \/ (storeUp' = FALSE /\ ep'[e] = ep[e])
    BY <1>1, <1>2, <2>2 DEF JobTypes
  <2>6. RowFollows(e)'
    BY <1>1, <1>2, <2>5 DEF RowFollows, OpenJob, Unfinished
  <2>7. TaskFollows(t)'
    BY <2>3, <2>5, PlaceChanges DEF TaskFollows, NotEnqueued, Unfinished, Jobs, Executing, Places
  <2> QED
    BY <1>1, <1>2, <1>3, <2>2, <2>3, <2>4, <2>5, <2>6, <2>7, TaskStep DEF Places
<1>4. CASE ~HasStore
  <2>1. CASE commit_terminal(t)
    <3>1. Goto(t, "over") /\ UNCHANGED <<storeUp, ep, owner>>
      BY <1>4, <2>1 DEF commit_terminal
    <3>2. JobTypes' /\ RowFollows(e)' /\ TaskFollows(t)'
      BY <1>1, <1>2, <1>4, <3>1 DEF JobTypes, RowFollows, TaskFollows, OpenJob, Unfinished
    <3> QED
      BY <1>1, <1>2, <1>4, <3>1, <3>2, TaskStep DEF Places
  <2>2. CASE RecoveredCommits(t)
    <3> DEFINE fails == ep[e] # "dispatched"
    <3>1. /\ Goto(t, "recovered_close") /\ owner' = owner
          /\ storeUp' = (storeUp /\ ~fails)
          /\ IF storeUp /\ ~fails THEN ep' = [ep EXCEPT ![e] = "terminal"] ELSE ep' = ep
      BY <2>2 DEF RecoveredCommits, tableVars
    <3>2. storeUp' = storeUp \/ storeUp' = FALSE
      BY <3>1
    <3>3. ep' = ep \/ ep' = [ep EXCEPT ![e] = "terminal"]
      BY <3>1
    <3>4. /\ JobTypes' /\ (\A x \in AgentEpisodes : x # e => ep'[x] = ep[x])
          /\ ep'[e] = ep[e] \/ ep'[e] = "terminal"
      BY <1>1, <1>2, <3>2, <3>3 DEF JobTypes
    <3>5. RowFollows(e)' /\ TaskFollows(t)'
      BY <1>1, <1>2, <1>4, <3>4 DEF RowFollows, TaskFollows, OpenJob, Unfinished
    <3> QED
      BY <1>1, <1>2, <1>4, <3>1, <3>2, <3>4, <3>5, TaskStep DEF Places
  <2> QED
    BY <2>1, <2>2
<1> QED
  BY <1>3, <1>4

LEMMA RecoveredClosesJobs ==
    ASSUME AgentConstants, Jobs, NEW t \in Tasks, RecoveredCloses(t)
    PROVE  Jobs'
<1> DEFINE e == EpisodeOf[t]
<1>1. /\ up = "up" /\ up' = "up" /\ Occupies(t) /\ UNCHANGED <<handles, rows, job, ep, storeUp>>
      /\ pc[t] = "recovered_close" /\ Goto(t, "over") /\ owner' = [owner EXCEPT ![e] = NoTask]
  BY DEF RecoveredCloses, Occupies
<1>2. /\ e \in AgentEpisodes /\ JobTypes /\ owner \in Owners /\ handles \in Owners /\ RowFollows(e)
      /\ HasStore => /\ owner[e] = t /\ \A u \in Tasks : u # t /\ EpisodeOf[u] = e => ~Occupies(u)
      /\ TaskFollows(t)
  BY <1>1, TaskActs
<1>3. owner' \in Owners /\ \A x \in AgentEpisodes : x # e => owner'[x] = owner[x]
  BY <1>1, <1>2 DEF Owners
<1>4. HasStore /\ storeUp => ~Unfinished(e)
  BY <1>1, <1>2 DEF TaskFollows
<1>5. JobTypes' /\ RowFollows(e)'
  BY <1>1, <1>2, <1>4 DEF JobTypes, RowFollows, OpenJob, Unfinished
<1>6. TaskFollows(t)'
  BY <1>1, PlaceChanges DEF TaskFollows, NotEnqueued, Jobs, Executing, Places
<1> QED
  BY <1>1, <1>2, <1>3, <1>5, <1>6, TaskStep DEF Places

\* The agent takes and completes the job, a client cancels it, the store
\* forgets the episode.
LEMMA TakesJobs ==
    ASSUME AgentConstants, Jobs, NEW e \in AgentEpisodes, AgentTakes(e)
    PROVE  Jobs'
<1>1. /\ UNCHANGED <<pc, owner, handles, up, storeUp, ep>> /\ RowFollows(e) /\ JobTypes
      /\ job' = [job EXCEPT ![e] = "taken"]
      /\ rows' = [rows EXCEPT ![e] = IF rows[e] = "pending" THEN "leased" ELSE rows[e]]
  BY DEF AgentTakes, Jobs, taskVars, tableVars
<1>2. /\ JobTypes' /\ job'[e] = "taken" /\ rows'[e] = IF rows[e] = "pending" THEN "leased" ELSE rows[e]
      /\ \A x \in AgentEpisodes : x # e => ep'[x] = ep[x] /\ rows'[x] = rows[x] /\ job'[x] = job[x]
  BY <1>1 DEF JobTypes
<1>3. RowFollows(e)'
  BY <1>1, <1>2 DEF RowFollows, OpenJob, Unfinished
<1>4. \A t \in Tasks : EpisodeOf[t] = e /\ TaskFollows(t) => TaskFollows(t)'
  BY <1>1, <1>2 DEF TaskFollows, NotEnqueued, Unfinished, OpenJob
<1> QED
  BY <1>1, <1>2, <1>3, <1>4, EpisodeStep

LEMMA CompletesJobs ==
    ASSUME AgentConstants, Jobs, NEW e \in AgentEpisodes, AgentCompletes(e)
    PROVE  Jobs'
<1>1. /\ UNCHANGED <<pc, owner, handles, up, storeUp>> /\ RowFollows(e) /\ JobTypes
      /\ job' = [job EXCEPT ![e] = "done"] /\ rows[e] \in {"none", "leased"}
      /\ IF rows[e] = "leased"
         THEN rows' = [rows EXCEPT ![e] = "completed"] /\ ep' = [ep EXCEPT ![e] = "terminal"]
         ELSE UNCHANGED <<rows, ep>>
  BY DEF AgentCompletes, Jobs, taskVars, tableVars
<1>2. /\ JobTypes' /\ job'[e] = "done"
      /\ \A x \in AgentEpisodes : x # e => ep'[x] = ep[x] /\ rows'[x] = rows[x] /\ job'[x] = job[x]
      /\ \/ rows[e] = "leased" /\ rows'[e] = "completed" /\ ep'[e] = "terminal"
         \/ rows[e] = "none" /\ rows'[e] = "none" /\ ep'[e] = ep[e]
  BY <1>1 DEF JobTypes
<1>3. RowFollows(e)'
  BY <1>1, <1>2 DEF RowFollows, OpenJob, Unfinished
<1>4. \A t \in Tasks : EpisodeOf[t] = e /\ TaskFollows(t) => TaskFollows(t)'
  BY <1>1, <1>2 DEF TaskFollows, NotEnqueued, Unfinished, OpenJob
<1> QED
  BY <1>1, <1>2, <1>3, <1>4, EpisodeStep

LEMMA CancelJobs ==
    ASSUME AgentConstants, Jobs, NEW e \in AgentEpisodes, CancelEpisode(e)
    PROVE  Jobs'
<1>1. /\ UNCHANGED <<pc, owner, handles, up, storeUp, ep, rows>> /\ RowFollows(e) /\ JobTypes
      /\ job' = [job EXCEPT ![e] = IF job[e] \in {"pending", "taken"} THEN "closed" ELSE job[e]]
  BY DEF CancelEpisode, Jobs, tableVars, storeVars
<1>2. /\ JobTypes' /\ job'[e] \in {"closed", job[e]}
      /\ \A x \in AgentEpisodes : x # e => ep'[x] = ep[x] /\ rows'[x] = rows[x] /\ job'[x] = job[x]
  BY <1>1 DEF JobTypes
<1>3. RowFollows(e)'
  BY <1>1, <1>2 DEF RowFollows, OpenJob, Unfinished
<1>4. \A t \in Tasks : EpisodeOf[t] = e /\ TaskFollows(t) => TaskFollows(t)'
  BY <1>1, <1>2 DEF TaskFollows, NotEnqueued, Unfinished, OpenJob
<1> QED
  BY <1>1, <1>2, <1>3, <1>4, EpisodeStep

LEMMA ExpireJobs ==
    ASSUME AgentConstants, Jobs, NEW e \in AgentEpisodes, Expire(e)
    PROVE  Jobs'
<1>1. /\ UNCHANGED <<pc, owner, handles, up, storeUp, job>> /\ RowFollows(e) /\ JobTypes
      /\ ep' = [ep EXCEPT ![e] = "none"] /\ rows' = [rows EXCEPT ![e] = "none"] /\ ep[e] = "terminal"
  BY DEF Expire, Jobs, taskVars, tableVars
<1>2. /\ JobTypes' /\ ep'[e] = "none" /\ rows'[e] = "none"
      /\ \A x \in AgentEpisodes : x # e => ep'[x] = ep[x] /\ rows'[x] = rows[x] /\ job'[x] = job[x]
  BY <1>1 DEF JobTypes
<1>3. RowFollows(e)'
  BY <1>1, <1>2 DEF RowFollows, OpenJob, Unfinished
<1>4. \A t \in Tasks : EpisodeOf[t] = e /\ TaskFollows(t) => TaskFollows(t)'
  BY <1>1, <1>2 DEF TaskFollows, NotEnqueued, Unfinished, OpenJob
<1> QED
  BY <1>1, <1>2, <1>3, <1>4, EpisodeStep

LEMMA CrashJobs == ASSUME AgentConstants, Jobs, Crash PROVE Jobs'
<1>1. /\ HasStore /\ up' = "down" /\ storeUp' = TRUE /\ UNCHANGED <<ep, rows>>
      /\ pc' = [t \in Tasks |-> IF pc[t] = "new" THEN "new" ELSE "over"]
      /\ handles' = [e \in AgentEpisodes |-> NoTask] /\ owner' = [e \in AgentEpisodes |-> NoTask]
      /\ job' = [e \in AgentEpisodes |-> "none"]
  BY DEF Crash
<1>2. \A t \in Tasks : pc'[t] \in {"new", "over"}
  BY <1>1
<1>3. Executing'
  BY <1>1, <1>2 DEF Executing, OneExecutes, Occupies, Places, Owners
<1>4. JobTypes'
  BY <1>1 DEF Jobs, JobTypes
<1>5. ASSUME NEW e \in AgentEpisodes PROVE RowFollows(e)'
  BY <1>1 DEF Jobs, RowFollows, OpenJob, Unfinished
<1>6. ASSUME NEW t \in Tasks PROVE TaskFollows(t)'
  BY <1>2 DEF TaskFollows, NotEnqueued
<1> QED
  BY <1>3, <1>4, <1>5, <1>6 DEF Jobs

\* Recovery gives every open job, and every episode without one, to one task.
LEMMA RecoverJobs == ASSUME AgentConstants, Jobs, Recover PROVE Jobs'
<1>1. up = "down" /\ UNCHANGED <<storeUp, ep, rows>>
  BY DEF Recover, storeVars
<1>2. HasStore /\ \A t \in Tasks : pc[t] \in {"new", "over"}
  BY <1>1 DEF Jobs, Executing, OneExecutes, Occupies
<1>3. CASE \E e \in AgentEpisodes : OpenJob(e) /\ Cardinality(OpenSessions(e)) > 1
  <2>1. up' = "refused" /\ UNCHANGED <<pc, owner, handles, job>>
    BY <1>3 DEF Recover, tableVars
  <2>2. Executing' /\ JobTypes'
    BY <1>1, <1>2, <2>1 DEF Jobs, Executing, OneExecutes, Occupies, JobTypes
  <2>3. ASSUME NEW e \in AgentEpisodes PROVE RowFollows(e)'
    BY <1>1, <2>1 DEF Jobs, RowFollows, OpenJob, Unfinished
  <2>4. ASSUME NEW t \in Tasks PROVE TaskFollows(t)'
    BY <1>2, <2>1 DEF TaskFollows, NotEnqueued
  <2> QED
    BY <2>2, <2>3, <2>4 DEF Jobs
<1>4. CASE ~\E e \in AgentEpisodes : OpenJob(e) /\ Cardinality(OpenSessions(e)) > 1
  <2>1. /\ up' = "up"
        /\ pc' = [t \in Tasks |->
                    IF t # TaskFor(EpisodeOf[t]) THEN pc[t]
                    ELSE IF OpenJob(EpisodeOf[t]) THEN "recovered"
                    ELSE IF Resubmits(EpisodeOf[t]) THEN "acquire" ELSE pc[t]]
        /\ job' = [e \in AgentEpisodes |-> CASE rows[e] = "pending" -> "pending"
                                            [] rows[e] = "leased" -> "taken"
                                            [] OTHER -> "none"]
        /\ handles' = [e \in AgentEpisodes |-> IF Resubmits(e) THEN TaskFor(e) ELSE NoTask]
        /\ owner' = [e \in AgentEpisodes |-> IF Resubmits(e) \/ OpenJob(e) THEN TaskFor(e) ELSE NoTask]
    BY <1>4 DEF Recover
  <2>2. \A e \in AgentEpisodes : TaskFor(e) \in Tasks /\ TaskFor(e) # NoTask /\ EpisodeOf[TaskFor(e)] = e
    BY DEF AgentConstants, TaskFor
  <2>3. \A t \in Tasks : EpisodeOf[t] \in AgentEpisodes
    BY DEF AgentConstants
  <2>4. \A t \in Tasks : Occupies(t)' =>
            /\ t = TaskFor(EpisodeOf[t]) /\ (OpenJob(EpisodeOf[t]) \/ Resubmits(EpisodeOf[t]))
            /\ pc'[t] = IF OpenJob(EpisodeOf[t]) THEN "recovered" ELSE "acquire"
    BY <1>2, <2>1 DEF Occupies
  <2>5. pc' \in [Tasks -> Places]
    BY <1>2, <2>1 DEF Places
  <2>6. owner' \in Owners /\ handles' \in Owners
    BY <2>1, <2>2 DEF Owners
  <2>7. OneExecutes'
    BY <2>1, <2>3, <2>4 DEF OneExecutes
  <2>8. Executing'
    BY <1>2, <2>1, <2>5, <2>6, <2>7 DEF Executing
  <2>9. \A e \in AgentEpisodes : job'[e] \in {"none", "pending", "taken"}
    BY <2>1
  <2>10. JobTypes'
    BY <1>1, <2>1, <2>9 DEF Jobs, JobTypes
  <2>11. ASSUME NEW e \in AgentEpisodes PROVE RowFollows(e)'
    <3>1. RowFollows(e)
      BY DEF Jobs
    <3>2. OpenJob(e) => owner'[e] # NoTask
      BY <2>1, <2>2
    <3> QED
      BY <1>1, <2>9, <3>1, <3>2 DEF RowFollows, OpenJob, Unfinished
  <2>12. ASSUME NEW t \in Tasks PROVE TaskFollows(t)'
    <3>1. RowFollows(EpisodeOf[t])
      BY <2>3 DEF Jobs
    <3>2. NotEnqueued(t)' => ep[EpisodeOf[t]] = "queued"
      BY <2>4 DEF NotEnqueued, Occupies, Resubmits
    <3>3. pc'[t] # "recovered_close"
      BY <2>4 DEF Occupies
    <3> QED
      BY <1>1, <3>1, <3>2, <3>3 DEF TaskFollows, RowFollows
  <2> QED
    BY <2>8, <2>10, <2>11, <2>12 DEF Jobs
<1> QED
  BY <1>3, <1>4

LEMMA RestJobs ==
    ASSUME Jobs,
           \/ \E e \in AgentEpisodes : replay_outbox(e) \/ sweep_completed_async(e)
           \/ SweepReads \/ SweepOne \/ StoreFails \/ UNCHANGED agentVars
    PROVE  Jobs'
<1>1. /\ UNCHANGED <<pc, owner, handles, up, ep, rows, job>>
      /\ storeUp' = storeUp \/ storeUp' = FALSE
  BY DEF replay_outbox, sweep_completed_async, SweepReads, SweepOne, StoreFails, agentVars, taskVars, tableVars, storeVars
<1> QED
  BY <1>1, JobsRest

LEMMA JobsStep ==
    ASSUME AgentConstants, Jobs, [AgentNext]_agentVars
    PROVE  Jobs'
<1>1. ASSUME NEW t \in Tasks,
             \/ submit_episode(t) \/ submit_episode_async(t)
             \/ Acquire(t) \/ AcquireCode(t) \/ AcquireEnds(t)
             \/ create_session_for_episode(t) \/ CreateEnds(t)
             \/ upsert_gateway_session(t) \/ enqueue_agent_job(t)
      PROVE  Jobs'
  BY <1>1, SubmitJobs, SubmitAsyncJobs, MovesJobs, AcquireCodeJobs, EnqueueJobs
<1>2. ASSUME NEW t \in Tasks,
             \/ WaitDone(t) \/ WaitEnds(t) \/ mark_agent_job_terminal(t)
             \/ close_now(t) \/ CloseMarks(t) \/ Leave(t) \/ commit_terminal(t)
             \/ RecoveredDone(t) \/ RecoveredTimesOut(t) \/ RecoveredCommits(t) \/ RecoveredCloses(t)
      PROVE  Jobs'
  BY <1>2, MovesJobs, WaitEndsJobs, MarkJobs, CommitJobs, RecoveredTimesOutJobs, RecoveredClosesJobs
<1>3. ASSUME NEW e \in AgentEpisodes, AgentTakes(e) \/ AgentCompletes(e) \/ CancelEpisode(e) \/ Expire(e)
      PROVE  Jobs'
  BY <1>3, TakesJobs, CompletesJobs, CancelJobs, ExpireJobs
<1> QED
  BY <1>1, <1>2, <1>3, CrashJobs, RecoverJobs, RestJobs DEF AgentNext

-----------------------------------------------------------------------------
(* CancelEpisode reaches whatever executes, when the coordinator or the    *)
(* client sees to it that an episode is submitted once at a time.          *)

LEMMA ExecutesOccupies == \A t \in Tasks : Executes(t) => Occupies(t)
  BY DEF Executes, Occupies

LEMMA Alone ==
    ASSUME Jobs, HasStore \/ SubmittedOnce, NEW t \in Tasks, Occupies(t)
    PROVE  \A u \in Tasks : u # t /\ EpisodeOf[u] = EpisodeOf[t] => ~Occupies(u)
  BY AloneWithOwner DEF Jobs, SubmittedOnce

\* Most steps leave the handles alone and start nothing.
LEMMA KnownRest ==
    ASSUME RunningIsKnown, UNCHANGED handles, \A t \in Tasks : Executes(t)' => Executes(t)
    PROVE  RunningIsKnown'
  BY DEF RunningIsKnown

LEMMA MovesKnown ==
    ASSUME AgentConstants, Jobs, RunningIsKnown, NEW t \in Tasks, NEW p \in Places, Goto(t, p), UNCHANGED handles,
           Executes(t) \/ p \in {"new", "over", "returned", "recovered", "recovered_ends", "recovered_close"}
    PROVE  RunningIsKnown'
<1>1. /\ pc'[t] = p
      /\ \A u \in Tasks : u # t => pc'[u] = pc[u]
  BY PlaceChanges DEF Jobs, Executing
<1>2. ASSUME NEW u \in Tasks, Executes(u)' PROVE Executes(u)
  <2>1. CASE u = t
    BY <1>1, <1>2, <2>1 DEF Executes
  <2>2. CASE u # t
    BY <1>1, <1>2, <2>2 DEF Executes
  <2> QED
    BY <2>1, <2>2
<1> QED
  BY <1>2, KnownRest

LEMMA SubmitKnown ==
    ASSUME AgentConstants, Jobs, HasStore \/ SubmittedOnce, RunningIsKnown, NEW t \in Tasks, submit_episode(t)
    PROVE  RunningIsKnown'
<1> DEFINE e == EpisodeOf[t]
<1>1. e \in AgentEpisodes /\ pc[t] = "new" /\ handles \in Owners /\ owner \in Owners /\ pc \in [Tasks -> Places]
  BY DEF submit_episode, AgentConstants, Jobs, Executing
<1>2. CASE Begins(t) /\ \A u \in Tasks : u # t /\ EpisodeOf[u] = e => ~Occupies(u)
  <2>1. CASE e \in active
    BY <1>2, <2>1, MovesKnown DEF Begins, Places
  <2>2. CASE e \notin active
    <3>1. Goto(t, "acquire") /\ handles' = [handles EXCEPT ![e] = t]
      BY <1>2, <2>2 DEF Begins
    <3>2. /\ pc'[t] = "acquire" /\ \A u \in Tasks : u # t => pc'[u] = pc[u]
      BY <1>1, <3>1, PlaceChanges DEF Places
    <3>3. handles'[e] = t /\ \A x \in AgentEpisodes : x # e => handles'[x] = handles[x]
      BY <1>1, <3>1 DEF Owners
    <3>4. ASSUME NEW u \in Tasks, Executes(u)', u # t PROVE handles'[EpisodeOf[u]] = u
      <4>1. Executes(u) /\ EpisodeOf[u] \in AgentEpisodes
        BY <3>2, <3>4 DEF Executes, AgentConstants
      <4>2. EpisodeOf[u] # e
        BY <1>2, <3>4, <4>1, ExecutesOccupies
      <4> QED
        BY <3>3, <4>1, <4>2 DEF RunningIsKnown
    <3> QED
      BY <3>3, <3>4 DEF RunningIsKnown
  <2> QED
    BY <2>1, <2>2
<1>3. CASE Goto(t, "over") /\ UNCHANGED handles
  BY <1>3, MovesKnown DEF Places
<1>4. CASE ~HasStore
  <2>1. Begins(t)
    BY <1>4 DEF submit_episode
  <2> QED
    BY <1>2, <1>4, <2>1 DEF SubmittedOnce
<1>5. CASE HasStore /\ storeUp /\ ep[e] # "terminal" /\ Owns(e)
  <2>1. Begins(t) /\ owner[e] = NoTask
    BY <1>5 DEF submit_episode, Owns
  <2>2. \A u \in Tasks : u # t /\ EpisodeOf[u] = e => ~Occupies(u)
    BY <1>5, <2>1 DEF Jobs, Executing, OneExecutes, AgentConstants
  <2> QED
    BY <1>2, <2>1, <2>2
<1>6. CASE HasStore /\ ~(storeUp /\ ep[e] # "terminal" /\ Owns(e))
  BY <1>3, <1>6 DEF submit_episode
<1> QED
  BY <1>4, <1>5, <1>6

LEMMA LeaveKnown ==
    ASSUME AgentConstants, Jobs, HasStore \/ SubmittedOnce, RunningIsKnown, NEW t \in Tasks, Leave(t)
    PROVE  RunningIsKnown'
<1> DEFINE e == EpisodeOf[t]
<1>1. /\ handles' = [handles EXCEPT ![e] = NoTask] /\ Goto(t, "returned") /\ Occupies(t)
  BY DEF Leave, Occupies
<1>2. /\ pc'[t] = "returned" /\ \A u \in Tasks : u # t => pc'[u] = pc[u]
  BY <1>1, PlaceChanges DEF Places, Jobs, Executing
<1>3. e \in AgentEpisodes /\ \A x \in AgentEpisodes : x # e => handles'[x] = handles[x]
  BY <1>1 DEF AgentConstants, Jobs, Executing, Owners
<1>4. ASSUME NEW u \in Tasks, Executes(u)' PROVE handles'[EpisodeOf[u]] = u
  <2>1. u # t /\ EpisodeOf[u] \in AgentEpisodes
    BY <1>2, <1>4 DEF Executes, AgentConstants
  <2>2. Executes(u)
    BY <1>2, <1>4, <2>1 DEF Executes
  <2>3. EpisodeOf[u] # e
    BY <1>1, <2>1, <2>2, Alone, ExecutesOccupies
  <2> QED
    BY <1>3, <2>1, <2>2, <2>3 DEF RunningIsKnown
<1> QED
  BY <1>4 DEF RunningIsKnown

LEMMA RecoverKnown ==
    ASSUME AgentConstants, Jobs, RunningIsKnown, Recover
    PROVE  RunningIsKnown'
<1>1. \A t \in Tasks : ~Executes(t)
  <2>1. up = "down"
    BY DEF Recover
  <2> QED
    BY <2>1, ExecutesOccupies DEF Jobs, Executing, OneExecutes
<1>2. CASE \E e \in AgentEpisodes : OpenJob(e) /\ Cardinality(OpenSessions(e)) > 1
  <2>1. UNCHANGED pc
    BY <1>2 DEF Recover
  <2> QED
    BY <1>1, <2>1 DEF RunningIsKnown, Executes
<1>3. CASE ~\E e \in AgentEpisodes : OpenJob(e) /\ Cardinality(OpenSessions(e)) > 1
  <2>1. /\ pc' = [t \in Tasks |->
                    IF t # TaskFor(EpisodeOf[t]) THEN pc[t]
                    ELSE IF OpenJob(EpisodeOf[t]) THEN "recovered"
                    ELSE IF Resubmits(EpisodeOf[t]) THEN "acquire" ELSE pc[t]]
        /\ handles' = [e \in AgentEpisodes |-> IF Resubmits(e) THEN TaskFor(e) ELSE NoTask]
    BY <1>3 DEF Recover
  <2>2. ASSUME NEW t \in Tasks, Executes(t)' PROVE handles'[EpisodeOf[t]] = t
    <3>1. t = TaskFor(EpisodeOf[t]) /\ Resubmits(EpisodeOf[t])
      BY <1>1, <2>1, <2>2 DEF Executes
    <3>2. EpisodeOf[t] \in AgentEpisodes
      BY DEF AgentConstants
    <3> QED
      BY <2>1, <3>1, <3>2
  <2> QED
    BY <2>2 DEF RunningIsKnown
<1> QED
  BY <1>2, <1>3

LEMMA KnownStep ==
    ASSUME AgentConstants, Jobs, HasStore \/ SubmittedOnce, RunningIsKnown, [AgentNext]_agentVars
    PROVE  RunningIsKnown'
<1>1. ASSUME NEW t \in Tasks, submit_episode(t) PROVE RunningIsKnown'
  BY <1>1, SubmitKnown
<1>2. ASSUME NEW t \in Tasks,
             \/ submit_episode_async(t) \/ Acquire(t) \/ AcquireCode(t) \/ AcquireEnds(t)
             \/ create_session_for_episode(t) \/ CreateEnds(t)
             \/ upsert_gateway_session(t) \/ enqueue_agent_job(t)
      PROVE  RunningIsKnown'
  <2>1. UNCHANGED handles /\ \E p \in Places : Goto(t, p) /\ (Executes(t) \/ p = "over")
    BY <1>2 DEF submit_episode_async, Acquire, AcquireCode, AcquireEnds, create_session_for_episode, CreateEnds,
                upsert_gateway_session, enqueue_agent_job, tableVars, Executes, Places
  <2> QED
    BY <2>1, MovesKnown
<1>3. ASSUME NEW t \in Tasks,
             WaitDone(t) \/ WaitEnds(t) \/ mark_agent_job_terminal(t) \/ close_now(t) \/ CloseMarks(t)
      PROVE  RunningIsKnown'
  <2>1. UNCHANGED handles /\ Executes(t) /\ \E p \in Places : Goto(t, p)
    BY <1>3 DEF WaitDone, WaitEnds, AfterWait, mark_agent_job_terminal, close_now, CloseMarks, tableVars, Executes, Places
  <2> QED
    BY <2>1, MovesKnown
<1>4. ASSUME NEW t \in Tasks, Leave(t) PROVE RunningIsKnown'
  BY <1>4, LeaveKnown
<1>5. ASSUME NEW t \in Tasks,
             \/ commit_terminal(t) \/ RecoveredDone(t) \/ RecoveredTimesOut(t)
             \/ RecoveredCommits(t) \/ RecoveredCloses(t)
      PROVE  RunningIsKnown'
  <2>1. UNCHANGED handles /\ \E p \in {"over", "recovered_ends", "recovered_close"} : Goto(t, p)
    BY <1>5 DEF commit_terminal, RecoveredDone, RecoveredTimesOut, RecoveredCommits, RecoveredCloses, tableVars
  <2> QED
    BY <2>1, MovesKnown DEF Places
<1>6. ASSUME NEW e \in AgentEpisodes,
             \/ AgentTakes(e) \/ AgentCompletes(e) \/ CancelEpisode(e)
             \/ replay_outbox(e) \/ Expire(e) \/ sweep_completed_async(e)
      PROVE  RunningIsKnown'
  <2>1. UNCHANGED <<pc, handles>>
    BY <1>6 DEF AgentTakes, AgentCompletes, CancelEpisode, replay_outbox, Expire, sweep_completed_async, taskVars, tableVars
  <2> QED
    BY <2>1, KnownRest DEF Executes
<1>7. CASE SweepReads \/ SweepOne \/ StoreFails \/ UNCHANGED agentVars
  <2>1. UNCHANGED <<pc, handles>>
    BY <1>7 DEF SweepReads, SweepOne, StoreFails, agentVars, taskVars, tableVars
  <2> QED
    BY <2>1, KnownRest DEF Executes
<1>8. CASE Crash
  BY <1>8 DEF Crash, RunningIsKnown, Executes
<1>9. CASE Recover
  BY <1>9, RecoverKnown
<1> QED
  BY <1>1, <1>2, <1>3, <1>4, <1>5, <1>6, <1>7, <1>8, <1>9 DEF AgentNext

\* service/episode.rs and coordinator.rs: with persistence on, or when a
\* client submits an episode once, the handle under an episode's id is that of
\* the task that executes it, so CancelEpisode reaches every execution.  The
\* hypothesis is needed: without a store a second submission may begin while
\* the first closes its session, and the first then removes its handle.
THEOREM CancellationReachesTask ==
    ASSUME AgentConstants, HasStore \/ SubmittedOnce PROVE AgentSpec => []RunningIsKnown
<1>1. AgentInit => Jobs /\ RunningIsKnown
  BY JobsInit DEF AgentInit, RunningIsKnown, Executes
<1>2. (Jobs /\ RunningIsKnown) /\ [AgentNext]_agentVars => (Jobs /\ RunningIsKnown)'
  BY JobsStep, KnownStep
<1> QED
  BY <1>1, <1>2, PTL DEF AgentSpec

-----------------------------------------------------------------------------
(* A session that lives and has a row is accounted for.                    *)

LEMMA SessionIs ==
    ASSUME AgentConstants
    PROVE  /\ NoSession \notin Sessions
           /\ \A s \in Sessions : Of(s) \in AgentEpisodes /\ s[2] \in Nat /\ s = <<Of(s), s[2]>>
<1>1. ASSUME NEW s \in Sessions PROVE s[1] \in AgentEpisodes /\ s[2] \in 1..MaxSessions /\ s = <<s[1], s[2]>>
  BY DEF Sessions
<1>2. \A s \in Sessions : s[2] \in Nat /\ s[2] # 0
  BY <1>1 DEF AgentConstants
<1>3. NoSession[2] = 0
  BY DEF NoSession
<1> QED
  BY <1>1, <1>2, <1>3 DEF Of

LEMMA RecordedInit == ASSUME AgentConstants PROVE AgentInit => Recorded
<1> SUFFICES ASSUME AgentInit PROVE Recorded
  OBVIOUS
<1>1. SessionTypes
  BY DEF AgentInit, SessionTypes
<1>2. SessionsFollow
  BY DEF AgentInit, SessionsFollow
<1> QED
  BY <1>1, <1>2 DEF Recorded

\* A step that makes, closes and records no session, and drops no episode
\* from the store.
LEMMA RecordedRest ==
    ASSUME Recorded, UNCHANGED <<sid, grow, live, made>>, todo' \in SUBSET Sessions,
           \A e \in AgentEpisodes : ep[e] # "none" => ep'[e] # "none",
           AgentConstants, \A t \in Tasks : pc'[t] = "destroyed" => pc[t] = "destroyed"
    PROVE  Recorded'
<1>1. SessionTypes'
  BY DEF Recorded, SessionTypes
<1>2. SessionsFollow'
  BY SessionIs DEF Recorded, SessionsFollow, Made
<1> QED
  BY <1>1, <1>2 DEF Recorded

\* The gateway makes a session: nobody knows its id yet.
LEMMA MakesSession ==
    ASSUME AgentConstants, Recorded, NEW e \in AgentEpisodes, Makes(e)
    PROVE  /\ Fresh(e) \in Sessions /\ Of(Fresh(e)) = e /\ grow[Fresh(e)] = "none"
           /\ live' = live \cup {Fresh(e)} /\ made' \in [AgentEpisodes -> Nat]
           /\ \A s \in Sessions : /\ Made(s)' <=> Made(s) \/ s = Fresh(e)
                                  /\ Made(s) => s # Fresh(e)
<1>1. made[e] \in Nat /\ made[e] < MaxSessions /\ MaxSessions \in Nat /\ made \in [AgentEpisodes -> Nat]
  BY DEF Recorded, SessionTypes, Makes, AgentConstants
<1>2. /\ Fresh(e) = <<e, made[e] + 1>> /\ Fresh(e) \in Sessions /\ Of(Fresh(e)) = e
      /\ Fresh(e)[2] = made[e] + 1
  BY <1>1 DEF Fresh, Sessions, Of
<1>3. grow[Fresh(e)] = "none"
  <2>1. ~Made(Fresh(e))
    BY <1>1, <1>2 DEF Made
  <2> QED
    BY <1>2, <2>1 DEF Recorded, SessionsFollow
<1>4. live' = live \cup {Fresh(e)}
  BY DEF Makes
<1>5. /\ made' \in [AgentEpisodes -> Nat] /\ made'[e] = made[e] + 1
      /\ \A x \in AgentEpisodes : x # e => made'[x] = made[x]
  BY <1>1 DEF Makes
<1>6. ASSUME NEW s \in Sessions
      PROVE  (Made(s)' <=> Made(s) \/ s = Fresh(e)) /\ (Made(s) => s # Fresh(e))
  <2>1. Of(s) \in AgentEpisodes /\ s[2] \in Nat /\ s = <<Of(s), s[2]>>
    BY SessionIs
  <2>2. CASE Of(s) = e
    <3>1. s = Fresh(e) <=> s[2] = made[e] + 1
      BY <1>2, <2>1, <2>2
    <3> QED
      BY <1>1, <1>5, <2>1, <2>2, <3>1 DEF Made
  <2>3. CASE Of(s) # e
    <3>1. s # Fresh(e)
      BY <1>2, <2>3
    <3> QED
      BY <1>5, <2>1, <2>3, <3>1 DEF Made
  <2> QED
    BY <2>2, <2>3
<1> QED
  BY <1>2, <1>3, <1>4, <1>5, <1>6

LEMMA MakesRecorded ==
    ASSUME AgentConstants, Recorded, NEW t \in Tasks, NEW p \in Places \ {"destroyed"}, pc \in [Tasks -> Places],
           Makes(EpisodeOf[t]), sid' = sid \/ sid' = [sid EXCEPT ![t] = Fresh(EpisodeOf[t])],
           Goto(t, p), UNCHANGED <<grow, todo, ep>>
    PROVE  Recorded'
<1> DEFINE e == EpisodeOf[t]
           f == Fresh(e)
<1>1. e \in AgentEpisodes
  BY DEF AgentConstants
<1>2. /\ f \in Sessions /\ Of(f) = e /\ grow[f] = "none"
      /\ live' = live \cup {f} /\ made' \in [AgentEpisodes -> Nat]
      /\ \A s \in Sessions : (Made(s)' <=> Made(s) \/ s = f) /\ (Made(s) => s # f)
  BY <1>1, MakesSession
<1>3. pc'[t] # "destroyed" /\ \A u \in Tasks : u # t => pc'[u] = pc[u]
  BY PlaceChanges
<1>4. NoSession \notin Sessions
  BY SessionIs
<1>5. /\ sid' \in [Tasks -> Sessions \cup {NoSession}]
      /\ sid'[t] = sid[t] \/ sid'[t] = f
      /\ \A u \in Tasks : u # t => sid'[u] = sid[u]
  BY <1>2 DEF Recorded, SessionTypes
<1> HIDE DEF e, f
<1>6. SessionTypes'
  BY <1>2, <1>5 DEF Recorded, SessionTypes
<1>7. ASSUME NEW s \in Sessions
      PROVE  /\ ~Made(s)' => grow'[s] = "none" /\ s \notin live'
             /\ grow'[s] = "active" => ep'[Of(s)] # "none"
             /\ grow'[s] = "destroyed" => s \notin live'
  BY <1>2 DEF Recorded, SessionsFollow
<1>8. ASSUME NEW u \in Tasks
      PROVE  /\ sid'[u] # NoSession => Of(sid'[u]) = EpisodeOf[u] /\ Made(sid[u])'
             /\ pc'[u] = "destroyed" => sid'[u] \notin live'
  <2>1. /\ sid[u] # NoSession => Of(sid[u]) = EpisodeOf[u] /\ Made(sid[u]) /\ sid[u] \in Sessions
        /\ pc[u] = "destroyed" => sid[u] \notin live
    BY DEF Recorded, SessionsFollow, SessionTypes
  <2>2. sid[u] # f
    BY <1>2, <1>4, <2>1
  <2>3. CASE u = t
    BY <1>2, <1>3, <1>5, <2>1, <2>3 DEF Made, e
  <2>4. CASE u # t
    BY <1>2, <1>3, <1>5, <2>1, <2>2, <2>4 DEF Made
  <2> QED
    BY <2>3, <2>4
<1>9. SessionsFollow'
  BY <1>7, <1>8 DEF SessionsFollow
<1> QED
  BY <1>6, <1>9 DEF Recorded

\* What a destroy does to a session and its row.
LEMMA DestroysSession ==
    ASSUME Recorded, NEW s \in Sessions, NEW ok \in BOOLEAN, Destroys(s, ok), UNCHANGED <<made, ep>>,
           grow' = IF storeUp THEN [grow EXCEPT ![s] = Marked(@, ok)] ELSE grow
    PROVE  /\ live' \in SUBSET live /\ grow' \in [Sessions -> {"none", "active", "cleanup_pending", "destroyed"}]
           /\ \A x \in Sessions : /\ ~Made(x)' => grow'[x] = "none" /\ x \notin live'
                                  /\ grow'[x] = "active" => ep'[Of(x)] # "none"
                                  /\ grow'[x] = "destroyed" => x \notin live'
<1>1. live' \in SUBSET live /\ (ok => s \notin live')
  BY DEF Destroys
<1>2. /\ grow' \in [Sessions -> {"none", "active", "cleanup_pending", "destroyed"}]
      /\ \A x \in Sessions : x # s => grow'[x] = grow[x]
      /\ grow'[s] = grow[s] \/ grow'[s] = Marked(grow[s], ok)
  BY DEF Recorded, SessionTypes, Marked
<1>3. ASSUME NEW x \in Sessions
      PROVE  /\ ~Made(x) => grow[x] = "none" /\ x \notin live
             /\ grow[x] = "active" => ep[Of(x)] # "none"
             /\ grow[x] = "destroyed" => x \notin live
             /\ Made(x)' <=> Made(x)
  BY DEF Recorded, SessionsFollow, Made
<1>4. ASSUME NEW x \in Sessions
      PROVE  /\ ~Made(x)' => grow'[x] = "none" /\ x \notin live'
             /\ grow'[x] = "active" => ep'[Of(x)] # "none"
             /\ grow'[x] = "destroyed" => x \notin live'
  <2>1. CASE grow'[x] = grow[x]
    BY <1>1, <1>3, <2>1
  <2>2. CASE x = s /\ grow'[s] = Marked(grow[s], ok)
    BY <1>1, <1>3, <2>2 DEF Marked
  <2> QED
    BY <1>2, <2>1, <2>2
<1> QED
  BY <1>1, <1>2, <1>4

\* The rest of what a step that closes or records a session keeps.
LEMMA SessionStep ==
    ASSUME AgentConstants, Recorded, pc \in [Tasks -> Places], NEW t \in Tasks, NEW p \in Places \ {"destroyed"},
           Goto(t, p), sid' \in [Tasks -> Sessions \cup {NoSession}],
           sid'[t] \in {sid[t], NoSession}, \A u \in Tasks : u # t => sid'[u] = sid[u],
           todo' = todo, UNCHANGED made,
           live' \in SUBSET live, grow' \in [Sessions -> {"none", "active", "cleanup_pending", "destroyed"}],
           \A x \in Sessions : /\ ~Made(x)' => grow'[x] = "none" /\ x \notin live'
                               /\ grow'[x] = "active" => ep'[Of(x)] # "none"
                               /\ grow'[x] = "destroyed" => x \notin live'
    PROVE  Recorded'
<1>1. pc'[t] = p /\ \A u \in Tasks : u # t => pc'[u] = pc[u]
  BY PlaceChanges
<1>2. SessionTypes'
  BY DEF Recorded, SessionTypes
<1>3. ASSUME NEW u \in Tasks
      PROVE  /\ sid'[u] # NoSession => Of(sid'[u]) = EpisodeOf[u] /\ Made(sid[u])'
             /\ pc'[u] = "destroyed" => sid'[u] \notin live'
  BY <1>1 DEF Recorded, SessionsFollow, Made
<1> QED
  BY <1>2, <1>3 DEF Recorded, SessionsFollow

LEMMA UpsertRecorded ==
    ASSUME AgentConstants, Jobs, Recorded, NEW t \in Tasks, upsert_gateway_session(t)
    PROVE  Recorded'
<1>1. /\ UNCHANGED <<sid, todo, live, made, ep>> /\ pc[t] = "created" /\ up = "up"
      /\ \E p \in {"recorded", "closing"} : Goto(t, p)
      /\ \/ grow' = grow
         \/ HasStore /\ grow' = [grow EXCEPT ![sid[t]] = "active"]
  BY DEF upsert_gateway_session, gatewayVars
<1>2. pc \in [Tasks -> Places]
  BY DEF Jobs, Executing
<1>3. PICK p \in {"recorded", "closing"} : Goto(t, p)
  BY <1>1
<1>4. p \in Places \ {"destroyed"} /\ sid \in [Tasks -> Sessions \cup {NoSession}]
  BY DEF Places, Recorded, SessionTypes
<1>5. ASSUME NEW x \in Sessions
      PROVE  /\ ~Made(x) => grow[x] = "none" /\ x \notin live
             /\ grow[x] = "active" => ep[Of(x)] # "none"
             /\ grow[x] = "destroyed" => x \notin live
             /\ Made(x)' <=> Made(x)
  BY <1>1 DEF Recorded, SessionsFollow, Made
<1>6. /\ grow' \in [Sessions -> {"none", "active", "cleanup_pending", "destroyed"}]
      /\ \A x \in Sessions : grow'[x] = grow[x] \/ (HasStore /\ x = sid[t] /\ grow'[x] = "active")
  BY <1>1 DEF Recorded, SessionTypes
<1>7. ASSUME HasStore, sid[t] # NoSession PROVE Made(sid[t]) /\ ep[Of(sid[t])] # "none"
  <2>1. Of(sid[t]) = EpisodeOf[t] /\ Made(sid[t])
    BY <1>7 DEF Recorded, SessionsFollow
  <2>2. ep[EpisodeOf[t]] \in {"queued", "dispatched"}
    BY <1>1, <1>7 DEF Jobs, TaskFollows, NotEnqueued
  <2> QED
    BY <2>1, <2>2
<1>8. ASSUME NEW x \in Sessions
      PROVE  /\ ~Made(x)' => grow'[x] = "none" /\ x \notin live'
             /\ grow'[x] = "active" => ep'[Of(x)] # "none"
             /\ grow'[x] = "destroyed" => x \notin live'
  <2>1. CASE grow'[x] = grow[x]
    BY <1>1, <1>5, <2>1
  <2>2. CASE HasStore /\ x = sid[t] /\ grow'[x] = "active"
    <3>1. x # NoSession
      BY SessionIs
    <3> QED
      BY <1>1, <1>5, <1>7, <2>2, <3>1
  <2> QED
    BY <1>6, <2>1, <2>2
<1> QED
  BY <1>1, <1>2, <1>3, <1>4, <1>6, <1>8, SessionStep

LEMMA CloseNowRecorded ==
    ASSUME AgentConstants, Jobs, Recorded, NEW t \in Tasks, close_now(t)
    PROVE  Recorded'
<1>1. PICK ok \in BOOLEAN : Destroys(sid[t], ok) /\ Goto(t, IF ok THEN "destroyed" ELSE "kept")
  BY DEF close_now
<1>2. UNCHANGED <<sid, grow, todo, made, ep>>
  BY DEF close_now, storeVars
<1>3. /\ live' \in SUBSET live /\ (ok => sid[t] \notin live')
  BY <1>1 DEF Destroys
<1>4. /\ pc'[t] = (IF ok THEN "destroyed" ELSE "kept")
      /\ \A u \in Tasks : u # t => pc'[u] = pc[u]
  BY <1>1, PlaceChanges DEF Jobs, Executing, Places
<1>5. SessionTypes'
  BY <1>2, <1>3 DEF Recorded, SessionTypes
<1>6. ASSUME NEW x \in Sessions
      PROVE  /\ ~Made(x)' => grow'[x] = "none" /\ x \notin live'
             /\ grow'[x] = "active" => ep'[Of(x)] # "none"
             /\ grow'[x] = "destroyed" => x \notin live'
  BY <1>2, <1>3 DEF Recorded, SessionsFollow, Made
<1>7. ASSUME NEW u \in Tasks
      PROVE  /\ sid'[u] # NoSession => Of(sid'[u]) = EpisodeOf[u] /\ Made(sid[u])'
             /\ pc'[u] = "destroyed" => sid'[u] \notin live'
  BY <1>2, <1>3, <1>4 DEF Recorded, SessionsFollow, Made
<1> QED
  BY <1>5, <1>6, <1>7 DEF Recorded, SessionsFollow

\* A row is marked destroyed after the session is.
LEMMA CloseMarksRecorded ==
    ASSUME AgentConstants, Jobs, Recorded, NEW t \in Tasks, CloseMarks(t)
    PROVE  Recorded'
<1> DEFINE ok == pc[t] = "destroyed"
<1>1. /\ UNCHANGED <<todo, live, made, ep>> /\ Goto(t, "leaving")
      /\ sid' = [sid EXCEPT ![t] = NoSession]
      /\ grow' = IF storeUp THEN [grow EXCEPT ![sid[t]] = Marked(@, ok)] ELSE grow
  BY DEF CloseMarks, gatewayVars
<1>2. /\ sid \in [Tasks -> Sessions \cup {NoSession}]
      /\ sid' \in [Tasks -> Sessions \cup {NoSession}] /\ sid'[t] = NoSession
      /\ \A u \in Tasks : u # t => sid'[u] = sid[u]
  BY <1>1 DEF Recorded, SessionTypes
<1>3. ok => sid[t] \notin live
  BY DEF Recorded, SessionsFollow
<1>4. /\ grow' \in [Sessions -> {"none", "active", "cleanup_pending", "destroyed"}]
      /\ \A x \in Sessions : x # sid[t] => grow'[x] = grow[x]
      /\ sid[t] \in Sessions => grow'[sid[t]] = grow[sid[t]] \/ grow'[sid[t]] = Marked(grow[sid[t]], ok)
  BY <1>1 DEF Recorded, SessionTypes, Marked
<1>5. ASSUME NEW x \in Sessions
      PROVE  /\ ~Made(x) => grow[x] = "none" /\ x \notin live
             /\ grow[x] = "active" => ep[Of(x)] # "none"
             /\ grow[x] = "destroyed" => x \notin live
             /\ Made(x)' <=> Made(x)
  BY <1>1 DEF Recorded, SessionsFollow, Made
<1>6. ASSUME NEW x \in Sessions
      PROVE  /\ ~Made(x)' => grow'[x] = "none" /\ x \notin live'
             /\ grow'[x] = "active" => ep'[Of(x)] # "none"
             /\ grow'[x] = "destroyed" => x \notin live'
  <2>1. CASE grow'[x] = grow[x]
    BY <1>1, <1>5, <2>1
  <2>2. CASE x = sid[t] /\ grow'[x] = Marked(grow[x], ok)
    BY <1>1, <1>3, <1>5, <2>2 DEF Marked
  <2> QED
    BY <1>4, <2>1, <2>2
<1>7. pc \in [Tasks -> Places] /\ "leaving" \in Places \ {"destroyed"}
  BY DEF Jobs, Executing, Places
<1> QED
  BY <1>1, <1>2, <1>4, <1>6, <1>7, SessionStep

LEMMA RecoveredClosesRecorded ==
    ASSUME AgentConstants, Jobs, Recorded, NEW t \in Tasks, RecoveredCloses(t)
    PROVE  Recorded'
<1>1. /\ UNCHANGED <<todo, made, ep>> /\ Goto(t, "over") /\ sid' = [sid EXCEPT ![t] = NoSession]
  BY DEF RecoveredCloses
<1>2. /\ sid \in [Tasks -> Sessions \cup {NoSession}]
      /\ sid' \in [Tasks -> Sessions \cup {NoSession}] /\ sid'[t] = NoSession
      /\ \A u \in Tasks : u # t => sid'[u] = sid[u]
  BY <1>1 DEF Recorded, SessionTypes
<1>3. pc \in [Tasks -> Places] /\ "over" \in Places \ {"destroyed"}
  BY DEF Jobs, Executing, Places
<1>4. CASE sid[t] = NoSession
  <2>1. UNCHANGED <<live, grow>>
    BY <1>4 DEF RecoveredCloses
  <2>2. grow \in [Sessions -> {"none", "active", "cleanup_pending", "destroyed"}]
    BY DEF Recorded, SessionTypes
  <2>3. \A x \in Sessions : /\ ~Made(x)' => grow'[x] = "none" /\ x \notin live'
                            /\ grow'[x] = "active" => ep'[Of(x)] # "none"
                            /\ grow'[x] = "destroyed" => x \notin live'
    BY <1>1, <2>1 DEF Recorded, SessionsFollow, Made
  <2> QED
    BY <1>1, <1>2, <1>3, <2>1, <2>2, <2>3, SessionStep
<1>5. CASE sid[t] # NoSession
  <2>1. PICK ok \in BOOLEAN : /\ Destroys(sid[t], ok)
                              /\ grow' = IF storeUp THEN [grow EXCEPT ![sid[t]] = Marked(@, ok)] ELSE grow
    BY <1>5 DEF RecoveredCloses
  <2>2. sid[t] \in Sessions
    BY <1>2, <1>5
  <2>3. /\ live' \in SUBSET live /\ grow' \in [Sessions -> {"none", "active", "cleanup_pending", "destroyed"}]
        /\ \A x \in Sessions : /\ ~Made(x)' => grow'[x] = "none" /\ x \notin live'
                               /\ grow'[x] = "active" => ep'[Of(x)] # "none"
                               /\ grow'[x] = "destroyed" => x \notin live'
    BY <1>1, <2>1, <2>2, DestroysSession
  <2> QED
    BY <1>1, <1>2, <1>3, <2>3, SessionStep
<1> QED
  BY <1>4, <1>5

\* The clean-up destroys a session it has read.
LEMMA SweepOneRecorded == ASSUME AgentConstants, Recorded, SweepOne PROVE Recorded'
<1>1. PICK s \in todo, ok \in BOOLEAN :
        /\ Destroys(s, ok)
        /\ grow' = IF storeUp THEN [grow EXCEPT ![s] = Marked(@, ok)] ELSE grow
        /\ todo' = IF storeUp THEN todo \ {s} ELSE {}
  BY DEF SweepOne
<1>2. UNCHANGED <<pc, sid, made, ep>>
  BY DEF SweepOne, taskVars
<1>3. s \in Sessions
  BY DEF Recorded, SessionTypes
<1>4. /\ live' \in SUBSET live /\ grow' \in [Sessions -> {"none", "active", "cleanup_pending", "destroyed"}]
      /\ \A x \in Sessions : /\ ~Made(x)' => grow'[x] = "none" /\ x \notin live'
                             /\ grow'[x] = "active" => ep'[Of(x)] # "none"
                             /\ grow'[x] = "destroyed" => x \notin live'
  BY <1>1, <1>2, <1>3, DestroysSession
<1>5. SessionTypes'
  BY <1>1, <1>2, <1>4 DEF Recorded, SessionTypes
<1>6. ASSUME NEW u \in Tasks
      PROVE  /\ sid'[u] # NoSession => Of(sid'[u]) = EpisodeOf[u] /\ Made(sid[u])'
             /\ pc'[u] = "destroyed" => sid'[u] \notin live'
  BY <1>2, <1>4 DEF Recorded, SessionsFollow, Made
<1> QED
  BY <1>4, <1>5, <1>6 DEF Recorded, SessionsFollow

\* With an episode go the rows of its sessions.
LEMMA ExpireRecorded == ASSUME AgentConstants, Recorded, Jobs, NEW e \in AgentEpisodes, Expire(e) PROVE Recorded'
<1>1. /\ UNCHANGED <<pc, sid, todo, live, made>> /\ ep' = [ep EXCEPT ![e] = "none"]
      /\ grow' = [s \in Sessions |-> IF Of(s) = e THEN "none" ELSE grow[s]]
  BY DEF Expire, taskVars, gatewayVars
<1>2. \A x \in AgentEpisodes : x # e => ep'[x] = ep[x]
  BY <1>1 DEF Jobs, JobTypes
<1>3. SessionTypes'
  BY <1>1 DEF Recorded, SessionTypes
<1>4. ASSUME NEW x \in Sessions
      PROVE  /\ ~Made(x)' => grow'[x] = "none" /\ x \notin live'
             /\ grow'[x] = "active" => ep'[Of(x)] # "none"
             /\ grow'[x] = "destroyed" => x \notin live'
  BY <1>1, <1>2, SessionIs DEF Recorded, SessionsFollow, Made
<1>5. ASSUME NEW u \in Tasks
      PROVE  /\ sid'[u] # NoSession => Of(sid'[u]) = EpisodeOf[u] /\ Made(sid[u])'
             /\ pc'[u] = "destroyed" => sid'[u] \notin live'
  BY <1>1 DEF Recorded, SessionsFollow, Made
<1> QED
  BY <1>3, <1>4, <1>5 DEF Recorded, SessionsFollow

LEMMA CrashRecorded == ASSUME Recorded, Crash PROVE Recorded'
<1>1. /\ UNCHANGED <<ep, grow, live, made>> /\ todo' = {} /\ sid' = [t \in Tasks |-> NoSession]
      /\ pc' = [t \in Tasks |-> IF pc[t] = "new" THEN "new" ELSE "over"]
  BY DEF Crash, gatewayVars
<1>2. \A t \in Tasks : sid'[t] = NoSession /\ pc'[t] # "destroyed"
  BY <1>1
<1>3. SessionTypes'
  BY <1>1 DEF Recorded, SessionTypes
<1>4. SessionsFollow'
  BY <1>1, <1>2 DEF Recorded, SessionsFollow, Made
<1> QED
  BY <1>3, <1>4 DEF Recorded

\* Recovery hands a session to the task of its own episode.
LEMMA RecoverRecorded == ASSUME AgentConstants, Jobs, Recorded, Recover PROVE Recorded'
<1>1. up = "down" /\ UNCHANGED <<todo, ep, grow, live, made>>
  BY DEF Recover, storeVars, gatewayVars
<1>2. \A t \in Tasks : pc[t] \in {"new", "over"}
  BY <1>1 DEF Jobs, Executing, OneExecutes, Occupies
<1>3. CASE \E e \in AgentEpisodes : OpenJob(e) /\ Cardinality(OpenSessions(e)) > 1
  <2>1. UNCHANGED <<pc, sid>>
    BY <1>3 DEF Recover
  <2> QED
    BY <1>1, <2>1, RecordedRest DEF Recorded, SessionTypes
<1>4. CASE ~\E e \in AgentEpisodes : OpenJob(e) /\ Cardinality(OpenSessions(e)) > 1
  <2>1. /\ pc' = [t \in Tasks |->
                    IF t # TaskFor(EpisodeOf[t]) THEN pc[t]
                    ELSE IF OpenJob(EpisodeOf[t]) THEN "recovered"
                    ELSE IF Resubmits(EpisodeOf[t]) THEN "acquire" ELSE pc[t]]
        /\ sid' = [t \in Tasks |->
                    IF t = TaskFor(EpisodeOf[t]) /\ OpenJob(EpisodeOf[t])
                         /\ OpenSessions(EpisodeOf[t]) # {}
                    THEN CHOOSE s \in OpenSessions(EpisodeOf[t]) : TRUE ELSE sid[t]]
    BY <1>4 DEF Recover
  <2>2. \A t \in Tasks : pc'[t] # "destroyed"
    BY <1>2, <2>1
  <2>3. ASSUME NEW t \in Tasks
        PROVE  sid'[t] = sid[t] \/ sid'[t] \in OpenSessions(EpisodeOf[t])
    BY <2>1
  <2>4. ASSUME NEW e \in AgentEpisodes, NEW s \in OpenSessions(e) PROVE s \in Sessions /\ Of(s) = e /\ Made(s)
    BY DEF OpenSessions, SessionsOf, Recorded, SessionsFollow
  <2>5. ASSUME NEW t \in Tasks
        PROVE  /\ sid'[t] \in Sessions \cup {NoSession}
               /\ sid'[t] # NoSession => Of(sid'[t]) = EpisodeOf[t] /\ sid'[t][2] <= made[Of(sid'[t])]
    <3>1. EpisodeOf[t] \in AgentEpisodes
      BY DEF AgentConstants
    <3>2. CASE sid'[t] = sid[t]
      BY <3>2 DEF Recorded, SessionTypes, SessionsFollow, Made
    <3>3. CASE sid'[t] \in OpenSessions(EpisodeOf[t])
      BY <2>4, <3>1, <3>3 DEF Made
    <3> QED
      BY <2>3, <3>2, <3>3
  <2>6. SessionTypes'
    <3>1. sid' \in [Tasks -> Sessions \cup {NoSession}]
      BY <2>1, <2>5
    <3> QED
      BY <1>1, <3>1 DEF Recorded, SessionTypes
  <2>7. SessionsFollow'
    BY <1>1, <2>2, <2>5 DEF Recorded, SessionsFollow, Made
  <2> QED
    BY <2>6, <2>7 DEF Recorded
<1> QED
  BY <1>3, <1>4

LEMMA RecordedStep ==
    ASSUME AgentConstants, Jobs, Recorded, [AgentNext]_agentVars
    PROVE  Recorded'
<1>1. todo \in SUBSET Sessions /\ pc \in [Tasks -> Places] /\ ep \in [AgentEpisodes -> {"none", "queued", "dispatched", "terminal"}]
  BY DEF Recorded, SessionTypes, Jobs, Executing, JobTypes
<1>2. ASSUME NEW t \in Tasks,
             \/ submit_episode(t) \/ submit_episode_async(t) \/ Acquire(t) \/ AcquireCode(t) \/ AcquireEnds(t)
             \/ enqueue_agent_job(t) \/ WaitDone(t) \/ WaitEnds(t) \/ mark_agent_job_terminal(t)
             \/ Leave(t) \/ commit_terminal(t)
             \/ RecoveredDone(t) \/ RecoveredTimesOut(t) \/ RecoveredCommits(t)
      PROVE  Recorded'
  <2>1. UNCHANGED <<sid, grow, live, made, todo>>
    BY <1>2 DEF submit_episode, submit_episode_async, Acquire, AcquireCode, AcquireEnds, enqueue_agent_job,
                WaitDone, WaitEnds, mark_agent_job_terminal, Leave, commit_terminal,
                RecoveredDone, RecoveredTimesOut, RecoveredCommits, storeVars, gatewayVars
  <2>2. \E p \in Places \ {"destroyed"} : Goto(t, p)
    BY <1>2 DEF submit_episode, Begins, submit_episode_async, Acquire, AcquireCode, AcquireEnds, enqueue_agent_job,
                WaitDone, WaitEnds, AfterWait, mark_agent_job_terminal, Leave, commit_terminal,
                RecoveredDone, RecoveredTimesOut, RecoveredCommits, Places
  <2>3. \E v \in {"queued", "dispatched", "terminal"} :
            ep' = ep \/ ep' = [ep EXCEPT ![EpisodeOf[t]] = v] \/ ep' = [ep EXCEPT ![EpisodeOf[t]] = ep[EpisodeOf[t]]]
    <3>1. CASE submit_episode(t)
      BY <3>1 DEF submit_episode
    <3>2. CASE enqueue_agent_job(t)
      BY <3>2 DEF enqueue_agent_job
    <3>3. CASE commit_terminal(t) \/ RecoveredCommits(t)
      BY <3>3 DEF commit_terminal, RecoveredCommits
    <3>4. CASE ~(submit_episode(t) \/ enqueue_agent_job(t) \/ commit_terminal(t) \/ RecoveredCommits(t))
      BY <1>2, <3>4 DEF submit_episode_async, Acquire, AcquireCode, AcquireEnds, WaitDone, WaitEnds,
                mark_agent_job_terminal, Leave, RecoveredDone, RecoveredTimesOut, storeVars
    <3> QED
      BY <3>1, <3>2, <3>3, <3>4
  <2>4. \A e \in AgentEpisodes : ep[e] # "none" => ep'[e] # "none"
    BY <1>1, <2>3
  <2>5. \A u \in Tasks : pc'[u] = "destroyed" => pc[u] = "destroyed"
    BY <1>1, <2>2, PlaceChanges
  <2> QED
    BY <1>1, <2>1, <2>4, <2>5, RecordedRest
<1>3. ASSUME NEW t \in Tasks, create_session_for_episode(t) \/ CreateEnds(t) PROVE Recorded'
  <2>1. /\ UNCHANGED <<grow, todo, ep>> /\ \E p \in Places \ {"destroyed"} : Goto(t, p)
        /\ \/ /\ Makes(EpisodeOf[t])
              /\ sid' = sid \/ sid' = [sid EXCEPT ![t] = Fresh(EpisodeOf[t])]
           \/ UNCHANGED <<sid, live, made>>
    BY <1>3 DEF create_session_for_episode, CreateEnds, Places, storeVars, gatewayVars
  <2>2. PICK p \in Places \ {"destroyed"} : Goto(t, p)
    BY <2>1
  <2>3. \A u \in Tasks : pc'[u] = "destroyed" => pc[u] = "destroyed"
    BY <1>1, <2>2, PlaceChanges
  <2>4. CASE UNCHANGED <<sid, live, made>>
    BY <1>1, <2>1, <2>3, <2>4, RecordedRest
  <2>5. CASE /\ Makes(EpisodeOf[t])
             /\ sid' = sid \/ sid' = [sid EXCEPT ![t] = Fresh(EpisodeOf[t])]
    BY <1>1, <2>1, <2>2, <2>5, MakesRecorded
  <2> QED
    BY <2>1, <2>4, <2>5
<1>4. ASSUME NEW e \in AgentEpisodes,
             AgentTakes(e) \/ AgentCompletes(e) \/ CancelEpisode(e) \/ replay_outbox(e) \/ sweep_completed_async(e)
      PROVE  Recorded'
  <2>1. /\ UNCHANGED <<pc, sid, grow, live, made, todo>>
        /\ ep' = ep \/ ep' = [ep EXCEPT ![e] = "terminal"]
    BY <1>4 DEF AgentTakes, AgentCompletes, CancelEpisode, replay_outbox, sweep_completed_async, taskVars, storeVars, gatewayVars
  <2>2. \A x \in AgentEpisodes : ep[x] # "none" => ep'[x] # "none"
    BY <1>1, <2>1
  <2> QED
    BY <1>1, <2>1, <2>2, RecordedRest
<1>5. CASE SweepReads \/ StoreFails \/ UNCHANGED agentVars
  <2>1. UNCHANGED <<pc, sid, grow, live, made, ep>> /\ todo' \in SUBSET Sessions
    BY <1>1, <1>5 DEF SweepReads, StoreFails, agentVars, taskVars, storeVars, gatewayVars
  <2> QED
    BY <2>1, RecordedRest
<1> QED
  BY <1>2, <1>3, <1>4, <1>5, UpsertRecorded, CloseNowRecorded, CloseMarksRecorded, RecoveredClosesRecorded,
     SweepOneRecorded, ExpireRecorded, CrashRecorded, RecoverRecorded DEF AgentNext

LEMMA RecordedAccounts == ASSUME AgentConstants, Jobs, Recorded PROVE SessionsAreAccounted
<1> SUFFICES ASSUME NEW s \in live, grow[s] # "none"
             PROVE  NeedsCleanup(s) \/ (grow[s] = "active" /\ (Resubmits(Of(s)) \/ OpenJob(Of(s)))) \/ GivenUp(Of(s))
  BY DEF SessionsAreAccounted
<1>1. s \in Sessions /\ Of(s) \in AgentEpisodes
  BY SessionIs DEF Recorded, SessionTypes
<1>2. grow[s] \in {"active", "cleanup_pending"}
  BY <1>1 DEF Recorded, SessionTypes, SessionsFollow
<1>3. CASE grow[s] = "cleanup_pending"
  BY <1>3 DEF NeedsCleanup
<1>4. CASE grow[s] = "active"
  <2>1. ep[Of(s)] \in {"queued", "dispatched", "terminal"}
    BY <1>1, <1>4 DEF Recorded, SessionsFollow, Jobs, JobTypes
  <2>2. ep[Of(s)] = "dispatched" => rows[Of(s)] \in {"pending", "leased", "timed_out"}
    BY <1>1 DEF Jobs, RowFollows
  <2> QED
    BY <1>4, <2>1, <2>2 DEF NeedsCleanup, Resubmits, OpenJob, GivenUp
<1> QED
  BY <1>2, <1>3, <1>4

\* service/episode.rs, recovery.rs, persistence/sqlite.rs
\* (load_gateway_cleanup, load_agent_recovery): whatever fails and whenever
\* the server crashes, a session that lives on a gateway and has a row is one
\* that the clean-up reads, or of an episode that recovery takes up again, or
\* of an episode whose job was given up.
THEOREM SessionsAreKept ==
    ASSUME AgentConstants PROVE AgentSpec => []SessionsAreAccounted
<1>1. AgentInit => Jobs /\ Recorded
  BY JobsInit, RecordedInit
<1>2. (Jobs /\ Recorded) /\ [AgentNext]_agentVars => (Jobs /\ Recorded)'
  BY JobsStep, RecordedStep
<1>3. Jobs /\ Recorded => SessionsAreAccounted
  BY RecordedAccounts
<1> QED
  BY <1>1, <1>2, <1>3, PTL DEF AgentSpec

=============================================================================
