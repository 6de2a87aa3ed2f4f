---------------------------- MODULE WorkerProofs ----------------------------
(***************************************************************************)
(* Theorems about the worker: WorkerEpisode, for every set of executions   *)
(* and instances and every size of the pool; SweSessions, for every set of *)
(* jobs and sessions and every capacity; ModelTurn, for every number of    *)
(* turns and retries; and SweGrading, for every set of sessions, variants  *)
(* and packages and every number of edits and recycles.                    *)
(*                                                                         *)
(* Executions: what one still has to do is a sequence whose shape all the  *)
(* invariants rest on (Course): calls that return to what follows them,    *)
(* and one last operation that replaces the sequence.  An instance is in   *)
(* one hand at most (HeldOnce): the queue, the call that works on it, or   *)
(* the episode that holds it.  The phase of an execution says what it has  *)
(* recorded of its trajectory (Books).                                     *)
(*                                                                         *)
(* Sessions: two invariants share the type correctness: one counts what    *)
(* the lock of the pool protects, the other follows an evaluation from the *)
(* submit that started it to its answer.                                   *)
(*                                                                         *)
(* Model turns: what is gathered of a rollout are tokens that were said in *)
(* their order, as many log-probs as ids, place by place of one turn, and  *)
(* of one token where the turn has all its log-probs.                      *)
(*                                                                         *)
(* Grading: what is in the repository of a session at each of its steps,   *)
(* where its agent solved nothing, and where nobody but the contract and   *)
(* the gold patch changed it.                                              *)
(***************************************************************************)
EXTENDS WorkerEpisode, SweSessions, ModelTurn, SweGrading, QueueProofs

-----------------------------------------------------------------------------
(* Executions and plugin instances (WorkerEpisode).                        *)

Finals == {"config", "reset", "model", "step", "error", "failed", "finish"}
Spawning == {"spawn", "manage", "ready"}
Carrying == {"check", "manage", "ready", "join", "stock", "recycle"}
Calls == {"acquire", "fill", "destroy", "close", "forget", "release", "evict", "spawn"} \cup Carrying
Entries == (Finals \cup Calls \cup {"swallow", "seal"}) \X (Instances \cup {none})

LastOp(s) == s[Len(s)][1]

\* The parts of a course that count from its end ...
Ending(s) ==
    /\ \A k \in 1..Len(s) : s[k][1] \in Finals <=> k = Len(s)
    /\ \A k \in 1..Len(s) : s[k][1] = "seal" => k = Len(s) - 1 /\ LastOp(s) \in {"error", "failed"}
    /\ \A k \in 1..Len(s) : s[k][1] = "swallow" => k = Len(s) - 2 /\ s[k + 1][1] = "seal"
    /\ s # <<>> /\ LastOp(s) \in {"error", "failed"} => Len(s) = 1 \/ s[Len(s) - 1][1] = "seal"
    /\ s # <<>> /\ LastOp(s) \in {"reset", "model", "step"} => Len(s) = 1

\* ... and from its beginning: only the call at work carries an instance, and
\* a new one is spawned for the call that follows.
Beginning(s) ==
    /\ \A k \in 2..Len(s) : /\ s[k][1] \notin Spawning \cup {"check", "recycle"}
                            /\ s[k][1] \in {"stock", "join"} => k = 2 /\ s[1][1] \in Spawning
    /\ s # <<>> /\ s[1][1] \in Carrying => s[1][2] \in Instances
    /\ s # <<>> /\ s[1][1] \in Spawning => Len(s) >= 2 /\ s[2][1] \in {"stock", "join"}

Course(s) == s \in Seq(Entries) /\ Ending(s) /\ Beginning(s)

Courses == \A t \in Tasks : Course(todo[t])

\* What the trajectory of an execution has come to.
Phase(s) ==
    IF s = <<>> THEN "none"
    ELSE IF LastOp(s) = "config" THEN "before"
    ELSE IF LastOp(s) \in {"error", "failed"} /\ Len(s) = 1 THEN LastOp(s)
    ELSE "open"

Booked(t) ==
    /\ ended[t] # "no" => Phase(todo[t]) = "none"
    /\ Phase(todo[t]) = "none" /\ ended[t] = "no" => t \notin inflight /\ seals[t] = 0 /\ stepped[t] = 0
    /\ Phase(todo[t]) = "before" => t \notin inflight /\ seals[t] = 0 /\ stepped[t] = 0
    /\ Phase(todo[t]) = "open" => t \in inflight /\ seals[t] = 0
    /\ Phase(todo[t]) = "error" => t \notin inflight /\ (seals[t] = 1 \/ (seals[t] = 0 /\ stepped[t] = 0))
    /\ Phase(todo[t]) = "failed" => t \notin inflight /\ seals[t] = 1
    /\ ended[t] # "no" => /\ t \notin inflight /\ seals[t] <= 1
                          /\ ended[t] \in {"completed", "failed"} => seals[t] = 1
                          /\ ended[t] = "cancelled" => seals[t] = 0
                          /\ stepped[t] > 0 /\ ended[t] # "cancelled" => seals[t] = 1

Shape ==
    /\ todo \in [Tasks -> Seq(Entries)] /\ Courses
    /\ queue \in Seq(Instances) /\ active \subseteq Instances
Counts ==
    /\ seals \in [Tasks -> Nat] /\ stepped \in [Tasks -> Nat]
    /\ ended \in [Tasks -> {"no", "refused", "error", "failed", "completed", "cancelled", "timeout"}]

Books == Shape /\ Counts /\ \A t \in Tasks : Booked(t)

\* The instance in the hands of the call at work, and the one the episode holds.
Carry(t) == IF todo[t] # <<>> /\ Op(t) \in Carrying THEN {Arg(t)} ELSE {}
Leased(t) == IF Holding(t) THEN {lease[t]} ELSE {}

InOneHand ==
    /\ \A j, k \in 1..Len(queue) : queue[j] = queue[k] => j = k
    /\ \A t \in Tasks : Carry(t) \cap InQueue = {} /\ Leased(t) \cap InQueue = {} /\ Carry(t) \cap Leased(t) = {}
    /\ \A t, u \in Tasks : t # u => (Carry(t) \cup Leased(t)) \cap (Carry(u) \cup Leased(u)) = {}

Known ==
    /\ InQueue \subseteq used /\ used \subseteq Instances
    /\ lease \in [Tasks -> Instances \cup {none}]
    /\ \A t \in Tasks : Carry(t) \cup Leased(t) \subseteq used
    /\ \A t \in Tasks : todo[t] = <<>> /\ ended[t] = "no" => lease[t] = none

HeldOnce == Shape /\ Known /\ InOneHand

-----------------------------------------------------------------------------
(* Courses.                                                                *)

Returning == (Calls \ Spawning) \cup {"swallow", "seal"}

\* The end of a course does not depend on what has been done of it.
LEMMA EndingTail ==
    ASSUME NEW s \in Seq(Entries), Ending(s), s # <<>>, s[1][1] \notin Finals
    PROVE  /\ Len(s) >= 2 /\ Tail(s) \in Seq(Entries) /\ Tail(s) # <<>> /\ Ending(Tail(s))
           /\ s[1][1] # "seal" => Phase(Tail(s)) = Phase(s)
           /\ s[1][1] = "seal" => Phase(s) = "open" /\ Phase(Tail(s)) \in {"error", "failed"}
           /\ LastOp(Tail(s)) \notin {"reset", "model", "step"}
           /\ Phase(s) \in {"before", "open"}
<1> DEFINE r == Tail(s)  n == Len(s)
<1>1. s \in Seq(Entries) /\ n \in Nat /\ n >= 1
  OBVIOUS
<1>3. n >= 2
  BY <1>1 DEF Ending
<1>4. r \in Seq(Entries) /\ Len(r) = n - 1 /\ \A k \in 1..n - 1 : r[k] = s[k + 1]
  BY <1>1, <1>3
<1>5. LastOp(r) = LastOp(s) /\ r # <<>>
  <2>1. n - 1 \in 1..n - 1 /\ (n - 1) + 1 = n
    BY <1>1, <1>3
  <2>2. r[n - 1] = s[n]
    BY <1>4, <2>1
  <2> HIDE DEF r
  <2>3. r # <<>>
    BY <1>3, <1>4, <1>1
  <2> QED
    BY <1>4, <2>2, <2>3 DEF LastOp
<1> HIDE DEF r
<1>e. Ending(s)
  OBVIOUS
<1>6. \A k \in 1..n - 1 : r[k][1] \in Finals <=> k = n - 1
  BY <1>1, <1>4, <1>e DEF Ending
<1>7. \A k \in 1..n - 1 : r[k][1] = "seal" => k = n - 2 /\ LastOp(r) \in {"error", "failed"}
  BY <1>1, <1>4, <1>5, <1>e DEF Ending
<1>8. \A k \in 1..n - 1 : r[k][1] = "swallow" => k = n - 3 /\ r[k + 1][1] = "seal"
  <2> SUFFICES ASSUME NEW k \in 1..n - 1, r[k][1] = "swallow"
               PROVE  k = n - 3 /\ r[k + 1][1] = "seal"
    OBVIOUS
  <2>1. k + 1 \in 1..n /\ s[k + 1][1] = "swallow"
    BY <1>1, <1>4
  <2>2. k + 1 = n - 2 /\ s[k + 2][1] = "seal"
    BY <2>1, <1>1, <1>e DEF Ending
  <2> QED
    BY <2>2, <1>1, <1>4
<1>9. LastOp(r) \in {"error", "failed"} => n - 1 = 1 \/ r[n - 2][1] = "seal"
  <2> SUFFICES ASSUME LastOp(s) \in {"error", "failed"}, n - 1 # 1 PROVE r[n - 2][1] = "seal"
    BY <1>5
  <2>1. s[n - 1][1] = "seal"
    BY <1>1, <1>3, <1>e DEF Ending
  <2>2. r[n - 2] = s[n - 1]
    BY <1>1, <1>3, <1>4
  <2> QED
    BY <2>1, <2>2
<1>10. LastOp(r) \notin {"reset", "model", "step"}
  BY <1>1, <1>3, <1>5, <1>e DEF Ending
<1>11. Ending(r)
  BY <1>4, <1>6, <1>7, <1>8, <1>9, <1>10, <1>1 DEF Ending
<1>15. s[1][1] # "seal" => Phase(r) = Phase(s)
  <2>1. n # 1 /\ s # <<>> /\ r # <<>> /\ LastOp(r) = LastOp(s)
    <3> HIDE DEF n
    <3>1. n # 1
      BY <1>3, <1>1
    <3> QED
      BY <1>5, <3>1
  <2>2. ASSUME s[1][1] # "seal", LastOp(s) \in {"error", "failed"} PROVE Len(r) # 1
    <3>1. s[n - 1][1] = "seal"
      BY <1>1, <1>3, <2>2, <1>e DEF Ending
    <3> QED
      BY <2>2, <3>1, <1>1, <1>3, <1>4
  <2> QED
    BY <2>1, <2>2 DEF Phase
<1>16. s[1][1] = "seal" => Phase(s) = "open" /\ Phase(r) \in {"error", "failed"}
  <2> SUFFICES ASSUME s[1][1] = "seal" PROVE Phase(s) = "open" /\ Phase(r) \in {"error", "failed"}
    OBVIOUS
  <2>1. n = 2 /\ LastOp(s) \in {"error", "failed"}
    <3>1. 1 \in 1..n
      BY <1>1
    <3>2. 1 = n - 1 /\ LastOp(s) \in {"error", "failed"}
      BY <3>1, <1>e DEF Ending
    <3> QED
      BY <3>2, <1>1
  <2> QED
    BY <2>1, <1>3, <1>4, <1>5 DEF Phase
<1>17. Phase(s) \in {"before", "open"}
  <2> HIDE DEF n
  <2>1. n # 1
    BY <1>3, <1>1
  <2> QED
    BY <2>1 DEF Phase, n
<1> QED
  BY <1>1, <1>3, <1>4, <1>5, <1>10, <1>11, <1>15, <1>16, <1>17 DEF r

\* The rest of a course is a course, whose first operation starts afresh.
LEMMA CourseTail ==
    ASSUME NEW s, Course(s), s # <<>>, s[1][1] \in Returning
    PROVE  /\ Tail(s) # <<>> /\ Course(Tail(s))
           /\ Tail(s)[1][1] \notin Carrying \cup Spawning
           /\ s[1][1] # "seal" => Phase(Tail(s)) = Phase(s)
           /\ s[1][1] = "seal" => Phase(s) = "open" /\ Phase(Tail(s)) \in {"error", "failed"}
           /\ LastOp(Tail(s)) \notin {"reset", "model", "step"}
           /\ Phase(s) \in {"before", "open"}
<1> DEFINE r == Tail(s)  n == Len(s)
<1>1. s \in Seq(Entries) /\ n \in Nat /\ n >= 1 /\ Ending(s)
  BY DEF Course
<1>2. s[1][1] \notin Finals
  BY DEF Returning, Finals, Calls, Carrying, Spawning
<1>3. /\ n >= 2 /\ r \in Seq(Entries) /\ r # <<>> /\ Ending(r)
      /\ s[1][1] # "seal" => Phase(r) = Phase(s)
      /\ s[1][1] = "seal" => Phase(s) = "open" /\ Phase(r) \in {"error", "failed"}
      /\ LastOp(r) \notin {"reset", "model", "step"}
      /\ Phase(s) \in {"before", "open"}
  BY <1>1, <1>2, EndingTail
<1>4. Len(r) = n - 1 /\ \A k \in 1..n - 1 : r[k] = s[k + 1]
  BY <1>1, <1>3
<1> HIDE DEF r
<1>b. Beginning(s)
  BY DEF Course
<1>12. \A k \in 1..n - 1 : r[k][1] \notin Spawning \cup Carrying
  <2> SUFFICES ASSUME NEW k \in 1..n - 1 PROVE r[k][1] \notin Spawning \cup Carrying
    OBVIOUS
  <2>1. k + 1 \in 2..n /\ r[k] = s[k + 1]
    BY <1>1, <1>4
  <2>2. s[1][1] \notin Spawning
    BY DEF Returning, Spawning, Calls, Carrying
  <2> QED
    BY <2>1, <2>2, <1>b DEF Beginning, Spawning, Carrying
<1>13. Beginning(r)
  BY <1>1, <1>3, <1>4, <1>12 DEF Beginning, Carrying
<1>14. r[1][1] \notin Carrying \cup Spawning
  BY <1>1, <1>3, <1>12
<1> QED
  BY <1>3, <1>13, <1>14 DEF Course, r

\* What calls may be put in front of ...
Resumes(u) ==
    /\ Course(u) /\ u # <<>> /\ u[1][1] \notin Carrying \cup Spawning
    /\ Phase(u) \in {"before", "open"} /\ LastOp(u) \notin {"reset", "model", "step"}

\* ... and the calls that may.
Prefix(p) == p \in Seq(Entries) /\ (\A k \in 1..Len(p) : p[k][1] \in Calls) /\ Beginning(p)

LEMMA RestResumes ==
    ASSUME NEW s, Course(s), s # <<>>, s[1][1] \in Returning \ {"seal"}
    PROVE  Resumes(Tail(s)) /\ Phase(Tail(s)) = Phase(s)
<1>1. s[1][1] \in Returning /\ s[1][1] # "seal"
  OBVIOUS
<1> QED
  BY <1>1, CourseTail DEF Resumes

\* A course whose first operation returns to it.
LEMMA SelfResumes ==
    ASSUME NEW s, Course(s), s # <<>>, s[1][1] \in Returning \ (Carrying \cup {"seal"})
    PROVE  Resumes(s)
<1>1. s[1][1] \notin Carrying \cup Spawning /\ s[1][1] \notin Finals
  BY DEF Returning, Calls, Spawning, Carrying, Finals
<1>2. Phase(s) \in {"before", "open"}
  BY CourseTail
<1>3. LastOp(s) \notin {"reset", "model", "step"}
  <2>1. Len(s) = 1 => s[1][1] = LastOp(s)
    BY DEF LastOp
  <2> QED
    BY <1>1, <2>1 DEF Course, Ending, Finals
<1> QED
  BY <1>1, <1>2, <1>3 DEF Resumes

LEMMA CoursePrefix ==
    ASSUME NEW u, Resumes(u), NEW p, Prefix(p)
    PROVE  Course(p \o u) /\ p \o u # <<>> /\ Phase(p \o u) = Phase(u)
<1> DEFINE r == p \o u  m == Len(p)  n == Len(u)
<1>1. u \in Seq(Entries) /\ n \in Nat /\ n >= 1 /\ p \in Seq(Entries) /\ m \in Nat
  BY DEF Resumes, Course, Prefix
<1>2. /\ r \in Seq(Entries) /\ Len(r) = m + n
      /\ \A k \in 1..m + n : r[k] = IF k <= m THEN p[k] ELSE u[k - m]
  BY <1>1
<1> HIDE DEF r, m, n
<1>3. \A k \in 1..m + n : \/ k <= m /\ k \in 1..m /\ r[k] = p[k]
                          \/ k > m /\ k - m \in 1..n /\ r[k] = u[k - m]
  BY <1>1, <1>2
<1>4. LastOp(r) = LastOp(u) /\ r # <<>>
  <2>1. m + n \in 1..m + n /\ ~(m + n <= m) /\ (m + n) - m = n
    BY <1>1
  <2>2. r[m + n] = u[n]
    BY <1>2, <2>1
  <2> QED
    BY <1>1, <1>2, <2>2 DEF LastOp, n
<1>e. Ending(u)
  BY DEF Resumes, Course
<1>p. \A k \in 1..m : p[k][1] \in Calls /\ p[k][1] \notin Finals \cup {"seal", "swallow"}
  BY DEF Prefix, Calls, Carrying, Finals, m
<1>5. \A k \in 1..m + n : r[k][1] \in Finals <=> k = m + n
  <2> TAKE k \in 1..m + n
  <2>1. CASE k \in 1..m /\ r[k] = p[k]
    BY <1>1, <1>p, <2>1
  <2>2. CASE k - m \in 1..n /\ r[k] = u[k - m]
    <3>1. u[k - m][1] \in Finals <=> k - m = n
      BY <2>2, <1>e DEF Ending, n
    <3>2. k - m = n <=> k = m + n
      BY <1>1
    <3> QED
      BY <2>2, <3>1, <3>2
  <2> QED
    BY <1>3, <2>1, <2>2
<1>6. \A k \in 1..m + n : r[k][1] = "seal" => k = (m + n) - 1 /\ LastOp(r) \in {"error", "failed"}
  <2> TAKE k \in 1..m + n
  <2>1. CASE k \in 1..m /\ r[k] = p[k]
    BY <1>p, <2>1
  <2>2. CASE k - m \in 1..n /\ r[k] = u[k - m]
    <3> SUFFICES ASSUME u[k - m][1] = "seal"
                 PROVE  k = (m + n) - 1 /\ LastOp(r) \in {"error", "failed"}
      BY <2>2
    <3>1. k - m = n - 1 /\ LastOp(u) \in {"error", "failed"}
      BY <2>2, <1>e DEF Ending, n
    <3>2. k = (m + n) - 1
      BY <1>1, <3>1
    <3> QED
      BY <1>4, <3>1, <3>2
  <2> QED
    BY <1>3, <2>1, <2>2
<1>7. \A k \in 1..m + n : r[k][1] = "swallow" => k = (m + n) - 2 /\ r[k + 1][1] = "seal"
  <2> TAKE k \in 1..m + n
  <2>1. CASE k \in 1..m /\ r[k] = p[k]
    BY <1>p, <2>1
  <2>2. CASE k > m /\ k - m \in 1..n /\ r[k] = u[k - m]
    <3> SUFFICES ASSUME u[k - m][1] = "swallow" PROVE k = (m + n) - 2 /\ r[k + 1][1] = "seal"
      BY <2>2
    <3>1. k - m = n - 2 /\ u[(k - m) + 1][1] = "seal"
      BY <2>2, <1>e DEF Ending, n
    <3>2. k + 1 \in 1..m + n /\ ~(k + 1 <= m) /\ (k + 1) - m = (k - m) + 1
      BY <1>1, <2>2, <3>1
    <3>3. r[k + 1] = u[(k - m) + 1]
      BY <1>2, <3>2
    <3>4. k = (m + n) - 2
      BY <1>1, <3>1
    <3>5. r[k + 1][1] = "seal"
      BY <3>1, <3>3
    <3> QED
      BY <3>4, <3>5
  <2> QED
    BY <1>3, <2>1, <2>2
<1>8. LastOp(r) \in {"error", "failed"} => r[(m + n) - 1][1] = "seal"
  <2> SUFFICES ASSUME LastOp(u) \in {"error", "failed"} PROVE r[(m + n) - 1][1] = "seal"
    BY <1>4
  <2>1. n # 1 /\ u # <<>>
    BY <1>1 DEF Resumes, Phase, n
  <2>2. u[n - 1][1] = "seal"
    BY <2>1, <1>e DEF Ending, n
  <2>3. (m + n) - 1 \in 1..m + n /\ ~((m + n) - 1 <= m) /\ ((m + n) - 1) - m = n - 1
    BY <1>1, <2>1
  <2> QED
    BY <1>2, <2>2, <2>3
<1>9. Ending(r)
  BY <1>1, <1>2, <1>4, <1>5, <1>6, <1>7, <1>8 DEF Ending, Resumes
<1>b. Beginning(u) /\ u[1][1] \notin Carrying \cup Spawning
  BY DEF Resumes, Course
<1>c. Beginning(p)
  BY DEF Prefix
<1>10. \A k \in 2..m + n : /\ r[k][1] \notin Spawning \cup {"check", "recycle"}
                           /\ r[k][1] \in {"stock", "join"} => k = 2 /\ r[1][1] \in Spawning
  <2> TAKE k \in 2..m + n
  <2>1. CASE k \in 1..m /\ r[k] = p[k]
    <3>1. k \in 2..m /\ 1 \in 1..m + n /\ 1 <= m
      BY <1>1, <2>1
    <3>2. r[1] = p[1]
      BY <1>2, <3>1
    <3> QED
      BY <2>1, <3>1, <3>2, <1>c DEF Beginning, m
  <2>2. CASE k - m \in 1..n /\ r[k] = u[k - m]
    <3>1. CASE k - m = 1
      BY <1>b, <2>2, <3>1 DEF Carrying, Spawning
    <3>2. CASE k - m # 1
      <4>1. k - m \in 2..n
        BY <1>1, <2>2, <3>2
      <4>2. /\ u[k - m][1] \notin Spawning \cup {"check", "recycle"}
            /\ u[k - m][1] \notin {"stock", "join"}
        BY <4>1, <1>b DEF Beginning, n
      <4> QED
        BY <2>2, <4>2
    <3> QED
      BY <3>1, <3>2
  <2>3. k \in 1..m + n
    BY <1>1
  <2> QED
    BY <1>3, <2>1, <2>2, <2>3
<1>11. Beginning(r)
  <2>1. CASE m = 0
    <3>1. r[1] = u[1]
      BY <1>1, <1>2, <2>1
    <3> QED
      BY <1>2, <1>10, <1>b, <2>1, <3>1 DEF Beginning
  <2>2. CASE m # 0
    <3>1. r[1] = p[1] /\ p # <<>>
      BY <1>1, <1>2, <2>2 DEF m
    <3>2. p[1][1] \in Carrying => p[1][2] \in Instances
      BY <3>1, <1>c DEF Beginning
    <3>3. p[1][1] \in Spawning => m + n >= 2 /\ r[2][1] \in {"stock", "join"}
      <4> SUFFICES ASSUME p[1][1] \in Spawning PROVE m + n >= 2 /\ r[2][1] \in {"stock", "join"}
        OBVIOUS
      <4>1. m >= 2 /\ p[2][1] \in {"stock", "join"}
        BY <3>1, <1>c DEF Beginning, m
      <4>2. r[2] = p[2]
        BY <1>1, <1>2, <4>1
      <4> QED
        BY <1>1, <4>1, <4>2
    <3> QED
      BY <1>2, <1>10, <3>1, <3>2, <3>3 DEF Beginning
  <2> QED
    BY <2>1, <2>2
<1>12. Phase(r) = Phase(u)
  <2>1. CASE LastOp(u) \in {"error", "failed"}
    <3>1. n # 1 /\ u # <<>>
      BY <1>1, <2>1 DEF Resumes, Phase, n
    <3>2. Len(r) # 1
      BY <1>1, <1>2, <3>1
    <3> QED
      BY <2>1, <1>4, <3>1, <3>2 DEF Phase, n
  <2>2. CASE LastOp(u) \notin {"error", "failed"}
    BY <2>2, <1>4 DEF Resumes, Phase
  <2> QED
    BY <2>1, <2>2
<1> QED
  BY <1>2, <1>4, <1>9, <1>11, <1>12 DEF Course, r

\* Two operations are taken from a course whose call spawns an instance.
LEMMA SpawnResumes ==
    ASSUME NEW s, Course(s), s # <<>>, s[1][1] \in Spawning
    PROVE  /\ s[2] \in Entries /\ s[2][1] \in {"stock", "join"} /\ Tail(s)[1] = s[2]
           /\ Tail(s) = <<s[2]>> \o Tail(Tail(s))
           /\ Resumes(Tail(Tail(s))) /\ Phase(Tail(Tail(s))) = Phase(s)
<1> DEFINE q == Tail(s)  u == Tail(q)  n == Len(s)
<1>1. s \in Seq(Entries) /\ n \in Nat /\ n >= 1 /\ Ending(s) /\ Beginning(s)
  BY DEF Course
<1>2. n >= 2 /\ s[2][1] \in {"stock", "join"} /\ s[1][1] \notin Finals \cup {"seal"}
  BY <1>1 DEF Beginning, Finals, Spawning
<1>3. /\ q \in Seq(Entries) /\ q # <<>> /\ Ending(q) /\ Phase(q) = Phase(s)
      /\ Phase(s) \in {"before", "open"}
  BY <1>1, <1>2, EndingTail
<1>4. Len(q) = n - 1 /\ \A k \in 1..n - 1 : q[k] = s[k + 1]
  BY <1>1, <1>2
<1> HIDE DEF q
<1>5. q[1] = s[2] /\ s[2] \in Entries
  BY <1>1, <1>2, <1>4
<1>6. q[1][1] \notin Finals \cup {"seal"}
  BY <1>2, <1>5 DEF Finals
<1>7. /\ Len(q) >= 2 /\ u \in Seq(Entries) /\ u # <<>> /\ Ending(u) /\ Phase(u) = Phase(q)
      /\ LastOp(u) \notin {"reset", "model", "step"}
  BY <1>3, <1>6, EndingTail
<1>8. Len(u) = n - 2 /\ \A k \in 1..n - 2 : u[k] = q[k + 1]
  BY <1>1, <1>2, <1>3, <1>4, <1>7
<1>9. q = <<s[2]>> \o u
  BY <1>3, <1>5, <1>7
<1> HIDE DEF u
<1>10. \A k \in 1..n - 2 : u[k][1] \notin Carrying \cup Spawning
  <2> TAKE k \in 1..n - 2
  <2>1. k + 1 \in 1..n - 1 /\ k + 2 \in 2..n /\ k + 2 # 2 /\ (k + 1) + 1 = k + 2
    BY <1>1
  <2>2. u[k] = s[k + 2]
    BY <1>4, <1>8, <2>1
  <2> QED
    BY <1>1, <2>1, <2>2 DEF Beginning, Carrying, Spawning
<1>11. n - 2 >= 1
  BY <1>1, <1>4, <1>7
<1>12. Beginning(u) /\ u[1][1] \notin Carrying \cup Spawning
  BY <1>1, <1>8, <1>10, <1>11 DEF Beginning, Carrying
<1> QED
  BY <1>2, <1>3, <1>5, <1>7, <1>9, <1>12 DEF Resumes, Course, u, q

LEMMA Spawned ==
    ASSUME NEW s, Course(s), s # <<>>, s[1][1] \in Spawning,
           NEW op \in {"manage", "ready"}, NEW i \in Instances
    PROVE  LET r == <<<<op, i>>>> \o Tail(s) IN
           /\ Course(r) /\ r # <<>> /\ r[1] = <<op, i>> /\ Phase(r) = Phase(s)
<1> DEFINE u == Tail(Tail(s))  e == <<op, i>>  p == <<e, s[2]>>
<1>1. /\ s[2] \in Entries /\ s[2][1] \in {"stock", "join"}
      /\ Tail(s) = <<s[2]>> \o u
      /\ Resumes(u) /\ Phase(u) = Phase(s)
  BY SpawnResumes
<1>2. e \in Entries /\ e[1] = op /\ e[2] = i
  BY DEF Entries, Calls, Carrying
<1>3. u \in Seq(Entries)
  BY <1>1 DEF Resumes, Course
<1> HIDE DEF u, e
<1>4. p \in Seq(Entries) /\ Len(p) = 2 /\ p[1] = e /\ p[2] = s[2]
  BY <1>1, <1>2
<1>5. <<e>> \o Tail(s) = p \o u /\ (p \o u)[1] = e
  BY <1>1, <1>2, <1>3
<1> HIDE DEF p
<1>6. Prefix(p)
  <2>1. \A k \in 1..2 : p[k][1] \in Calls
    BY <1>1, <1>2, <1>4 DEF Calls, Carrying
  <2>2. Beginning(p)
    BY <1>1, <1>2, <1>4 DEF Beginning, Spawning, Carrying
  <2> QED
    BY <1>4, <2>1, <2>2 DEF Prefix
<1> QED
  BY <1>1, <1>5, <1>6, CoursePrefix DEF e

\* A single call in front of what resumes.
LEMMA CallFirst ==
    ASSUME NEW u, Resumes(u), NEW op \in Calls \ Spawning, NEW i \in Instances \cup {none},
           op \in Carrying => i \in Instances
    PROVE  LET r == <<<<op, i>>>> \o u IN
           /\ Course(r) /\ r # <<>> /\ r[1] = <<op, i>> /\ Phase(r) = Phase(u)
           /\ op \notin Carrying => Resumes(r)
<1> DEFINE e == <<op, i>>  p == <<e>>
<1>1. e \in Entries /\ e[1] = op /\ e[2] = i
  BY DEF Entries
<1> HIDE DEF e
<1>2. p \in Seq(Entries) /\ Len(p) = 1 /\ p[1] = e
  BY <1>1
<1>3. (p \o u)[1] = e
  BY <1>1, <1>2 DEF Resumes, Course
<1> HIDE DEF p
<1>4. Prefix(p)
  BY <1>1, <1>2 DEF Prefix, Beginning, Spawning
<1>5. Course(p \o u) /\ p \o u # <<>> /\ Phase(p \o u) = Phase(u)
  BY <1>4, CoursePrefix
<1>6. op \notin Carrying => Resumes(p \o u)
  <2> SUFFICES ASSUME op \notin Carrying PROVE Resumes(p \o u)
    OBVIOUS
  <2>1. (p \o u)[1][1] \in Returning \ (Carrying \cup {"seal"})
    BY <1>1, <1>3 DEF Returning, Calls, Carrying
  <2> QED
    BY <1>5, <2>1, SelfResumes
<1> QED
  BY <1>3, <1>5, <1>6 DEF p, e

LEMMA CourseReady ==
    ASSUME NEW s, Course(s), s # <<>>, s[1][1] \in Spawning, NEW i \in Instances
    PROVE  LET r == <<<<Tail(s)[1][1], i>>>> \o Tail(Tail(s)) IN
           /\ Course(r) /\ r # <<>> /\ Phase(r) = Phase(s)
           /\ r[1][1] \in {"stock", "join"} /\ r[1][2] = i
<1>1. /\ s[2][1] \in {"stock", "join"} /\ Tail(s)[1] = s[2]
      /\ Resumes(Tail(Tail(s))) /\ Phase(Tail(Tail(s))) = Phase(s)
  BY SpawnResumes
<1> DEFINE u == Tail(Tail(s))  op == Tail(s)[1][1]  r == <<<<op, i>>>> \o u
<1>2. op \in Calls \ Spawning /\ op \in {"stock", "join"} /\ Resumes(u) /\ Phase(u) = Phase(s)
  BY <1>1 DEF Calls, Spawning, Carrying
<1> HIDE DEF u, op
<1>3. Course(r) /\ r # <<>> /\ r[1] = <<op, i>> /\ Phase(r) = Phase(u)
  BY <1>2, CallFirst
<1>4. r[1][1] = op /\ r[1][2] = i
  BY <1>3
<1> QED
  BY <1>2, <1>3, <1>4 DEF r, u, op

-----------------------------------------------------------------------------
(* The courses that the operations write.                                  *)

LEMMA OneOperation ==
    ASSUME NEW op \in Finals
    PROVE  LET s == <<Plain(op)>> IN
           /\ Course(s) /\ s # <<>> /\ s[1][1] = op
           /\ Phase(s) = IF op = "config" THEN "before" ELSE IF op \in {"error", "failed"} THEN op ELSE "open"
<1> DEFINE e == <<op, none>>  s == <<e>>
<1>1. e \in Entries /\ e[1] = op
  BY DEF Entries
<1> HIDE DEF e
<1>2. s \in Seq(Entries) /\ Len(s) = 1 /\ s[1] = e /\ s # <<>>
  BY <1>1
<1> HIDE DEF s
<1>3. LastOp(s) = op
  BY <1>1, <1>2 DEF LastOp
<1>4. Ending(s) /\ Beginning(s)
  BY <1>1, <1>2, <1>3 DEF Ending, Beginning, Finals, Carrying, Spawning
<1>5. Phase(s) = IF op = "config" THEN "before" ELSE IF op \in {"error", "failed"} THEN op ELSE "open"
  BY <1>2, <1>3 DEF Phase
<1> QED
  BY <1>1, <1>2, <1>4, <1>5 DEF Course, s, e, Plain

\* What an error leaves to do: the trajectory is sealed and the error returned.
LEMMA SealThen ==
    ASSUME NEW a \in Entries, NEW b \in Entries, a[1] = "seal", b[1] \in {"error", "failed"}
    PROVE  LET s == <<a, b>> IN Course(s) /\ s # <<>> /\ s[1][1] = "seal" /\ Phase(s) = "open"
<1> DEFINE s == <<a, b>>
<1>1. s \in Seq(Entries) /\ Len(s) = 2 /\ s[1] = a /\ s[2] = b /\ s # <<>>
  OBVIOUS
<1> HIDE DEF s
<1>2. LastOp(s) = b[1]
  BY <1>1 DEF LastOp
<1>3. Ending(s)
  BY <1>1, <1>2 DEF Ending, Finals
<1>4. Beginning(s)
  BY <1>1 DEF Beginning, Carrying, Spawning
<1>5. Phase(s) = "open"
  BY <1>1, <1>2 DEF Phase
<1> QED
  BY <1>1, <1>3, <1>4, <1>5 DEF Course, s

LEMMA StartCourse ==
    LET s == <<Plain("acquire"), Plain("config")>> IN
    Course(s) /\ s # <<>> /\ s[1][1] = "acquire" /\ Phase(s) = "before"
<1> DEFINE a == <<"acquire", none>>  b == <<"config", none>>  s == <<a, b>>
<1>1. a \in Entries /\ b \in Entries /\ a[1] = "acquire" /\ b[1] = "config"
  BY DEF Entries, Calls, Finals
<1> HIDE DEF a, b
<1>2. s \in Seq(Entries) /\ Len(s) = 2 /\ s[1] = a /\ s[2] = b /\ s # <<>>
  BY <1>1
<1> HIDE DEF s
<1>3. LastOp(s) = "config"
  BY <1>1, <1>2 DEF LastOp
<1>4. Ending(s)
  BY <1>1, <1>2, <1>3 DEF Ending, Finals
<1>5. Beginning(s)
  BY <1>1, <1>2 DEF Beginning, Carrying, Spawning
<1>6. Phase(s) = "before"
  BY <1>2, <1>3 DEF Phase
<1> QED
  BY <1>1, <1>2, <1>4, <1>5, <1>6 DEF Course, s, a, b, Plain

LEMMA FinishCourse ==
    LET s == <<Plain("release"), Plain("finish")>> IN
    Course(s) /\ s # <<>> /\ s[1][1] = "release" /\ Phase(s) = "open"
<1> DEFINE a == <<"release", none>>  b == <<"finish", none>>  s == <<a, b>>
<1>1. a \in Entries /\ b \in Entries /\ a[1] = "release" /\ b[1] = "finish"
  BY DEF Entries, Calls, Finals
<1> HIDE DEF a, b
<1>2. s \in Seq(Entries) /\ Len(s) = 2 /\ s[1] = a /\ s[2] = b /\ s # <<>>
  BY <1>1
<1> HIDE DEF s
<1>3. LastOp(s) = "finish"
  BY <1>1, <1>2 DEF LastOp
<1>4. Ending(s)
  BY <1>1, <1>2, <1>3 DEF Ending, Finals
<1>5. Beginning(s)
  BY <1>1, <1>2 DEF Beginning, Carrying, Spawning
<1>6. Phase(s) = "open"
  BY <1>2, <1>3 DEF Phase
<1> QED
  BY <1>1, <1>2, <1>4, <1>5, <1>6 DEF Course, s, a, b, Plain

LEMMA GiveBackCourse ==
    ASSUME NEW end \in {"error", "failed"}
    PROVE  LET s == GiveBackThen(end) IN
           Course(s) /\ s # <<>> /\ s[1][1] = "release" /\ Phase(s) = "open"
<1> DEFINE a == <<"release", none>>  b == <<"swallow", none>>  c == <<"seal", none>>  d == <<end, none>>
           s == <<a, b, c, d>>
<1>1. /\ a \in Entries /\ b \in Entries /\ c \in Entries /\ d \in Entries
      /\ a[1] = "release" /\ b[1] = "swallow" /\ c[1] = "seal" /\ d[1] = end
  BY DEF Entries, Calls, Finals
<1> HIDE DEF a, b, c, d
<1>2. /\ s \in Seq(Entries) /\ Len(s) = 4 /\ s # <<>>
      /\ s[1] = a /\ s[2] = b /\ s[3] = c /\ s[4] = d
  BY <1>1
<1> HIDE DEF s
<1>3. LastOp(s) = end
  BY <1>1, <1>2 DEF LastOp
<1>4. Ending(s)
  <2>1. \A k \in 1..4 : k = 1 \/ k = 2 \/ k = 3 \/ k = 4
    OBVIOUS
  <2> QED
    BY <1>1, <1>2, <1>3, <2>1 DEF Ending, Finals
<1>5. Beginning(s)
  <2>1. \A k \in 2..4 : k = 2 \/ k = 3 \/ k = 4
    OBVIOUS
  <2> QED
    BY <1>1, <1>2, <2>1 DEF Beginning, Carrying, Spawning
<1>6. Phase(s) = "open"
  BY <1>2, <1>3 DEF Phase
<1> QED
  BY <1>1, <1>2, <1>4, <1>5, <1>6 DEF Course, s, a, b, c, d, GiveBackThen, Plain

\* Whoever returns an error is left with the caller that ignores it, or with
\* the end of the execution.
LEMMA AbortCourse ==
    ASSUME Shape, NEW t \in Tasks, todo[t] # <<>>, Abort(t)
    PROVE  /\ todo' \in [Tasks -> Seq(Entries)] /\ \A u \in Tasks \ {t} : todo'[u] = todo[u]
           /\ Course(todo'[t]) /\ todo'[t] # <<>> /\ todo'[t][1][1] \in {"seal", "error"}
           /\ \/ Phase(todo[t]) = "open" /\ Phase(todo'[t]) = "open"
              \/ t \in inflight /\ Phase(todo'[t]) = "open"
              \/ t \notin inflight /\ Phase(todo'[t]) = "error"
<1> DEFINE s == todo[t]  n == Len(s)
<1>1. todo \in [Tasks -> Seq(Entries)] /\ Course(s)
  BY DEF Shape, Courses
<1> SUFFICES ASSUME NEW r, Course(r), r # <<>>, r[1][1] \in {"seal", "error"}, todo' = [todo EXCEPT ![t] = r],
                    \/ Phase(s) = "open" /\ Phase(r) = "open"
                    \/ t \in inflight /\ Phase(r) = "open"
                    \/ t \notin inflight /\ Phase(r) = "error"
             PROVE  /\ todo' \in [Tasks -> Seq(Entries)] /\ \A u \in Tasks \ {t} : todo'[u] = todo[u]
                    /\ todo'[t] = r
  <2>1. CASE Swallowed(t) # {}
    <3> DEFINE k == CHOOSE k \in Swallowed(t) : TRUE
               r == SubSeq(s, 1 + k, n)
    <3>1. k \in 1..n /\ s[k][1] = "swallow"
      BY <2>1 DEF Swallowed
    <3> HIDE DEF k
    <3>2. s \in Seq(Entries) /\ n \in Nat /\ Ending(s)
      BY <1>1 DEF Course
    <3>3. k = n - 2 /\ s[n - 1][1] = "seal" /\ n >= 3
      BY <3>1, <3>2 DEF Ending
    <3>4. LastOp(s) \in {"error", "failed"} /\ n - 1 \in 1..n /\ n \in 1..n
      BY <3>2, <3>3 DEF Ending
    <3>5. r = <<s[n - 1], s[n]>>
      <4>1. r \in Seq(Entries) /\ Len(r) = 2 /\ r[1] = s[n - 1] /\ r[2] = s[n]
        BY <3>2, <3>3
      <4> HIDE DEF r
      <4> QED
        BY <4>1
    <3> HIDE DEF r, s, n
    <3>6. s[n - 1] \in Entries /\ s[n] \in Entries /\ s[n][1] \in {"error", "failed"}
      BY <3>2, <3>4 DEF LastOp, n
    <3>7. Course(r) /\ r # <<>> /\ r[1][1] = "seal" /\ Phase(r) = "open"
      BY <3>3, <3>5, <3>6, SealThen
    <3>8. Phase(s) = "open"
      <4>1. n # 1
        BY <3>2, <3>3
      <4> QED
        BY <3>4, <4>1 DEF Phase, n
    <3>9. todo' = [todo EXCEPT ![t] = r]
      BY <2>1 DEF Abort, Continue, k, r, s, n
    <3> QED
      BY <3>7, <3>8, <3>9 DEF s
  <2>2. CASE Swallowed(t) = {} /\ t \in inflight
    <3>1. Plain("seal") \in Entries /\ Plain("error") \in Entries /\ Plain("seal")[1] = "seal"
          /\ Plain("error")[1] = "error"
      BY DEF Plain, Entries, Finals
    <3>2. todo' = [todo EXCEPT ![t] = <<Plain("seal"), Plain("error")>>]
      BY <2>2 DEF Abort, Continue
    <3> QED
      BY <2>2, <3>1, <3>2, SealThen
  <2>3. CASE Swallowed(t) = {} /\ t \notin inflight
    <3>1. todo' = [todo EXCEPT ![t] = <<Plain("error")>>] /\ "error" \in Finals
      BY <2>3 DEF Abort, Continue, Finals
    <3> QED
      BY <2>3, <3>1, OneOperation
  <2> QED
    BY <2>1, <2>2, <2>3
<1> QED
  BY <1>1 DEF Course

-----------------------------------------------------------------------------
(* What each operation leaves to do.                                       *)

Moves(t) ==
    /\ todo' \in [Tasks -> Seq(Entries)] /\ \A u \in Tasks \ {t} : todo'[u] = todo[u]
    /\ Course(todo'[t]) /\ todo'[t] # <<>>

\* The phase stays, or the operation fails.
Proceeds(t) ==
    /\ Moves(t)
    /\ \/ Phase(todo'[t]) = Phase(todo[t])
       \/ t \in inflight /\ Phase(todo'[t]) = "open"
       \/ t \notin inflight /\ Phase(todo'[t]) = "error"

LEMMA Goes ==
    ASSUME Shape, NEW t \in Tasks, NEW r, Continue(t, r), Course(r), r # <<>>
    PROVE  Moves(t) /\ todo'[t] = r
BY DEF Shape, Continue, Moves, Course

LEMMA Aborts ==
    ASSUME Shape, NEW t \in Tasks, todo[t] # <<>>, Abort(t)
    PROVE  Proceeds(t) /\ Carry(t)' = {}
<1>1. Proceeds(t) /\ todo'[t][1][1] \in {"seal", "error"}
  BY AbortCourse DEF Proceeds, Moves
<1> QED
  BY <1>1 DEF Carry, Op, Carrying

\* The call at work returns to the rest.
LEMMA Returns ==
    ASSUME Shape, NEW t \in Tasks, NEW op \in Returning \ {"seal"}, At(t, op)
    PROVE  /\ Resumes(Rest(t)) /\ Phase(Rest(t)) = Phase(todo[t]) /\ Course(Rest(t)) /\ Rest(t) # <<>>
           /\ Rest(t)[1][1] \notin Carrying
           /\ todo[t] # <<>> /\ todo[t][1][1] = op
           /\ op \in Carrying => Arg(t) \in Instances /\ Carry(t) = {Arg(t)}
<1>1. Course(todo[t]) /\ todo[t] # <<>> /\ todo[t][1][1] = op /\ op \in Returning /\ op # "seal"
  BY DEF Shape, Courses, At, Op
<1>2. Resumes(Tail(todo[t])) /\ Phase(Tail(todo[t])) = Phase(todo[t])
  BY <1>1, RestResumes
<1>3. op \in Carrying => Arg(t) \in Instances /\ Carry(t) = {Arg(t)}
  BY <1>1 DEF Course, Beginning, Carry, Arg, Op
<1> QED
  BY <1>1, <1>2, <1>3 DEF Rest, Resumes

\* One call before the rest.
LEMMA CallsFirst ==
    ASSUME Shape, NEW t \in Tasks, NEW u, Resumes(u), Phase(u) = Phase(todo[t]),
           NEW op \in Calls \ Spawning, NEW i \in Instances \cup {none},
           op \in Carrying => i \in Instances,
           Continue(t, <<<<op, i>>>> \o u)
    PROVE  /\ Proceeds(t)
           /\ Carry(t)' = IF op \in Carrying THEN {i} ELSE {}
<1> DEFINE r == <<<<op, i>>>> \o u
<1>1. Course(r) /\ r # <<>> /\ r[1] = <<op, i>> /\ Phase(r) = Phase(u)
  BY CallFirst
<1>2. r[1][1] = op /\ r[1][2] = i
  BY <1>1
<1>3. Continue(t, r)
  OBVIOUS
<1> HIDE DEF r
<1>4. Moves(t) /\ todo'[t] = r
  BY <1>1, <1>3, Goes
<1> QED
  BY <1>1, <1>2, <1>4 DEF Proceeds, Carry, Op, Arg

\* Several calls before the rest, the first of which carries nothing.
LEMMA ManyFirst ==
    ASSUME Shape, NEW t \in Tasks, NEW u, Resumes(u), Phase(u) = Phase(todo[t]),
           NEW p, Prefix(p), p # <<>> => p[1][1] \notin Carrying,
           Continue(t, p \o u)
    PROVE  Proceeds(t) /\ Carry(t)' = {}
<1> DEFINE r == p \o u
<1>1. Course(r) /\ r # <<>> /\ Phase(r) = Phase(u)
  BY CoursePrefix
<1>2. r[1][1] \notin Carrying
  <2>1. p \in Seq(Entries) /\ u \in Seq(Entries) /\ u # <<>> /\ u[1][1] \notin Carrying
    BY DEF Prefix, Resumes, Course
  <2>2. p = <<>> => r[1] = u[1]
    BY <2>1
  <2>3. p # <<>> => r[1] = p[1]
    BY <2>1
  <2> QED
    BY <2>1, <2>2, <2>3
<1>3. Continue(t, r)
  OBVIOUS
<1> HIDE DEF r
<1>4. Moves(t) /\ todo'[t] = r
  BY <1>1, <1>3, Goes
<1> QED
  BY <1>1, <1>2, <1>4 DEF Proceeds, Carry, Op

\* The rest alone.
LEMMA RestOnly ==
    ASSUME Shape, NEW t \in Tasks, NEW op \in Returning \ {"seal"}, At(t, op), Continue(t, Rest(t))
    PROVE  Proceeds(t) /\ Carry(t)' = {}
<1>1. /\ Phase(Rest(t)) = Phase(todo[t]) /\ Course(Rest(t)) /\ Rest(t) # <<>>
      /\ Rest(t)[1][1] \notin Carrying
  BY Returns
<1>2. Moves(t) /\ todo'[t] = Rest(t)
  BY <1>1, Goes
<1> QED
  BY <1>1, <1>2 DEF Proceeds, Carry, Op

\* Two or three calls that carry nothing.
LEMMA PlainPrefix ==
    ASSUME NEW p \in Seq(Entries), \A k \in 1..Len(p) : p[k][1] \in Calls \ (Spawning \cup Carrying)
    PROVE  Prefix(p) /\ (p # <<>> => p[1][1] \notin Carrying)
<1>1. p # <<>> => p[1][1] \in Calls \ (Spawning \cup Carrying)
  OBVIOUS
<1>2. \A k \in 2..Len(p) : p[k][1] \in Calls \ (Spawning \cup Carrying)
  OBVIOUS
<1> QED
  BY <1>1, <1>2 DEF Prefix, Beginning, Carrying

LEMMA PairPrefix ==
    ASSUME NEW o1 \in Calls \ (Spawning \cup Carrying), NEW o2 \in Calls \ (Spawning \cup Carrying),
           NEW i1 \in Instances \cup {none}, NEW i2 \in Instances \cup {none}
    PROVE  LET p == <<<<o1, i1>>, <<o2, i2>>>> IN Prefix(p) /\ p # <<>> /\ p[1][1] \notin Carrying
<1> DEFINE a == <<o1, i1>>  b == <<o2, i2>>  p == <<a, b>>
<1>1. a \in Entries /\ b \in Entries /\ a[1] = o1 /\ b[1] = o2
  BY DEF Entries
<1> HIDE DEF a, b
<1>2. p \in Seq(Entries) /\ Len(p) = 2 /\ p[1] = a /\ p[2] = b /\ p # <<>>
  BY <1>1
<1> HIDE DEF p
<1>3. \A k \in 1..Len(p) : p[k][1] \in Calls \ (Spawning \cup Carrying)
  BY <1>1, <1>2
<1> QED
  BY <1>2, <1>3, PlainPrefix DEF p, a, b

\* A call that spawns an instance for the next.
LEMMA SpawnPrefix ==
    ASSUME NEW op \in {"join", "stock"}
    PROVE  LET p == <<Plain("spawn"), Plain(op)>> IN Prefix(p) /\ p # <<>> /\ p[1][1] \notin Carrying
<1> DEFINE a == <<"spawn", none>>  b == <<op, none>>  p == <<a, b>>
<1>1. a \in Entries /\ b \in Entries /\ a[1] = "spawn" /\ b[1] = op
  BY DEF Entries, Calls, Carrying
<1> HIDE DEF a, b
<1>2. p \in Seq(Entries) /\ Len(p) = 2 /\ p[1] = a /\ p[2] = b /\ p # <<>>
  BY <1>1
<1> HIDE DEF p
<1>3. Prefix(p) /\ p[1][1] \notin Carrying
  BY <1>1, <1>2 DEF Prefix, Beginning, Spawning, Carrying, Calls
<1> QED
  BY <1>2, <1>3 DEF p, a, b, Plain

-----------------------------------------------------------------------------
(* The calls of the pool and the host.                                     *)

LEMMA Kinds ==
    /\ {"acquire", "fill", "destroy", "close", "forget", "release", "evict"} \subseteq Calls \ (Spawning \cup Carrying)
    /\ {"acquire", "fill", "destroy", "close", "forget", "release", "evict"} \subseteq Returning \ (Carrying \cup {"seal"})
    /\ {"check", "join", "stock", "recycle"} \subseteq (Calls \ Spawning) \cap Carrying
    /\ {"check", "join", "stock", "recycle"} \subseteq Returning \ {"seal"}
    /\ "swallow" \in Returning \ {"seal"}
    /\ \A x : Plain(x) = <<x, none>>
BY DEF Calls, Carrying, Spawning, Returning, Plain

LEMMA AcquireWarmMoves ==
    ASSUME Shape, NEW t \in Tasks, AcquireWarm(t)
    PROVE  /\ Proceeds(t) /\ Carry(t) = {}
           /\ Carry(t)' = IF queue # <<>> THEN {Head(queue)} ELSE {}
<1>1. /\ Resumes(Rest(t)) /\ Phase(Rest(t)) = Phase(todo[t])
      /\ todo[t] # <<>> /\ todo[t][1][1] = "acquire"
  BY Kinds, Returns DEF AcquireWarm
<1>2. Carry(t) = {}
  BY <1>1 DEF Carry, Op, Carrying
<1>3. CASE queue # <<>>
  <2>1. Head(queue) \in Instances /\ Continue(t, <<<<"check", Head(queue)>>>> \o Rest(t))
    BY <1>3 DEF AcquireWarm, Shape
  <2>2. "check" \in Calls \ Spawning /\ "check" \in Carrying
    BY Kinds
  <2> QED
    BY <1>1, <1>2, <1>3, <2>1, <2>2, CallsFirst
<1>4. CASE queue = <<>>
  <2>1. Continue(t, <<Plain("spawn"), Plain("join")>> \o Rest(t))
    BY <1>4 DEF AcquireWarm
  <2> QED
    BY <1>1, <1>2, <1>4, <2>1, SpawnPrefix, ManyFirst
<1> QED
  BY <1>3, <1>4

\* <<destroy i>>, fill and acquire again.
LEMMA RetryPrefix ==
    ASSUME NEW i \in Instances
    PROVE  LET p == <<<<"destroy", i>>, Plain("fill"), Plain("acquire")>> IN
           Prefix(p) /\ p # <<>> /\ p[1][1] \notin Carrying
<1> DEFINE a == <<"destroy", i>>  b == <<"fill", none>>  c == <<"acquire", none>>  p == <<a, b, c>>
<1>1. /\ a \in Entries /\ b \in Entries /\ c \in Entries
      /\ a[1] = "destroy" /\ b[1] = "fill" /\ c[1] = "acquire"
  BY DEF Entries, Calls
<1> HIDE DEF a, b, c
<1>2. p \in Seq(Entries) /\ Len(p) = 3 /\ p[1] = a /\ p[2] = b /\ p[3] = c /\ p # <<>>
  BY <1>1
<1> HIDE DEF p
<1>3. \A k \in 1..Len(p) : p[k][1] \in Calls \ (Spawning \cup Carrying)
  <2>1. \A k \in 1..3 : k = 1 \/ k = 2 \/ k = 3
    OBVIOUS
  <2> QED
    BY <1>1, <1>2, <2>1, Kinds
<1> QED
  BY <1>2, <1>3, PlainPrefix DEF p, a, b, c, Plain

\* A candidate found healthy is leased; otherwise it is destroyed or the call fails.
LEMMA CheckCandidateMoves ==
    ASSUME Shape, NEW t \in Tasks, CheckCandidate(t)
    PROVE  /\ Proceeds(t) /\ Carry(t) = {Arg(t)} /\ Arg(t) \in Instances /\ Carry(t)' = {}
           /\ lease' \in {lease, [lease EXCEPT ![t] = Arg(t)]}
<1>1. /\ Resumes(Rest(t)) /\ Phase(Rest(t)) = Phase(todo[t]) /\ todo[t] # <<>>
      /\ Carry(t) = {Arg(t)} /\ Arg(t) \in Instances
  BY Kinds, Returns DEF CheckCandidate
<1>2. CASE Abort(t) /\ UNCHANGED lease
  BY <1>1, <1>2, Aborts
<1>3. CASE Continue(t, <<Plain("fill")>> \o Rest(t)) /\ lease' = [lease EXCEPT ![t] = Arg(t)]
  <2>1. "fill" \in Calls \ Spawning /\ "fill" \notin Carrying /\ Continue(t, <<<<"fill", none>>>> \o Rest(t))
    BY <1>3, Kinds
  <2> QED
    BY <1>1, <1>3, <2>1, CallsFirst
<1>4. CASE Continue(t, <<<<"destroy", Arg(t)>>, Plain("fill"), Plain("acquire")>> \o Rest(t)) /\ UNCHANGED lease
  BY <1>1, <1>4, RetryPrefix, ManyFirst
<1> QED
  BY <1>2, <1>3, <1>4 DEF CheckCandidate

LEMMA AcquireNewMoves ==
    ASSUME Shape, NEW t \in Tasks, AcquireNew(t)
    PROVE  /\ Proceeds(t) /\ Carry(t) = {Arg(t)} /\ Arg(t) \in Instances /\ Carry(t)' = {}
           /\ lease' \in {lease, [lease EXCEPT ![t] = Arg(t)]}
<1>1. /\ Resumes(Rest(t)) /\ Phase(Rest(t)) = Phase(todo[t]) /\ todo[t] # <<>>
      /\ Carry(t) = {Arg(t)} /\ Arg(t) \in Instances
  BY Kinds, Returns DEF AcquireNew
<1>2. CASE Abort(t) /\ UNCHANGED lease
  BY <1>1, <1>2, Aborts
<1>3. CASE Continue(t, <<Plain("fill")>> \o Rest(t)) /\ lease' = [lease EXCEPT ![t] = Arg(t)]
  <2>1. "fill" \in Calls \ Spawning /\ "fill" \notin Carrying /\ Continue(t, <<<<"fill", none>>>> \o Rest(t))
    BY <1>3, Kinds
  <2> QED
    BY <1>1, <1>3, <2>1, CallsFirst
<1> QED
  BY <1>2, <1>3 DEF AcquireNew

LEMMA FillPoolMoves ==
    ASSUME Shape, NEW t \in Tasks, fill_pool(t)
    PROVE  Proceeds(t) /\ Carry(t)' = {}
<1>1. At(t, "fill") /\ Course(todo[t]) /\ todo[t] # <<>> /\ todo[t][1][1] = "fill"
  BY DEF fill_pool, Shape, Courses, At, Op
<1>2. CASE Continue(t, Rest(t))
  BY <1>1, <1>2, Kinds, RestOnly
<1>3. CASE Continue(t, <<Plain("spawn"), Plain("stock")>> \o todo[t])
  <2>1. Resumes(todo[t])
    BY <1>1, Kinds, SelfResumes
  <2> QED
    BY <1>3, <2>1, SpawnPrefix, ManyFirst
<1> QED
  BY <1>2, <1>3 DEF fill_pool

LEMMA FillStockMoves ==
    ASSUME Shape, NEW t \in Tasks, FillStock(t)
    PROVE  Proceeds(t) /\ Carry(t) = {Arg(t)} /\ Arg(t) \in Instances /\ Carry(t)' = {}
<1>1. Carry(t) = {Arg(t)} /\ Arg(t) \in Instances
  BY Kinds, Returns DEF FillStock
<1> QED
  BY <1>1, Kinds, RestOnly DEF FillStock

\* Calls that spawn.
LEMMA SpawnsMove ==
    ASSUME Shape, NEW t \in Tasks, NEW op \in Spawning, At(t, op), NEW i \in Instances,
           NEW next \in {"manage", "ready"}, Continue(t, <<<<next, i>>>> \o Rest(t))
    PROVE  Proceeds(t) /\ Carry(t)' = {i}
<1>1. Course(todo[t]) /\ todo[t] # <<>> /\ todo[t][1][1] \in Spawning
  BY DEF Shape, Courses, At, Op
<1> DEFINE r == <<<<next, i>>>> \o Tail(todo[t])
<1>2. Course(r) /\ r # <<>> /\ r[1] = <<next, i>> /\ Phase(r) = Phase(todo[t])
  BY <1>1, Spawned
<1>3. r[1][1] = next /\ r[1][2] = i /\ next \in Carrying
  BY <1>2 DEF Carrying
<1>4. Continue(t, r)
  BY DEF Rest
<1> HIDE DEF r
<1>5. Moves(t) /\ todo'[t] = r
  BY <1>2, <1>4, Goes
<1> QED
  BY <1>2, <1>3, <1>5 DEF Proceeds, Carry, Op, Arg

LEMMA SpawnMoves ==
    ASSUME Shape, NEW t \in Tasks, spawn(t)
    PROVE  /\ Proceeds(t) /\ Carry(t) = {}
           /\ \/ \E i \in Instances \ used : used' = used \cup {i} /\ Carry(t)' = {i}
              \/ used' = used /\ Carry(t)' = {}
<1>1. At(t, "spawn") /\ todo[t] # <<>> /\ Carry(t) = {}
  BY DEF spawn, At, Carry, Carrying
<1>2. CASE Abort(t) /\ used' = used
  BY <1>1, <1>2, Aborts
<1>3. ASSUME NEW i \in Instances \ used, used' = used \cup {i}, Continue(t, <<<<"manage", i>>>> \o Rest(t))
      PROVE  Proceeds(t) /\ Carry(t)' = {i}
  <2>1. "spawn" \in Spawning
    BY DEF Spawning
  <2> QED
    BY <1>1, <1>3, <2>1, SpawnsMove
<1> QED
  BY <1>1, <1>2, <1>3 DEF spawn

LEMMA SpawnManagedMoves ==
    ASSUME Shape, NEW t \in Tasks, SpawnManaged(t)
    PROVE  Proceeds(t) /\ Carry(t)' \subseteq Carry(t)
<1>1. At(t, "manage") /\ todo[t] # <<>> /\ Carry(t) = {Arg(t)} /\ Arg(t) \in Instances
  <2>1. At(t, "manage") /\ Course(todo[t]) /\ todo[t] # <<>>
    BY DEF SpawnManaged, At, Shape, Courses
  <2> QED
    BY <2>1 DEF At, Carry, Carrying, Op, Arg, Course, Beginning
<1>2. CASE Abort(t)
  BY <1>1, <1>2, Aborts
<1>3. CASE Continue(t, <<<<"ready", Arg(t)>>>> \o Rest(t))
  <2>1. "manage" \in Spawning
    BY DEF Spawning
  <2> QED
    BY <1>1, <1>3, <2>1, SpawnsMove
<1> QED
  BY <1>2, <1>3 DEF SpawnManaged

LEMMA WaitPluginReadyMoves ==
    ASSUME Shape, NEW t \in Tasks, wait_plugin_ready(t)
    PROVE  Proceeds(t) /\ Carry(t)' \subseteq Carry(t)
<1>1. /\ At(t, "ready") /\ todo[t] # <<>> /\ Carry(t) = {Arg(t)} /\ Arg(t) \in Instances
      /\ Course(todo[t]) /\ todo[t][1][1] \in Spawning
  <2>1. At(t, "ready") /\ Course(todo[t]) /\ todo[t] # <<>>
    BY DEF wait_plugin_ready, At, Shape, Courses
  <2> QED
    BY <2>1 DEF At, Carry, Carrying, Spawning, Op, Arg, Course, Beginning
<1>2. CASE Abort(t)
  BY <1>1, <1>2, Aborts
<1>3. CASE Continue(t, <<<<Rest(t)[1][1], Arg(t)>>>> \o Tail(Rest(t)))
  <2> DEFINE i == Arg(t)  r == <<<<Tail(todo[t])[1][1], i>>>> \o Tail(Tail(todo[t]))
  <2>1. Continue(t, r)
    BY <1>3 DEF Rest
  <2>2. i \in Instances
    BY <1>1
  <2> HIDE DEF i
  <2>3. /\ Course(r) /\ r # <<>> /\ Phase(r) = Phase(todo[t])
        /\ r[1][1] \in {"stock", "join"} /\ r[1][2] = i
    BY <1>1, <2>2, CourseReady
  <2> HIDE DEF r
  <2>4. Moves(t) /\ todo'[t] = r
    BY <2>1, <2>3, Goes
  <2>5. Carry(t)' = {i}
    BY <2>3, <2>4 DEF Carry, Op, Arg, Carrying
  <2> QED
    BY <1>1, <2>3, <2>4, <2>5 DEF Proceeds, i
<1> QED
  BY <1>2, <1>3 DEF wait_plugin_ready

LEMMA DestroyMoves ==
    ASSUME Shape, NEW t \in Tasks, destroy_instance(t)
    PROVE  Proceeds(t) /\ Carry(t)' = {}
<1>1. /\ At(t, "destroy") /\ Resumes(Rest(t)) /\ Phase(Rest(t)) = Phase(todo[t])
  BY Kinds, Returns DEF destroy_instance
<1>2. CASE Continue(t, Rest(t))
  BY <1>1, <1>2, Kinds, RestOnly
<1>3. CASE Continue(t, <<<<"close", Arg(t)>>, <<"forget", Arg(t)>>>> \o Rest(t))
  <2> DEFINE i == Arg(t)
  <2>1. i \in Instances \cup {none}
    <3>1. todo[t] \in Seq(Entries) /\ todo[t] # <<>>
      BY DEF destroy_instance, At, Shape
    <3>2. todo[t][1] \in Entries
      BY <3>1
    <3> QED
      BY <3>2 DEF Entries, Arg
  <2> HIDE DEF i
  <2>2. LET p == <<<<"close", i>>, <<"forget", i>>>> IN Prefix(p) /\ p # <<>> /\ p[1][1] \notin Carrying
    BY <2>1, Kinds, PairPrefix
  <2> QED
    BY <1>1, <1>3, <2>2, ManyFirst DEF i
<1> QED
  BY <1>2, <1>3 DEF destroy_instance

LEMMA CloseForgetMove ==
    ASSUME Shape, NEW t \in Tasks, close(t) \/ ForgetDestroyed(t)
    PROVE  Proceeds(t) /\ Carry(t)' = {}
BY Kinds, RestOnly DEF close, ForgetDestroyed

\* The instance that is given back is reset and put back, or destroyed.
LEMMA ReleaseMoves ==
    ASSUME Shape, NEW t \in Tasks, release(t)
    PROVE  Proceeds(t) /\ Carry(t)' \subseteq {lease[t]} \cap Instances
<1>1. /\ At(t, "release") /\ Resumes(Rest(t)) /\ Phase(Rest(t)) = Phase(todo[t]) /\ todo[t] # <<>>
  BY Kinds, Returns DEF release
<1> DEFINE i == lease[t]
<1>a. active \subseteq Instances
  BY DEF Shape
<1>2. CASE Abort(t)
  BY <1>1, <1>2, Aborts
<1>3. CASE Continue(t, Rest(t))
  BY <1>1, <1>3, Kinds, RestOnly
<1>4. CASE i \in Instances /\ Continue(t, <<<<"destroy", i>>, Plain("fill")>> \o Rest(t))
  <2> HIDE DEF i
  <2>1. LET p == <<<<"destroy", i>>, <<"fill", none>>>> IN Prefix(p) /\ p # <<>> /\ p[1][1] \notin Carrying
    BY <1>4, Kinds, PairPrefix
  <2> QED
    BY <1>1, <1>4, <2>1, Kinds, ManyFirst
<1>5. CASE i \in Instances /\ Continue(t, <<<<"recycle", i>>>> \o Rest(t))
  <2> HIDE DEF i
  <2>1. "recycle" \in Calls \ Spawning
    BY Kinds
  <2>2. Proceeds(t) /\ Carry(t)' \subseteq {i}
    BY <1>1, <1>5, <2>1, CallsFirst
  <2> QED
    BY <1>5, <2>2 DEF i
<1> QED
  BY <1>a, <1>2, <1>3, <1>4, <1>5 DEF release

LEMMA RecycleMoves ==
    ASSUME Shape, NEW t \in Tasks, ReleaseRecycle(t)
    PROVE  Proceeds(t) /\ Carry(t) = {Arg(t)} /\ Arg(t) \in Instances /\ Carry(t)' = {}
<1>1. /\ Resumes(Rest(t)) /\ Phase(Rest(t)) = Phase(todo[t]) /\ todo[t] # <<>>
      /\ Carry(t) = {Arg(t)} /\ Arg(t) \in Instances
  BY Kinds, Returns DEF ReleaseRecycle
<1>2. CASE Continue(t, <<Plain("evict"), Plain("fill")>> \o Rest(t))
  <2>1. LET p == <<<<"evict", none>>, <<"fill", none>>>> IN Prefix(p) /\ p # <<>> /\ p[1][1] \notin Carrying
    BY Kinds, PairPrefix
  <2> QED
    BY <1>1, <1>2, <2>1, Kinds, ManyFirst
<1>3. CASE Continue(t, <<<<"destroy", Arg(t)>>, Plain("fill")>> \o Rest(t))
  <2> DEFINE i == Arg(t)
  <2>1. i \in Instances
    BY <1>1
  <2> HIDE DEF i
  <2>2. LET p == <<<<"destroy", i>>, <<"fill", none>>>> IN Prefix(p) /\ p # <<>> /\ p[1][1] \notin Carrying
    BY <2>1, Kinds, PairPrefix
  <2> QED
    BY <1>1, <1>3, <2>2, Kinds, ManyFirst DEF i
<1> QED
  BY <1>1, <1>2, <1>3 DEF ReleaseRecycle

LEMMA EvictMoves ==
    ASSUME Shape, NEW t \in Tasks, evict_idle(t)
    PROVE  Proceeds(t) /\ Carry(t)' = {}
<1>1. Resumes(Rest(t)) /\ Phase(Rest(t)) = Phase(todo[t])
  BY Kinds, Returns DEF evict_idle
<1>2. PICK idle \in SUBSET (InQueue \cap DOMAIN tracked) :
         LET listed == Keep(queue, idle) IN
         Continue(t, [k \in 1..Len(listed) |-> <<"destroy", listed[k]>>] \o Rest(t))
  BY DEF evict_idle
<1> DEFINE listed == Keep(queue, idle)
           p == [k \in 1..Len(listed) |-> <<"destroy", listed[k]>>]
<1>3. listed \in Seq(Instances)
  BY KeepProperties DEF Shape
<1>4. Continue(t, p \o Rest(t))
  BY <1>2
<1> HIDE DEF listed
<1>5. p \in Seq(Entries) /\ \A k \in 1..Len(p) : p[k][1] \in Calls \ (Spawning \cup Carrying)
  <2>1. \A k \in 1..Len(listed) : <<"destroy", listed[k]>> \in Entries
    BY <1>3 DEF Entries, Calls
  <2>2. Len(listed) \in Nat
    BY <1>3
  <2>3. p \in Seq(Entries) /\ Len(p) = Len(listed)
    BY <2>1, <2>2
  <2> QED
    BY <2>3, Kinds
<1> HIDE DEF p
<1>6. Prefix(p) /\ (p # <<>> => p[1][1] \notin Carrying)
  BY <1>5, PlainPrefix
<1> QED
  BY <1>1, <1>4, <1>6, ManyFirst

-----------------------------------------------------------------------------
(* The last operations.                                                    *)

\* An operation that replaces the course is all there is to do.
LEMMA HeadFinal ==
    ASSUME Shape, NEW t \in Tasks, NEW op \in Finals, At(t, op)
    PROVE  /\ todo[t] # <<>> /\ Carry(t) = {}
           /\ Phase(todo[t]) = IF op = "config" THEN "before"
                               ELSE IF op \in {"error", "failed"} THEN op ELSE "open"
<1> DEFINE s == todo[t]  n == Len(s)
<1>1. s \in Seq(Entries) /\ n \in Nat /\ n >= 1 /\ s # <<>> /\ s[1][1] = op /\ Ending(s)
  BY DEF Shape, Courses, Course, At, Op
<1> HIDE DEF n
<1>2. n = 1
  <2>1. 1 \in 1..Len(s)
    BY <1>1
  <2>2. s[1][1] \in Finals <=> 1 = Len(s)
    BY <1>1, <2>1 DEF Ending
  <2> QED
    BY <1>1, <2>2 DEF n
<1>3. LastOp(s) = op
  BY <1>1, <1>2 DEF LastOp, n
<1>4. Carry(t) = {}
  BY <1>1 DEF Carry, Op, Finals, Carrying
<1> QED
  BY <1>1, <1>2, <1>3, <1>4 DEF Phase, n

\* One last operation, a release or nothing is put in its place.
LEMMA Replaces ==
    ASSUME Shape, NEW t \in Tasks, NEW r, Continue(t, r), Course(r),
           r # <<>> => r[1][1] \notin Carrying
    PROVE  /\ todo' \in [Tasks -> Seq(Entries)] /\ \A u \in Tasks \ {t} : todo'[u] = todo[u]
           /\ Course(todo'[t]) /\ todo'[t] = r /\ Carry(t)' = {}
<1>1. /\ todo' \in [Tasks -> Seq(Entries)] /\ \A u \in Tasks \ {t} : todo'[u] = todo[u]
      /\ todo'[t] = r
  BY DEF Shape, Continue, Course
<1> QED
  BY <1>1 DEF Carry, Op

LEMMA NothingLeft == Course(<<>>) /\ Phase(<<>>) = "none"
<1>1. <<>> \in Seq(Entries) /\ Len(<<>>) = 0
  OBVIOUS
<1> QED
  BY <1>1 DEF Course, Ending, Beginning, Phase

\* The course of t, as Books sees it: which phase follows which.
LEMMA ExecuteMoves ==
    ASSUME Shape, NEW t \in Tasks, execute_episode(t)
    PROVE  /\ todo[t] = <<>> /\ Carry(t)' = {} /\ ended[t] = "no"
           /\ \/ Moves(t) /\ Phase(todo'[t]) = "before" /\ ended' = ended
              \/ todo' = todo /\ ended' = [ended EXCEPT ![t] = "refused"]
<1>1. todo[t] = <<>> /\ ended[t] = "no"
  BY DEF execute_episode
<1>2. CASE Continue(t, <<Plain("acquire"), Plain("config")>>) /\ UNCHANGED ended
  <2> DEFINE r == <<Plain("acquire"), Plain("config")>>
  <2>1. Course(r) /\ r # <<>> /\ r[1][1] = "acquire" /\ Phase(r) = "before"
    BY StartCourse
  <2>2. Continue(t, r)
    BY <1>2
  <2> HIDE DEF r
  <2> QED
    BY <1>1, <1>2, <2>1, <2>2, Replaces DEF Moves, Carrying
<1>3. CASE UNCHANGED todo /\ ended' = [ended EXCEPT ![t] = "refused"]
  BY <1>1, <1>3 DEF Carry
<1> QED
  BY <1>1, <1>2, <1>3 DEF execute_episode

LEMMA ResetConfigMoves ==
    ASSUME Shape, NEW t \in Tasks, ResetConfig(t)
    PROVE  /\ Moves(t) /\ Carry(t)' = {} /\ todo[t] # <<>> /\ Phase(todo[t]) = "before"
           /\ \/ inflight' = inflight \cup {t} /\ Phase(todo'[t]) = "open"
              \/ inflight' = inflight /\ Proceeds(t)
<1>1. todo[t] # <<>> /\ Phase(todo[t]) = "before"
  BY HeadFinal DEF ResetConfig, Finals
<1>2. CASE inflight' = inflight \cup {t} /\ Continue(t, <<Plain("reset")>>)
  <2> DEFINE r == <<Plain("reset")>>
  <2>1. Course(r) /\ r # <<>> /\ r[1][1] = "reset" /\ Phase(r) = "open"
    BY OneOperation DEF Finals
  <2>2. Continue(t, r)
    BY <1>2
  <2> HIDE DEF r
  <2> QED
    BY <1>1, <1>2, <2>1, <2>2, Replaces DEF Moves, Carrying
<1>3. CASE Abort(t) /\ UNCHANGED inflight
  BY <1>1, <1>3, Aborts DEF Proceeds
<1> QED
  BY <1>2, <1>3 DEF ResetConfig

\* reset, model and step follow one another, or the instance is given back.
LEMMA LoopMoves ==
    ASSUME Shape, NEW t \in Tasks, reset(t) \/ infer(t) \/ step(t)
    PROVE  Proceeds(t) /\ Carry(t)' = {} /\ todo[t] # <<>> /\ Phase(todo[t]) = "open"
<1>1. todo[t] # <<>> /\ Phase(todo[t]) = "open"
  BY HeadFinal DEF reset, infer, step, Finals
<1>2. CASE Abort(t)
  BY <1>1, <1>2, Aborts
<1>3. ASSUME NEW r, Continue(t, r), Course(r), r # <<>>, r[1][1] \notin Carrying, Phase(r) = "open"
      PROVE  Proceeds(t) /\ Carry(t)' = {}
  BY <1>1, <1>3, Replaces DEF Proceeds, Moves
<1>4. ASSUME NEW op \in {"model", "step"}, Continue(t, <<Plain(op)>>)
      PROVE  Proceeds(t) /\ Carry(t)' = {}
  <2> DEFINE r == <<Plain(op)>>
  <2>1. Course(r) /\ r # <<>> /\ r[1][1] = op /\ Phase(r) = "open"
    BY OneOperation DEF Finals
  <2>2. Continue(t, r) /\ op \notin Carrying
    BY <1>4 DEF Carrying
  <2> HIDE DEF r
  <2> QED
    BY <1>3, <2>1, <2>2
<1>5. ASSUME NEW end \in {"error", "failed"}, Continue(t, GiveBackThen(end))
      PROVE  Proceeds(t) /\ Carry(t)' = {}
  <2>1. "release" \notin Carrying
    BY DEF Carrying
  <2> QED
    BY <1>3, <1>5, <2>1, GiveBackCourse
<1>6. ASSUME Continue(t, <<Plain("release"), Plain("finish")>>)
      PROVE  Proceeds(t) /\ Carry(t)' = {}
  <2>1. "release" \notin Carrying
    BY DEF Carrying
  <2> QED
    BY <1>3, <1>6, <2>1, FinishCourse
<1>7. \/ Abort(t) \/ \E op \in {"model", "step"} : Continue(t, <<Plain(op)>>)
      \/ \E end \in {"error", "failed"} : Continue(t, GiveBackThen(end))
      \/ Continue(t, <<Plain("release"), Plain("finish")>>)
  BY DEF reset, infer, step
<1> QED
  BY <1>1, <1>2, <1>4, <1>5, <1>6, <1>7

LEMMA SealMoves ==
    ASSUME Shape, NEW t \in Tasks, seal_inflight(t)
    PROVE  /\ Moves(t) /\ Carry(t)' = {} /\ todo[t] # <<>>
           /\ Phase(todo[t]) = "open" /\ Phase(todo'[t]) \in {"error", "failed"}
<1>1. Course(todo[t]) /\ todo[t] # <<>> /\ todo[t][1][1] = "seal"
  BY DEF seal_inflight, Shape, Courses, At, Op
<1>2. /\ Tail(todo[t]) # <<>> /\ Course(Tail(todo[t])) /\ Tail(todo[t])[1][1] \notin Carrying
      /\ Phase(todo[t]) = "open" /\ Phase(Tail(todo[t])) \in {"error", "failed"}
  BY <1>1, CourseTail DEF Returning
<1>3. Continue(t, Tail(todo[t]))
  BY DEF seal_inflight, Rest
<1> QED
  BY <1>1, <1>2, <1>3, Replaces DEF Moves

\* The execution ends.
LEMMA EndMoves ==
    ASSUME Shape, NEW t \in Tasks, Continue(t, <<>>)
    PROVE  /\ todo' \in [Tasks -> Seq(Entries)] /\ \A u \in Tasks \ {t} : todo'[u] = todo[u]
           /\ Course(todo'[t]) /\ todo'[t] = <<>> /\ Phase(todo'[t]) = "none" /\ Carry(t)' = {}
BY NothingLeft, Replaces

\* An execution is dropped only while it works.
LEMMA DroppedPhase ==
    ASSUME Shape, NEW t \in Tasks, DroppedAtAwait(t)
    PROVE  todo[t] # <<>> /\ Phase(todo[t]) \in {"before", "open"}
<1> DEFINE s == todo[t]
<1>1. s # <<>> /\ s[1][1] \notin {"error", "failed"}
  BY DEF DroppedAtAwait, Op
<1>2. Phase(s) \in {"error", "failed"} => s[1][1] \in {"error", "failed"}
  BY <1>1 DEF Phase, LastOp
<1>3. Phase(s) \in {"before", "open", "error", "failed"}
  BY <1>1 DEF Phase
<1> QED
  BY <1>1, <1>2, <1>3

-----------------------------------------------------------------------------
(* The shape of the work.                                                  *)

\* The calls: what they leave of the record is as it was.
Call(t) ==
    \/ AcquireWarm(t) \/ CheckCandidate(t) \/ AcquireNew(t) \/ fill_pool(t) \/ FillStock(t)
    \/ spawn(t) \/ SpawnManaged(t) \/ wait_plugin_ready(t)
    \/ destroy_instance(t) \/ close(t) \/ ForgetDestroyed(t)
    \/ release(t) \/ ReleaseRecycle(t) \/ evict_idle(t) \/ swallow(t)

LEMMA SwallowMoves ==
    ASSUME Shape, NEW t \in Tasks, swallow(t)
    PROVE  Proceeds(t) /\ Carry(t)' = {}
BY Kinds, RestOnly DEF swallow

LEMMA CallsProceed ==
    ASSUME Shape, NEW t \in Tasks, Call(t)
    PROVE  Proceeds(t) /\ todo[t] # <<>> /\ UNCHANGED record
<1>1. todo[t] # <<>> /\ UNCHANGED record
  BY DEF Call, AcquireWarm, CheckCandidate, AcquireNew, fill_pool, FillStock, spawn, SpawnManaged,
         wait_plugin_ready, destroy_instance, close, ForgetDestroyed, release, ReleaseRecycle,
         evict_idle, swallow, At, record
<1>2. Proceeds(t)
  BY AcquireWarmMoves, CheckCandidateMoves, AcquireNewMoves, FillPoolMoves, FillStockMoves, SpawnMoves,
     SpawnManagedMoves, WaitPluginReadyMoves, DestroyMoves, CloseForgetMove, ReleaseMoves, RecycleMoves,
     EvictMoves, SwallowMoves DEF Call
<1> QED
  BY <1>1, <1>2

LEMMA PoolShape ==
    ASSUME Shape, NEW t \in Tasks, Call(t)
    PROVE  queue' \in Seq(Instances) /\ active' \subseteq Instances
<1> USE DEF pool
<1>0. queue \in Seq(Instances) /\ active \subseteq Instances
  BY DEF Shape
<1>1. CASE AcquireWarm(t)
  BY <1>0, <1>1 DEF AcquireWarm
<1>2. CASE CheckCandidate(t) \/ AcquireNew(t)
  <2>1. Arg(t) \in Instances
    BY <1>2, CheckCandidateMoves, AcquireNewMoves
  <2>2. queue' = queue /\ active' \subseteq active \cup {Arg(t)}
    BY <1>2 DEF CheckCandidate, AcquireNew
  <2> QED
    BY <1>0, <2>1, <2>2
<1>3. CASE FillStock(t) \/ ReleaseRecycle(t)
  <2>1. Arg(t) \in Instances
    BY <1>3, FillStockMoves, RecycleMoves
  <2>2. (queue' = queue \/ queue' = Append(queue, Arg(t))) /\ active' = active
    BY <1>3 DEF FillStock, ReleaseRecycle
  <2> QED
    BY <1>0, <2>1, <2>2
<1>4. CASE ForgetDestroyed(t)
  <2>1. queue' = Keep(queue, InQueue \ {Arg(t)}) /\ active' \subseteq active
    BY <1>4 DEF ForgetDestroyed
  <2> QED
    BY <1>0, <2>1, KeepProperties
<1>5. CASE release(t)
  BY <1>0, <1>5 DEF release
<1>6. CASE \/ fill_pool(t) \/ spawn(t) \/ SpawnManaged(t) \/ wait_plugin_ready(t)
           \/ destroy_instance(t) \/ close(t) \/ evict_idle(t) \/ swallow(t)
  <2>1. queue' = queue /\ active' = active
    BY <1>6 DEF fill_pool, spawn, SpawnManaged, wait_plugin_ready, destroy_instance, close, evict_idle,
                swallow
  <2> QED
    BY <1>0, <2>1
<1> QED
  BY <1>1, <1>2, <1>3, <1>4, <1>5, <1>6 DEF Call

\* What else an execution does.
Act(t) ==
    \/ execute_episode(t) \/ ResetConfig(t) \/ reset(t) \/ infer(t) \/ step(t)
    \/ seal_inflight(t) \/ ReturnError(t) \/ Finish(t) \/ CancelExecution(t) \/ TimeoutExecution(t)

LEMMA ActsMove ==
    ASSUME Shape, NEW t \in Tasks, Act(t)
    PROVE  /\ todo' \in [Tasks -> Seq(Entries)] /\ \A u \in Tasks \ {t} : todo'[u] = todo[u]
           /\ Course(todo'[t]) /\ Carry(t)' = {} /\ UNCHANGED <<lease, pool, used>>
<1>u. UNCHANGED <<lease, pool, used>>
  BY DEF Act, execute_episode, ResetConfig, reset, infer, step, seal_inflight, ReturnError, Finish,
         CancelExecution, TimeoutExecution, DroppedAtAwait, procs
<1>1. CASE execute_episode(t)
  <2>1. CASE Moves(t)
    BY <1>1, <1>u, <2>1, ExecuteMoves DEF Moves
  <2>2. CASE todo' = todo
    BY <1>1, <1>u, <2>2, ExecuteMoves DEF Shape, Courses
  <2> QED
    BY <1>1, <2>1, <2>2, ExecuteMoves
<1>2. CASE ResetConfig(t)
  BY <1>2, <1>u, ResetConfigMoves DEF Moves
<1>3. CASE reset(t) \/ infer(t) \/ step(t)
  BY <1>3, <1>u, LoopMoves DEF Proceeds, Moves
<1>4. CASE seal_inflight(t)
  BY <1>4, <1>u, SealMoves DEF Moves
<1>5. CASE ReturnError(t) \/ Finish(t) \/ CancelExecution(t) \/ TimeoutExecution(t)
  <2>1. Continue(t, <<>>)
    BY <1>5 DEF ReturnError, Finish, CancelExecution, TimeoutExecution, DroppedAtAwait
  <2> QED
    BY <1>u, <2>1, EndMoves
<1> QED
  BY <1>1, <1>2, <1>3, <1>4, <1>5 DEF Act

LEMMA NextActs ==
    ASSUME WNext
    PROVE  \/ \E t \in Tasks : Call(t) \/ Act(t)
           \/ \E i \in Instances : PluginExits(i)
           \/ UNCHANGED wvars
BY DEF WNext, Call, Act, WDone

LEMMA ShapeStep ==
    ASSUME Shape, [WNext]_wvars
    PROVE  Shape'
<1>1. ASSUME NEW t \in Tasks, todo' \in [Tasks -> Seq(Entries)], Course(todo'[t]),
             \A u \in Tasks \ {t} : todo'[u] = todo[u],
             queue' \in Seq(Instances), active' \subseteq Instances
      PROVE  Shape'
  BY <1>1 DEF Shape, Courses
<1>2. ASSUME NEW t \in Tasks, Call(t) PROVE Shape'
  BY <1>1, <1>2, CallsProceed, PoolShape DEF Proceeds, Moves
<1>3. ASSUME NEW t \in Tasks, Act(t) PROVE Shape'
  <2>1. UNCHANGED pool
    BY <1>3, ActsMove
  <2>2. queue' \in Seq(Instances) /\ active' \subseteq Instances
    BY <2>1 DEF pool, Shape
  <2> QED
    BY <1>1, <1>3, <2>2, ActsMove
<1>4. ASSUME NEW i \in Instances, PluginExits(i) PROVE Shape'
  <2>1. UNCHANGED <<todo, queue, active>>
    BY <1>4 DEF PluginExits, pool
  <2> QED
    BY <2>1 DEF Shape, Courses
<1>5. CASE UNCHANGED wvars
  <2>1. UNCHANGED <<todo, queue, active>>
    BY <1>5 DEF wvars
  <2> QED
    BY <2>1 DEF Shape, Courses
<1> QED
  BY <1>2, <1>3, <1>4, <1>5, NextActs

-----------------------------------------------------------------------------
(* One trajectory for each episode.                                        *)

\* A step of t leaves the books of the others alone.
LEMMA BooksOf ==
    ASSUME Books, NEW t \in Tasks, Shape', Counts', Booked(t)',
           \A u \in Tasks \ {t} : /\ todo'[u] = todo[u] /\ seals'[u] = seals[u] /\ stepped'[u] = stepped[u]
                                  /\ ended'[u] = ended[u] /\ (u \in inflight' <=> u \in inflight)
    PROVE  Books'
<1>1. \A u \in Tasks \ {t} : Booked(u)'
  BY DEF Books, Booked
<1> QED
  BY <1>1 DEF Books

\* What is written about the trajectory does not change.
LEMMA BooksKept ==
    ASSUME Books, NEW t \in Tasks, Shape', todo[t] # <<>>, Proceeds(t),
           UNCHANGED <<inflight, seals, stepped, ended>>
    PROVE  Books'
<1>1. Counts'
  BY DEF Books, Counts
<1>2. /\ ended[t] = "no" /\ ended' = ended
      /\ Phase(todo[t]) # "none" /\ Phase(todo'[t]) # "none"
      /\ Phase(todo[t]) \in {"before", "open", "error", "failed"}
  <2>1. todo'[t] # <<>>
    BY DEF Proceeds, Moves
  <2>2. Phase(todo[t]) \in {"before", "open", "error", "failed"} /\ Phase(todo'[t]) # "none"
    BY <2>1 DEF Phase
  <2>3. Phase(todo[t]) # "none"
    BY <2>2
  <2> QED
    BY <2>2, <2>3 DEF Books, Booked
<1>3. Booked(t)
  BY DEF Books
<1>4. Booked(t)'
  <2>1. CASE Phase(todo'[t]) = Phase(todo[t])
    BY <1>2, <1>3, <2>1 DEF Booked
  <2>2. CASE t \in inflight /\ Phase(todo'[t]) = "open"
    BY <1>2, <1>3, <2>2 DEF Booked
  <2>3. CASE t \notin inflight /\ Phase(todo'[t]) = "error"
    BY <1>2, <1>3, <2>3 DEF Booked
  <2> QED
    BY <2>1, <2>2, <2>3 DEF Proceeds
<1>5. \A u \in Tasks \ {t} : todo'[u] = todo[u]
  BY DEF Proceeds, Moves
<1> QED
  BY <1>1, <1>4, <1>5, BooksOf

\* The trajectory that t has collected is sealed, or it is not there.
LEMMA SealedSeals ==
    ASSUME Counts, NEW t \in Tasks, seals' = Sealed(t), inflight' = inflight \ {t}
    PROVE  /\ seals' \in [Tasks -> Nat] /\ seals'[t] = IF t \in inflight THEN seals[t] + 1 ELSE seals[t]
           /\ \A u \in Tasks \ {t} : seals'[u] = seals[u] /\ (u \in inflight' <=> u \in inflight)
BY DEF Counts, Sealed

LEMMA Ends ==
    ASSUME Counts, NEW t \in Tasks, NEW end \in {"refused", "error", "failed", "completed", "cancelled", "timeout"},
           ended' = [ended EXCEPT ![t] = end]
    PROVE  /\ ended' \in [Tasks -> {"no", "refused", "error", "failed", "completed", "cancelled", "timeout"}]
           /\ ended'[t] = end /\ end # "no" /\ \A u \in Tasks \ {t} : ended'[u] = ended[u]
BY DEF Counts

LEMMA BooksStep ==
    ASSUME Books, [WNext]_wvars
    PROVE  Books'
<1>s. Shape /\ Shape'
  BY ShapeStep DEF Books
<1>c. Counts /\ \A t \in Tasks : Booked(t)
  BY DEF Books
<1>1. ASSUME NEW t \in Tasks, Call(t) PROVE Books'
  BY <1>1, <1>s, CallsProceed, BooksKept DEF record
<1>2. ASSUME NEW t \in Tasks, execute_episode(t) PROVE Books'
  <2>1. UNCHANGED <<stepped, inflight, seals>>
    BY <1>2 DEF execute_episode
  <2>2. /\ todo[t] = <<>> /\ ended[t] = "no"
        /\ Phase(todo[t]) = "none" /\ t \notin inflight /\ seals[t] = 0 /\ stepped[t] = 0
    BY <1>2, <1>s, <1>c, ExecuteMoves, NothingLeft DEF Booked
  <2>3. CASE Moves(t) /\ Phase(todo'[t]) = "before" /\ ended' = ended
    <3>1. Counts'
      BY <1>c, <2>1, <2>3 DEF Counts
    <3>2. Booked(t)'
      BY <2>1, <2>2, <2>3 DEF Booked
    <3> QED
      BY <1>s, <2>1, <2>3, <3>1, <3>2, BooksOf DEF Moves
  <2>4. CASE todo' = todo /\ ended' = [ended EXCEPT ![t] = "refused"]
    <3>1. ended'[t] = "refused" /\ \A u \in Tasks \ {t} : ended'[u] = ended[u]
      BY <1>c, <2>4, Ends
    <3>2. Counts'
      BY <1>c, <2>1, <2>4, Ends DEF Counts
    <3>3. Booked(t)'
      BY <2>1, <2>2, <2>4, <3>1 DEF Booked
    <3> QED
      BY <1>s, <2>1, <2>4, <3>1, <3>2, <3>3, BooksOf
  <2> QED
    BY <1>2, <1>s, <2>3, <2>4, ExecuteMoves
<1>3. ASSUME NEW t \in Tasks, ResetConfig(t) PROVE Books'
  <2>1. UNCHANGED <<stepped, seals, ended>>
    BY <1>3 DEF ResetConfig
  <2>2. CASE inflight' = inflight /\ Proceeds(t)
    BY <1>3, <1>s, <2>1, <2>2, ResetConfigMoves, BooksKept
  <2>3. CASE inflight' = inflight \cup {t} /\ Phase(todo'[t]) = "open"
    <3>1. Phase(todo[t]) = "before" /\ Moves(t)
      BY <1>3, <1>s, ResetConfigMoves
    <3>2. seals[t] = 0 /\ ended[t] = "no"
      BY <1>c, <3>1 DEF Booked
    <3>3. Booked(t)'
      BY <2>1, <2>3, <3>2 DEF Booked
    <3>4. Counts'
      BY <1>c, <2>1 DEF Counts
    <3> QED
      BY <1>s, <2>1, <2>3, <3>1, <3>3, <3>4, BooksOf DEF Moves
  <2> QED
    BY <1>3, <1>s, <2>2, <2>3, ResetConfigMoves
<1>4. ASSUME NEW t \in Tasks, reset(t) \/ infer(t) PROVE Books'
  <2>1. UNCHANGED <<stepped, inflight, seals, ended>>
    BY <1>4 DEF reset, infer, record
  <2> QED
    BY <1>4, <1>s, <2>1, LoopMoves, BooksKept
<1>5. ASSUME NEW t \in Tasks, step(t) PROVE Books'
  <2>1. UNCHANGED <<inflight, seals, ended>> /\ (stepped' = stepped \/ stepped' = [stepped EXCEPT ![t] = @ + 1])
    BY <1>5 DEF step
  <2>2. Proceeds(t) /\ todo[t] # <<>> /\ Phase(todo[t]) = "open"
    BY <1>5, <1>s, LoopMoves
  <2>3. t \in inflight /\ seals[t] = 0 /\ ended[t] = "no"
    BY <1>c, <2>2 DEF Booked
  <2>4. Phase(todo'[t]) = "open"
    BY <2>2, <2>3 DEF Proceeds
  <2>5. Counts'
    BY <1>c, <2>1 DEF Counts
  <2>6. Booked(t)'
    BY <2>1, <2>3, <2>4 DEF Booked
  <2>7. \A u \in Tasks \ {t} : stepped'[u] = stepped[u]
    BY <1>c, <2>1 DEF Counts
  <2> QED
    BY <1>s, <2>1, <2>2, <2>5, <2>6, <2>7, BooksOf DEF Proceeds, Moves
<1>6. ASSUME NEW t \in Tasks, seal_inflight(t) PROVE Books'
  <2>1. UNCHANGED <<stepped, ended>> /\ seals' = Sealed(t) /\ inflight' = inflight \ {t}
    BY <1>6 DEF seal_inflight
  <2>2. Moves(t) /\ Phase(todo[t]) = "open" /\ Phase(todo'[t]) \in {"error", "failed"}
    BY <1>6, <1>s, SealMoves
  <2>3. t \in inflight /\ seals[t] = 0 /\ ended[t] = "no"
    BY <1>c, <2>2 DEF Booked
  <2>4. /\ seals'[t] = 1 /\ seals' \in [Tasks -> Nat]
        /\ \A u \in Tasks \ {t} : seals'[u] = seals[u] /\ (u \in inflight' <=> u \in inflight)
    BY <1>c, <2>1, <2>3, SealedSeals
  <2>5. Counts'
    BY <1>c, <2>1, <2>4 DEF Counts
  <2>6. Booked(t)'
    BY <2>1, <2>2, <2>3, <2>4 DEF Booked
  <2> QED
    BY <1>s, <2>1, <2>2, <2>4, <2>5, <2>6, BooksOf DEF Moves
<1>7. ASSUME NEW t \in Tasks, ReturnError(t) PROVE Books'
  <2>1. PICK end \in {"error", "failed"} : At(t, end) /\ ended' = [ended EXCEPT ![t] = end]
    BY <1>7 DEF ReturnError
  <2>2. UNCHANGED <<stepped, inflight, seals>> /\ Continue(t, <<>>)
    BY <1>7 DEF ReturnError
  <2>3. Phase(todo[t]) = end
    BY <1>s, <2>1, HeadFinal DEF Finals
  <2>4. t \notin inflight /\ (seals[t] = 1 \/ (end = "error" /\ seals[t] = 0 /\ stepped[t] = 0))
    BY <1>c, <2>3 DEF Booked
  <2>5. /\ ended' \in [Tasks -> {"no", "refused", "error", "failed", "completed", "cancelled", "timeout"}]
        /\ ended'[t] = end /\ \A u \in Tasks \ {t} : ended'[u] = ended[u]
    BY <1>c, <2>1, Ends
  <2>6. Counts'
    BY <1>c, <2>2, <2>5 DEF Counts
  <2>7. Phase(todo'[t]) = "none" /\ \A u \in Tasks \ {t} : todo'[u] = todo[u]
    BY <1>s, <2>2, EndMoves
  <2>8. Booked(t)'
    BY <2>2, <2>4, <2>5, <2>7 DEF Booked
  <2> QED
    BY <1>s, <2>2, <2>5, <2>6, <2>7, <2>8, BooksOf
<1>8. ASSUME NEW t \in Tasks, NEW end \in {"completed", "failed", "timeout"}, Phase(todo[t]) \in {"before", "open"},
             end # "timeout" => Phase(todo[t]) = "open",
             Continue(t, <<>>), seals' = Sealed(t), inflight' = inflight \ {t},
             ended' = [ended EXCEPT ![t] = end], stepped' = stepped
      PROVE  Books'
  <2>1. /\ t \in inflight <=> Phase(todo[t]) = "open"
        /\ seals[t] = 0 /\ (Phase(todo[t]) = "before" => stepped[t] = 0)
    BY <1>c, <1>8 DEF Booked
  <2>2. /\ seals'[t] = (IF Phase(todo[t]) = "open" THEN 1 ELSE 0) /\ seals' \in [Tasks -> Nat]
        /\ \A u \in Tasks \ {t} : seals'[u] = seals[u] /\ (u \in inflight' <=> u \in inflight)
    BY <1>c, <1>8, <2>1, SealedSeals
  <2>3. /\ ended' \in [Tasks -> {"no", "refused", "error", "failed", "completed", "cancelled", "timeout"}]
        /\ ended'[t] = end /\ \A u \in Tasks \ {t} : ended'[u] = ended[u]
    BY <1>c, <1>8, Ends
  <2>4. Counts'
    BY <1>c, <1>8, <2>2, <2>3 DEF Counts
  <2>5. Phase(todo'[t]) = "none" /\ \A u \in Tasks \ {t} : todo'[u] = todo[u]
    BY <1>s, <1>8, EndMoves
  <2>6. stepped[t] \in Nat
    BY <1>c DEF Counts
  <2>7. Booked(t)'
    BY <1>8, <2>1, <2>2, <2>3, <2>5, <2>6 DEF Booked
  <2> QED
    BY <1>s, <1>8, <2>2, <2>3, <2>4, <2>5, <2>7, BooksOf
<1>9. ASSUME NEW t \in Tasks, Finish(t) PROVE Books'
  <2>1. PICK end \in {"completed", "failed"} : ended' = [ended EXCEPT ![t] = end]
    BY <1>9 DEF Finish
  <2>2. /\ Continue(t, <<>>) /\ seals' = Sealed(t) /\ inflight' = inflight \ {t} /\ stepped' = stepped
        /\ At(t, "finish")
    BY <1>9 DEF Finish
  <2>3. Phase(todo[t]) = "open"
    BY <1>s, <2>2, HeadFinal DEF Finals
  <2> QED
    BY <1>8, <2>1, <2>2, <2>3
<1>10. ASSUME NEW t \in Tasks, TimeoutExecution(t) PROVE Books'
  <2>1. /\ Continue(t, <<>>) /\ seals' = Sealed(t) /\ inflight' = inflight \ {t} /\ stepped' = stepped
        /\ ended' = [ended EXCEPT ![t] = "timeout"] /\ DroppedAtAwait(t)
    BY <1>10 DEF TimeoutExecution, DroppedAtAwait
  <2>2. Phase(todo[t]) \in {"before", "open"}
    BY <1>s, <2>1, DroppedPhase
  <2> QED
    BY <1>8, <2>1, <2>2
<1>11. ASSUME NEW t \in Tasks, CancelExecution(t) PROVE Books'
  <2>1. /\ Continue(t, <<>>) /\ inflight' = inflight \ {t} /\ UNCHANGED <<seals, stepped>>
        /\ ended' = [ended EXCEPT ![t] = "cancelled"] /\ DroppedAtAwait(t)
    BY <1>11 DEF CancelExecution, DroppedAtAwait
  <2>2. Phase(todo[t]) \in {"before", "open"}
    BY <1>s, <2>1, DroppedPhase
  <2>3. seals[t] = 0
    BY <1>c, <2>2 DEF Booked
  <2>4. /\ ended' \in [Tasks -> {"no", "refused", "error", "failed", "completed", "cancelled", "timeout"}]
        /\ ended'[t] = "cancelled" /\ \A u \in Tasks \ {t} : ended'[u] = ended[u]
    BY <1>c, <2>1, Ends
  <2>5. Counts'
    BY <1>c, <2>1, <2>4 DEF Counts
  <2>6. Phase(todo'[t]) = "none" /\ \A u \in Tasks \ {t} : todo'[u] = todo[u]
    BY <1>s, <2>1, EndMoves
  <2>7. Booked(t)'
    BY <2>1, <2>3, <2>4, <2>6 DEF Booked
  <2> QED
    BY <1>s, <2>1, <2>4, <2>5, <2>6, <2>7, BooksOf
<1>12. ASSUME UNCHANGED <<todo, stepped, inflight, seals, ended>> PROVE Books'
  BY <1>12, <1>s, <1>c DEF Books, Counts, Booked
<1>13. ASSUME NEW i \in Instances, PluginExits(i) PROVE Books'
  BY <1>12, <1>13 DEF PluginExits, record
<1>14. CASE UNCHANGED wvars
  BY <1>12, <1>14 DEF wvars
<1> QED
  BY <1>1, <1>2, <1>3, <1>4, <1>5, <1>6, <1>7, <1>9, <1>10, <1>11, <1>13, <1>14, NextActs DEF Act

LEMMA ShapeInit ==
    ASSUME WInit
    PROVE  Shape
<1>1. \A t \in Tasks : todo[t] = <<>>
  BY DEF WInit
<1>2. todo \in [Tasks -> Seq(Entries)] /\ Courses
  BY <1>1, NothingLeft DEF WInit, Courses, Course
<1>3. PICK warm \in {{}} \cup {{i} : i \in Instances} :
         queue = [k \in 1..Cardinality(warm) |-> CHOOSE i \in warm : TRUE]
  BY DEF WInit
<1>4. queue \in Seq(Instances)
  <2>1. CASE warm = {}
    <3>1. Cardinality(warm) = 0
      BY <2>1, FS_EmptySet
    <3> QED
      BY <1>3, <3>1
  <2>2. ASSUME NEW i \in Instances, warm = {i} PROVE queue \in Seq(Instances)
    <3> DEFINE c == CHOOSE j \in warm : TRUE
               n == Cardinality(warm)
    <3>1. n = 1 /\ c \in Instances
      BY <2>2, FS_Singleton
    <3>2. queue = [k \in 1..n |-> c]
      BY <1>3
    <3> HIDE DEF c, n
    <3> QED
      BY <3>1, <3>2
  <2> QED
    BY <2>1, <2>2
<1> QED
  BY <1>2, <1>4 DEF WInit, Shape

LEMMA BooksInit ==
    ASSUME WInit
    PROVE  Books
<1>1. Shape
  BY ShapeInit
<1>2. Counts
  BY DEF WInit, Counts
<1>3. ASSUME NEW t \in Tasks PROVE Booked(t)
  <2>1. todo[t] = <<>> /\ t \notin inflight /\ seals[t] = 0 /\ stepped[t] = 0 /\ ended[t] = "no"
    BY DEF WInit
  <2> QED
    BY <2>1, NothingLeft DEF Booked
<1> QED
  BY <1>1, <1>2, <1>3 DEF Books

\* Every episode that got as far as its reset leaves one sealed trajectory
\* whatever way it ends, and a cancelled one none.
THEOREM OneTrajectoryEach == WSpec => []OneTrajectory
<1>1. WInit => Books
  BY BooksInit
<1>2. Books /\ [WNext]_wvars => Books'
  BY BooksStep
<1>3. Books => OneTrajectory
  BY DEF Books, Booked, OneTrajectory
<1> QED
  BY <1>1, <1>2, <1>3, PTL DEF WSpec

-----------------------------------------------------------------------------
(* One hand for each instance.                                             *)

NoRepeat(q) == \A j, k \in 1..Len(q) : q[j] = q[k] => j = k

\* A step of t that passes on what it has in hand and what nobody had yet.
LEMMA HandsOf ==
    ASSUME HeldOnce, NEW t \in Tasks, Shape', used \subseteq used', used' \subseteq Instances,
           lease' \in [Tasks -> Instances \cup {none}],
           \A u \in Tasks \ {t} : todo'[u] = todo[u] /\ lease'[u] = lease[u] /\ ended'[u] = ended[u],
           InQueue' \cup Carry(t)' \cup Leased(t)' \subseteq InQueue \cup Carry(t) \cup Leased(t) \cup (used' \ used),
           NoRepeat(queue'),
           Carry(t)' \cap InQueue' = {}, Leased(t)' \cap InQueue' = {}, Carry(t)' \cap Leased(t)' = {},
           todo'[t] = <<>> /\ ended'[t] = "no" => lease'[t] = none
    PROVE  HeldOnce'
<1>1. \A u \in Tasks \ {t} : Carry(u)' = Carry(u) /\ Leased(u)' = Leased(u)
  BY DEF Carry, Leased, Holding, Op, Arg
<1>2. /\ InQueue \subseteq used /\ used \subseteq Instances
      /\ \A u \in Tasks : Carry(u) \cup Leased(u) \subseteq used
      /\ \A u \in Tasks : todo[u] = <<>> /\ ended[u] = "no" => lease[u] = none
  BY DEF HeldOnce, Known
<1>3. /\ \A u \in Tasks : Carry(u) \cap InQueue = {} /\ Leased(u) \cap InQueue = {} /\ Carry(u) \cap Leased(u) = {}
      /\ \A u, v \in Tasks : u # v => (Carry(u) \cup Leased(u)) \cap (Carry(v) \cup Leased(v)) = {}
  BY DEF HeldOnce, InOneHand
<1>4. InQueue' \cup Carry(t)' \cup Leased(t)' \subseteq used'
  BY <1>2
<1>5. Known'
  <2>1. InQueue' \subseteq used' /\ used' \subseteq Instances
    BY <1>4
  <2>2. \A u \in Tasks : Carry(u)' \cup Leased(u)' \subseteq used'
    BY <1>1, <1>2, <1>4
  <2>3. \A u \in Tasks : todo'[u] = <<>> /\ ended'[u] = "no" => lease'[u] = none
    BY <1>2
  <2> QED
    BY <2>1, <2>2, <2>3 DEF Known
<1>6. \A u \in Tasks \ {t} : /\ (Carry(u) \cup Leased(u)) \cap (InQueue' \cup Carry(t)' \cup Leased(t)') = {}
  BY <1>2, <1>3
<1>7. InOneHand'
  <2>1. \A u \in Tasks : Carry(u)' \cap InQueue' = {} /\ Leased(u)' \cap InQueue' = {} /\ Carry(u)' \cap Leased(u)' = {}
    BY <1>1, <1>3, <1>6
  <2>2. \A u, v \in Tasks : u # v => (Carry(u)' \cup Leased(u)') \cap (Carry(v)' \cup Leased(v)') = {}
    BY <1>1, <1>3, <1>6
  <2> QED
    BY <2>1, <2>2 DEF InOneHand, NoRepeat
<1> QED
  BY <1>5, <1>7 DEF HeldOnce

\* A step of t that passes on nothing new, and leaves the queue as it is.
LEMMA HandsKept ==
    ASSUME HeldOnce, WorkerConstants, NEW t \in Tasks, Shape', todo[t] # <<>>,
           UNCHANGED <<queue, used>>, lease' \in {lease, [lease EXCEPT ![t] = none]},
           Carry(t)' \subseteq Carry(t),
           \A u \in Tasks \ {t} : todo'[u] = todo[u] /\ ended'[u] = ended[u],
           todo'[t] = <<>> => ended'[t] # "no"
    PROVE  HeldOnce'
<1>1. lease \in [Tasks -> Instances \cup {none}] /\ used \subseteq Instances
  BY DEF HeldOnce, Known
<1>2. /\ lease' \in [Tasks -> Instances \cup {none}]
      /\ \A u \in Tasks \ {t} : lease'[u] = lease[u]
      /\ lease'[t] \in {lease[t], none}
  BY <1>1
<1>3. Leased(t)' \subseteq Leased(t)
  BY <1>2 DEF Leased, Holding
<1>4. InQueue' = InQueue
  BY DEF InQueue
<1>5. /\ NoRepeat(queue) /\ Carry(t) \cap InQueue = {} /\ Leased(t) \cap InQueue = {} /\ Carry(t) \cap Leased(t) = {}
  BY DEF HeldOnce, InOneHand, NoRepeat
<1>6. InQueue' \cup Carry(t)' \cup Leased(t)' \subseteq InQueue \cup Carry(t) \cup Leased(t) \cup (used' \ used)
  BY <1>3, <1>4
<1>7. /\ Carry(t)' \cap InQueue' = {} /\ Leased(t)' \cap InQueue' = {} /\ Carry(t)' \cap Leased(t)' = {}
  BY <1>3, <1>4, <1>5
<1>8. NoRepeat(queue')
  BY <1>5
<1> QED
  BY <1>1, <1>2, <1>6, <1>7, <1>8, HandsOf

\* The queue with its head taken, an instance put at its end, or one removed.
LEMMA QueueTaken ==
    ASSUME queue \in Seq(Instances), NoRepeat(queue), queue # <<>>, queue' = Tail(queue)
    PROVE  /\ Head(queue) \in InQueue /\ InQueue' = InQueue \ {Head(queue)} /\ NoRepeat(queue')
<1> DEFINE n == Len(queue)
<1>1. n \in Nat /\ n >= 1 /\ Head(queue) = queue[1]
  OBVIOUS
<1>2. Len(queue') = n - 1 /\ \A k \in 1..n - 1 : queue'[k] = queue[k + 1]
  BY <1>1
<1> HIDE DEF n
<1>3. \A j, k \in 1..n : queue[j] = queue[k] => j = k
  BY DEF NoRepeat, n
<1>4. InQueue = {queue[k] : k \in 1..n} /\ InQueue' = {queue'[k] : k \in 1..n - 1}
  BY <1>2 DEF InQueue, n
<1>5. NoRepeat(queue')
  <2> SUFFICES ASSUME NEW j \in 1..n - 1, NEW k \in 1..n - 1, queue'[j] = queue'[k] PROVE j = k
    BY <1>2 DEF NoRepeat
  <2>1. j + 1 \in 1..n /\ k + 1 \in 1..n /\ queue[j + 1] = queue[k + 1]
    BY <1>1, <1>2
  <2>2. j + 1 = k + 1
    BY <1>3, <2>1
  <2> QED
    BY <2>2
<1>6. Head(queue) \in InQueue
  BY <1>1, <1>4
<1>7. InQueue' \subseteq InQueue \ {Head(queue)}
  <2> SUFFICES ASSUME NEW k \in 1..n - 1 PROVE queue'[k] \in InQueue /\ queue'[k] # queue[1]
    BY <1>1, <1>4
  <2>1. k + 1 \in 1..n /\ 1 \in 1..n /\ k + 1 # 1 /\ queue'[k] = queue[k + 1]
    BY <1>1, <1>2
  <2> QED
    BY <1>3, <1>4, <2>1
<1>8. InQueue \ {Head(queue)} \subseteq InQueue'
  <2> SUFFICES ASSUME NEW k \in 1..n, queue[k] # queue[1] PROVE queue[k] \in InQueue'
    BY <1>1, <1>4
  <2>1. k - 1 \in 1..n - 1 /\ (k - 1) + 1 = k
    BY <1>1
  <2>2. queue[k] = queue'[k - 1]
    BY <1>2, <2>1
  <2> QED
    BY <1>4, <2>1, <2>2
<1> QED
  BY <1>5, <1>6, <1>7, <1>8

LEMMA QueueJoined ==
    ASSUME queue \in Seq(Instances), NoRepeat(queue), NEW i \in Instances, i \notin InQueue,
           queue' = Append(queue, i)
    PROVE  InQueue' = InQueue \cup {i} /\ NoRepeat(queue')
<1> DEFINE n == Len(queue)
<1>1. /\ n \in Nat /\ Len(queue') = n + 1 /\ queue'[n + 1] = i /\ \A k \in 1..n : queue'[k] = queue[k]
  OBVIOUS
<1> HIDE DEF n
<1>2. \A j, k \in 1..n : queue[j] = queue[k] => j = k
  BY DEF NoRepeat, n
<1>3. InQueue = {queue[k] : k \in 1..n} /\ InQueue' = {queue'[k] : k \in 1..n + 1}
  BY <1>1 DEF InQueue, n
<1>4. \A k \in 1..n + 1 : k = n + 1 \/ k \in 1..n
  BY <1>1
<1>5. 1..n \subseteq 1..n + 1 /\ n + 1 \in 1..n + 1
  BY <1>1
<1>6. InQueue' = InQueue \cup {i}
  BY <1>1, <1>3, <1>4, <1>5
<1>7. \A k \in 1..n : queue'[k] # i
  BY <1>1, <1>3
<1>8. NoRepeat(queue')
  BY <1>1, <1>2, <1>4, <1>7 DEF NoRepeat
<1> QED
  BY <1>6, <1>8

LEMMA QueueKept ==
    ASSUME queue \in Seq(Instances), NoRepeat(queue), NEW S, queue' = Keep(queue, S)
    PROVE  InQueue' \subseteq InQueue /\ NoRepeat(queue')
<1> DEFINE n == Len(queue)  m == Len(queue')
<1>1. queue' \in Seq(Instances) /\ \E h : Picked(queue', queue, S, n, h)
  BY KeepProperties
<1>2. PICK h : Picked(queue', queue, S, n, h)
  BY <1>1
<1>3. n \in Nat /\ m \in Nat
  BY <1>1
<1> HIDE DEF n, m
<1>4. /\ \A k \in 1..m : h[k] \in 1..n /\ queue'[k] = queue[h[k]]
      /\ \A j, k \in 1..m : j < k => h[j] < h[k]
  BY <1>2 DEF Picked, m
<1>5. InQueue' \subseteq InQueue
  BY <1>4 DEF InQueue, n, m
<1>6. NoRepeat(queue')
  <2> SUFFICES ASSUME NEW j \in 1..m, NEW k \in 1..m, queue'[j] = queue'[k] PROVE j = k
    BY DEF NoRepeat, m
  <2>1. h[j] \in 1..n /\ h[k] \in 1..n /\ h[j] = h[k]
    BY <1>4 DEF NoRepeat, n
  <2>2. ~(j < k) /\ ~(k < j)
    BY <1>3, <1>4, <2>1
  <2> QED
    BY <1>3, <2>2
<1> QED
  BY <1>5, <1>6

\* The end of an execution is recorded when nothing is left to do.
LEMMA EndRecorded ==
    ASSUME Books, NEW t \in Tasks, Act(t)
    PROVE  /\ \A u \in Tasks \ {t} : ended'[u] = ended[u]
           /\ todo'[t] = <<>> => ended'[t] # "no"
           /\ todo[t] = <<>> => ended[t] = "no"
<1> Shape /\ Counts
  BY DEF Books
<1>1. CASE execute_episode(t)
  <2>1. CASE ended' = ended /\ todo'[t] # <<>>
    BY <1>1, <2>1, ExecuteMoves
  <2>2. CASE ended' = [ended EXCEPT ![t] = "refused"]
    BY <1>1, <2>2, Ends, ExecuteMoves
  <2> QED
    BY <1>1, <2>1, <2>2, ExecuteMoves DEF Moves
<1>2. CASE ResetConfig(t) \/ reset(t) \/ infer(t) \/ step(t) \/ seal_inflight(t)
  <2>1. ended' = ended
    BY <1>2 DEF ResetConfig, reset, infer, step, seal_inflight, record
  <2>2. todo'[t] # <<>> /\ todo[t] # <<>>
    BY <1>2, ResetConfigMoves, LoopMoves, SealMoves DEF Proceeds, Moves
  <2> QED
    BY <2>1, <2>2
<1>3. CASE ReturnError(t) \/ Finish(t) \/ CancelExecution(t) \/ TimeoutExecution(t)
  <2>1. \E end \in {"refused", "error", "failed", "completed", "cancelled", "timeout"} :
           ended' = [ended EXCEPT ![t] = end]
    BY <1>3 DEF ReturnError, Finish, CancelExecution, TimeoutExecution
  <2>2. todo[t] # <<>>
    BY <1>3 DEF ReturnError, Finish, CancelExecution, TimeoutExecution, DroppedAtAwait, At
  <2> QED
    BY <2>1, <2>2, Ends
<1> QED
  BY <1>1, <1>2, <1>3 DEF Act

\* What t has in hand, and nothing else, is in none of the other hands.
LEMMA InHand ==
    ASSUME HeldOnce, NEW t \in Tasks
    PROVE  /\ Carry(t) \cap InQueue = {} /\ Leased(t) \cap InQueue = {} /\ Carry(t) \cap Leased(t) = {}
           /\ NoRepeat(queue) /\ queue \in Seq(Instances)
           /\ InQueue \cup Carry(t) \cup Leased(t) \subseteq used /\ used \subseteq Instances
           /\ lease \in [Tasks -> Instances \cup {none}]
BY DEF HeldOnce, InOneHand, Known, NoRepeat, Shape

\* The calls.
LEMMA TokensCall ==
    ASSUME HeldOnce, Shape', WorkerConstants, NEW t \in Tasks, Call(t)
    PROVE  HeldOnce'
<1>s. Shape
  BY DEF HeldOnce
<1>1. /\ todo[t] # <<>> /\ todo'[t] # <<>>
      /\ \A u \in Tasks \ {t} : todo'[u] = todo[u] /\ ended'[u] = ended[u]
  BY <1>s, CallsProceed DEF Proceeds, Moves, record
<1>h. /\ Carry(t) \cap InQueue = {} /\ Leased(t) \cap InQueue = {} /\ Carry(t) \cap Leased(t) = {}
      /\ NoRepeat(queue) /\ queue \in Seq(Instances)
      /\ InQueue \cup Carry(t) \cup Leased(t) \subseteq used /\ used \subseteq Instances
      /\ lease \in [Tasks -> Instances \cup {none}]
  BY InHand
<1>k. ASSUME lease' = lease PROVE Leased(t)' = Leased(t)
  BY <1>k, <1>1 DEF Leased, Holding
<1>q. ASSUME queue' = queue PROVE InQueue' = InQueue
  BY <1>q DEF InQueue
<1>2. CASE AcquireWarm(t)
  <2>1. lease' = lease /\ used' = used
    BY <1>2 DEF AcquireWarm, procs
  <2>2. CASE queue = <<>>
    <3>1. queue' = queue /\ Carry(t)' = {}
      BY <1>2, <1>s, <2>2, AcquireWarmMoves DEF AcquireWarm
    <3> QED
      BY <1>1, <2>1, <3>1, HandsKept
  <2>3. CASE queue # <<>>
    <3>1. queue' = Tail(queue) /\ Carry(t) = {} /\ Carry(t)' = {Head(queue)}
      BY <1>2, <1>s, <2>3, AcquireWarmMoves DEF AcquireWarm
    <3>2. Head(queue) \in InQueue /\ InQueue' = InQueue \ {Head(queue)} /\ NoRepeat(queue')
      BY <1>h, <2>3, <3>1, QueueTaken
    <3>3. /\ InQueue' \cup Carry(t)' \cup Leased(t)' \subseteq InQueue \cup Carry(t) \cup Leased(t)
          /\ Carry(t)' \cap InQueue' = {} /\ Leased(t)' \cap InQueue' = {} /\ Carry(t)' \cap Leased(t)' = {}
      BY <1>h, <1>k, <2>1, <3>1, <3>2
    <3> QED
      BY <1>1, <1>h, <2>1, <3>2, <3>3, HandsOf
  <2> QED
    BY <2>2, <2>3
<1>3. CASE CheckCandidate(t) \/ AcquireNew(t)
  <2>1. queue' = queue /\ used' = used
    BY <1>3 DEF CheckCandidate, AcquireNew, procs
  <2>2. Carry(t) = {Arg(t)} /\ Arg(t) \in Instances /\ Carry(t)' = {} /\ lease' \in {lease, [lease EXCEPT ![t] = Arg(t)]}
    BY <1>3, <1>s, CheckCandidateMoves, AcquireNewMoves
  <2>3. CASE lease' = lease
    BY <1>1, <2>1, <2>2, <2>3, HandsKept
  <2>4. CASE lease' = [lease EXCEPT ![t] = Arg(t)]
    <3>1. /\ lease' \in [Tasks -> Instances \cup {none}] /\ lease'[t] = Arg(t)
          /\ \A u \in Tasks \ {t} : lease'[u] = lease[u]
      BY <1>h, <2>2, <2>4
    <3>2. Leased(t)' \subseteq {Arg(t)}
      BY <3>1 DEF Leased, Holding
    <3>3. /\ InQueue' \cup Carry(t)' \cup Leased(t)' \subseteq InQueue \cup Carry(t) \cup Leased(t)
          /\ Carry(t)' \cap InQueue' = {} /\ Leased(t)' \cap InQueue' = {} /\ Carry(t)' \cap Leased(t)' = {}
      BY <1>h, <1>q, <2>1, <2>2, <3>2
    <3> QED
      BY <1>1, <1>h, <2>1, <3>1, <3>3, HandsOf
  <2> QED
    BY <2>2, <2>3, <2>4
<1>4. CASE FillStock(t) \/ ReleaseRecycle(t)
  <2>1. lease' = lease /\ used' = used /\ queue' \in {queue, Append(queue, Arg(t))}
    BY <1>4 DEF FillStock, ReleaseRecycle, procs
  <2>2. Carry(t) = {Arg(t)} /\ Arg(t) \in Instances /\ Carry(t)' = {}
    BY <1>4, <1>s, FillStockMoves, RecycleMoves
  <2>3. CASE queue' = queue
    BY <1>1, <2>1, <2>2, <2>3, HandsKept
  <2>4. CASE queue' = Append(queue, Arg(t))
    <3>1. Arg(t) \notin InQueue
      BY <1>h, <2>2
    <3>2. InQueue' = InQueue \cup {Arg(t)} /\ NoRepeat(queue')
      BY <1>h, <2>2, <2>4, <3>1, QueueJoined
    <3>3. /\ InQueue' \cup Carry(t)' \cup Leased(t)' \subseteq InQueue \cup Carry(t) \cup Leased(t)
          /\ Carry(t)' \cap InQueue' = {} /\ Leased(t)' \cap InQueue' = {} /\ Carry(t)' \cap Leased(t)' = {}
      BY <1>h, <1>k, <2>1, <2>2, <3>2
    <3> QED
      BY <1>1, <1>h, <2>1, <3>2, <3>3, HandsOf
  <2> QED
    BY <2>1, <2>3, <2>4
<1>5. CASE spawn(t)
  <2>1. lease' = lease /\ queue' = queue
    BY <1>5 DEF spawn, pool
  <2>2. CASE used' = used /\ Carry(t)' = {}
    BY <1>1, <2>1, <2>2, HandsKept
  <2>3. ASSUME NEW i \in Instances \ used, used' = used \cup {i}, Carry(t)' = {i} PROVE HeldOnce'
    <3>1. /\ InQueue' \cup Carry(t)' \cup Leased(t)' \subseteq InQueue \cup Carry(t) \cup Leased(t) \cup (used' \ used)
          /\ Carry(t)' \cap InQueue' = {} /\ Leased(t)' \cap InQueue' = {} /\ Carry(t)' \cap Leased(t)' = {}
      BY <1>h, <1>k, <1>q, <2>1, <2>3
    <3>2. used \subseteq used' /\ used' \subseteq Instances
      BY <1>h, <2>3
    <3>3. NoRepeat(queue')
      BY <1>h, <2>1
    <3> QED
      BY <1>1, <1>h, <2>1, <3>1, <3>2, <3>3, HandsOf
  <2> QED
    BY <1>5, <1>s, <2>2, <2>3, SpawnMoves
<1>6. CASE ForgetDestroyed(t)
  <2>1. queue' = Keep(queue, InQueue \ {Arg(t)}) /\ lease' = lease /\ used' = used
    BY <1>6 DEF ForgetDestroyed, procs
  <2>2. InQueue' \subseteq InQueue /\ NoRepeat(queue')
    BY <1>h, <2>1, QueueKept
  <2>3. Carry(t)' = {}
    BY <1>6, <1>s, CloseForgetMove
  <2>4. /\ InQueue' \cup Carry(t)' \cup Leased(t)' \subseteq InQueue \cup Carry(t) \cup Leased(t)
        /\ Carry(t)' \cap InQueue' = {} /\ Leased(t)' \cap InQueue' = {} /\ Carry(t)' \cap Leased(t)' = {}
    BY <1>h, <1>k, <2>1, <2>2, <2>3
  <2> QED
    BY <1>1, <1>h, <2>1, <2>2, <2>4, HandsOf
<1>7. CASE release(t)
  <2>1. queue' = queue /\ used' = used /\ lease' = [lease EXCEPT ![t] = none]
    BY <1>7 DEF release, procs
  <2>2. Carry(t)' \subseteq {lease[t]} \cap Instances
    BY <1>7, <1>s, ReleaseMoves
  <2>3. Carry(t)' \subseteq Leased(t)
    BY <1>1, <2>2 DEF Leased, Holding, WorkerConstants
  <2>4. /\ lease' \in [Tasks -> Instances \cup {none}] /\ lease'[t] = none
        /\ \A u \in Tasks \ {t} : lease'[u] = lease[u]
    BY <1>h, <2>1
  <2>5. Leased(t)' = {}
    BY <2>4 DEF Leased, Holding
  <2>6. /\ InQueue' \cup Carry(t)' \cup Leased(t)' \subseteq InQueue \cup Carry(t) \cup Leased(t)
        /\ Carry(t)' \cap InQueue' = {} /\ Leased(t)' \cap InQueue' = {} /\ Carry(t)' \cap Leased(t)' = {}
    BY <1>h, <1>q, <2>1, <2>3, <2>5
  <2>7. NoRepeat(queue')
    BY <1>h, <2>1
  <2> QED
    BY <1>1, <1>h, <2>1, <2>4, <2>6, <2>7, HandsOf
<1>8. CASE SpawnManaged(t) \/ wait_plugin_ready(t)
  <2>1. UNCHANGED <<queue, used, lease>>
    BY <1>8 DEF SpawnManaged, wait_plugin_ready, pool, procs
  <2>2. Carry(t)' \subseteq Carry(t)
    BY <1>8, <1>s, SpawnManagedMoves, WaitPluginReadyMoves
  <2> QED
    BY <1>1, <2>1, <2>2, HandsKept
<1>9. CASE fill_pool(t) \/ destroy_instance(t) \/ close(t) \/ evict_idle(t) \/ swallow(t)
  <2>1. UNCHANGED <<queue, used, lease>>
    BY <1>9 DEF fill_pool, destroy_instance, close, evict_idle, swallow, pool, procs
  <2>2. Carry(t)' = {}
    BY <1>9, <1>s, FillPoolMoves, DestroyMoves, CloseForgetMove, EvictMoves, SwallowMoves
  <2> QED
    BY <1>1, <2>1, <2>2, HandsKept
<1> QED
  BY <1>2, <1>3, <1>4, <1>5, <1>6, <1>7, <1>8, <1>9 DEF Call

LEMMA TokensStep ==
    ASSUME HeldOnce, Books, WorkerConstants, [WNext]_wvars
    PROVE  HeldOnce'
<1>s. Shape /\ Shape'
  BY ShapeStep DEF HeldOnce
<1>1. ASSUME NEW t \in Tasks, Call(t) PROVE HeldOnce'
  BY <1>s, <1>1, TokensCall
<1>2. ASSUME NEW t \in Tasks, Act(t) PROVE HeldOnce'
  <2>1. /\ \A u \in Tasks \ {t} : todo'[u] = todo[u] /\ ended'[u] = ended[u]
        /\ Carry(t)' = {} /\ UNCHANGED <<lease, queue, used>>
        /\ todo'[t] = <<>> => ended'[t] # "no"
        /\ todo[t] = <<>> => ended[t] = "no"
    BY <1>s, <1>2, ActsMove, EndRecorded DEF pool
  <2>2. CASE todo[t] # <<>>
    BY <1>s, <2>1, <2>2, HandsKept
  <2>3. CASE todo[t] = <<>>
    <3>1. lease[t] = none
      BY <2>1, <2>3 DEF HeldOnce, Known
    <3>2. Leased(t)' = {} /\ InQueue' = InQueue /\ lease' = lease /\ used' = used /\ lease'[t] = none
      BY <2>1, <3>1 DEF Leased, Holding, InQueue
    <3>3. /\ InQueue' \cup Carry(t)' \cup Leased(t)' \subseteq InQueue \cup Carry(t) \cup Leased(t)
          /\ Carry(t)' \cap InQueue' = {} /\ Leased(t)' \cap InQueue' = {} /\ Carry(t)' \cap Leased(t)' = {}
      BY <2>1, <3>2
    <3>4. NoRepeat(queue') /\ used \subseteq used' /\ used' \subseteq Instances /\ lease' \in [Tasks -> Instances \cup {none}]
      BY <2>1, InHand
    <3> QED
      BY <1>s, <2>1, <3>2, <3>3, <3>4, HandsOf
  <2> QED
    BY <2>2, <2>3
<1>3. ASSUME UNCHANGED <<todo, lease, queue, active, used, ended>> PROVE HeldOnce'
  <2>1. \A t \in Tasks : Carry(t)' = Carry(t) /\ Leased(t)' = Leased(t)
    BY <1>3 DEF Carry, Leased, Holding, Op, Arg
  <2>2. InQueue' = InQueue
    BY <1>3 DEF InQueue
  <2> QED
    BY <1>s, <1>3, <2>1, <2>2 DEF HeldOnce, Known, InOneHand
<1>4. ASSUME NEW i \in Instances, PluginExits(i) PROVE HeldOnce'
  BY <1>3, <1>4 DEF PluginExits, pool, record
<1>5. CASE UNCHANGED wvars
  BY <1>3, <1>5 DEF wvars
<1> QED
  BY <1>1, <1>2, <1>4, <1>5, NextActs

LEMMA TokensInit ==
    ASSUME WInit
    PROVE  HeldOnce
<1>1. Shape
  BY ShapeInit
<1>2. PICK warm \in {{}} \cup {{i} : i \in Instances} :
         /\ queue = [k \in 1..Cardinality(warm) |-> CHOOSE i \in warm : TRUE]
         /\ used = warm
  BY DEF WInit
<1>3. /\ InQueue \subseteq used /\ used \subseteq Instances /\ NoRepeat(queue)
  <2>1. CASE warm = {}
    <3>1. Cardinality(warm) = 0
      BY <2>1, FS_EmptySet
    <3>2. Len(queue) = 0
      BY <1>2, <3>1
    <3>3. 1..Len(queue) = {}
      BY <3>2
    <3>4. InQueue = {} /\ NoRepeat(queue)
      BY <3>3 DEF InQueue, NoRepeat
    <3>5. used = {}
      BY <1>2, <2>1
    <3> QED
      BY <3>4, <3>5
  <2>2. ASSUME NEW i \in Instances, warm = {i} PROVE InQueue \subseteq used /\ used \subseteq Instances /\ NoRepeat(queue)
    <3> DEFINE c == CHOOSE j \in warm : TRUE
               n == Cardinality(warm)
    <3>1. n = 1 /\ c = i
      BY <2>2, FS_Singleton
    <3>2. queue = [k \in 1..n |-> c]
      BY <1>2
    <3> HIDE DEF c, n
    <3>3. Len(queue) = 1 /\ queue[1] = i
      BY <3>1, <3>2
    <3>4. 1..Len(queue) = {1}
      BY <3>3
    <3>5. InQueue = {i} /\ NoRepeat(queue)
      BY <3>3, <3>4 DEF InQueue, NoRepeat
    <3>6. used = {i}
      BY <1>2, <2>2
    <3> QED
      BY <3>5, <3>6
  <2> QED
    BY <1>2, <2>1, <2>2
<1>4. \A t \in Tasks : todo[t] = <<>> /\ lease[t] = none
  BY DEF WInit
<1>5. \A t \in Tasks : Carry(t) = {} /\ Leased(t) = {}
  BY <1>4 DEF Carry, Leased, Holding
<1>6. lease \in [Tasks -> Instances \cup {none}]
  BY DEF WInit
<1> QED
  BY <1>1, <1>3, <1>4, <1>5, <1>6 DEF HeldOnce, Known, InOneHand, NoRepeat

\* The instance an episode runs on is nobody else's: it neither waits in the
\* queue nor is it leased to another episode.  WorkerConstants only says that
\* "no instance" is not one.
THEOREM HeldByOne == ASSUME WorkerConstants PROVE WSpec => []UsedByOne
<1>1. WInit => Books /\ HeldOnce
  BY BooksInit, TokensInit
<1>2. Books /\ HeldOnce /\ [WNext]_wvars => (Books /\ HeldOnce)'
  BY BooksStep, TokensStep
<1>3. HeldOnce => UsedByOne
  <2> SUFFICES ASSUME HeldOnce, NEW t \in Tasks, Holding(t)
               PROVE  /\ lease[t] \notin InQueue
                      /\ \A u \in Tasks \ {t} : Holding(u) => lease[u] # lease[t]
    BY DEF UsedByOne
  <2>1. Leased(t) = {lease[t]} /\ \A u \in Tasks : Holding(u) => Leased(u) = {lease[u]}
    BY DEF Leased
  <2> QED
    BY <2>1 DEF HeldOnce, InOneHand
<1> QED
  BY <1>1, <1>2, <1>3, PTL DEF WSpec

-----------------------------------------------------------------------------
(* Every process is managed.                                               *)

Starting(t) == IF At(t, "manage") THEN {Arg(t)} ELSE {}

\* A step of t that hands each process it knows of to the host, or stops it.
LEMMA ManagedBy ==
    ASSUME ProcessesAreManaged, NEW t \in Tasks, \A u \in Tasks \ {t} : todo'[u] = todo[u],
           \A i \in alive' : \/ i \in host' \/ i \in Starting(t)'
                             \/ i \in alive \ (host \cup Starting(t))
    PROVE  ProcessesAreManaged'
<1>1. \A u \in Tasks \ {t} : Starting(u)' = Starting(u)
  BY DEF Starting, At, Op, Arg
<1>2. \A i \in alive : i \in host \/ \E u \in Tasks : i \in Starting(u)
  BY DEF ProcessesAreManaged, Starting
<1>3. \A i \in alive' : i \in host' \/ \E u \in Tasks : i \in Starting(u)'
  BY <1>1, <1>2
<1> QED
  BY <1>3 DEF ProcessesAreManaged, Starting

\* A step that touches no process, of an execution that is not starting one.
LEMMA ProcessesKept ==
    ASSUME ProcessesAreManaged, NEW t \in Tasks, \A u \in Tasks \ {t} : todo'[u] = todo[u],
           alive' = alive, host' = host, ~At(t, "manage")
    PROVE  ProcessesAreManaged'
<1>1. Starting(t) = {}
  BY DEF Starting
<1> QED
  BY <1>1, ManagedBy

LEMMA ManagedStep ==
    ASSUME Shape, ProcessesAreManaged, [WNext]_wvars
    PROVE  ProcessesAreManaged'
<1>1. ASSUME NEW t \in Tasks, Call(t) PROVE ProcessesAreManaged'
  <2>1. /\ \A u \in Tasks \ {t} : todo'[u] = todo[u]
        /\ todo'[t] # <<>>
    BY <1>1, CallsProceed DEF Proceeds, Moves
  <2>2. CASE spawn(t)
    <3>1. At(t, "spawn") /\ Starting(t) = {} /\ host' = host
      BY <2>2 DEF spawn, At, Starting
    <3>2. CASE alive' = alive
      BY <2>1, <3>1, <3>2, ManagedBy
    <3>3. ASSUME NEW i \in Instances \ used, alive' = alive \cup {i}, Continue(t, <<<<"manage", i>>>> \o Rest(t))
          PROVE  ProcessesAreManaged'
      <4> DEFINE r == <<<<"manage", i>>>> \o Tail(todo[t])
      <4>1. todo'[t] = r
        BY <3>3 DEF Continue, Rest, Shape
      <4>2. Tail(todo[t]) \in Seq(Entries)
        BY <3>1 DEF Shape, At
      <4>3. r # <<>> /\ r[1] = <<"manage", i>>
        BY <4>2
      <4> HIDE DEF r
      <4>4. Starting(t)' = {i}
        BY <4>1, <4>3 DEF Starting, At, Op, Arg
      <4> QED
        BY <2>1, <3>1, <3>3, <4>4, ManagedBy
    <3> QED
      BY <2>2, <3>2, <3>3 DEF spawn
  <2>3. CASE SpawnManaged(t)
    <3>1. Starting(t) = {Arg(t)}
      BY <2>3 DEF SpawnManaged, Starting
    <3>2. \/ host' = host \cup {Arg(t)} /\ alive' = alive
          \/ alive' = alive \ {Arg(t)} /\ host' = host
      BY <2>3 DEF SpawnManaged
    <3> QED
      BY <2>1, <3>1, <3>2, ManagedBy
  <2>4. CASE close(t)
    <3>1. Starting(t) = {}
      BY <2>4 DEF close, Starting, At
    <3>2. host' = host \ {Arg(t)} /\ alive' = IF Arg(t) \in host THEN alive \ {Arg(t)} ELSE alive
      BY <2>4 DEF close
    <3> QED
      BY <2>1, <3>1, <3>2, ManagedBy
  <2>5. CASE \/ AcquireWarm(t) \/ CheckCandidate(t) \/ AcquireNew(t) \/ fill_pool(t) \/ FillStock(t)
             \/ wait_plugin_ready(t) \/ destroy_instance(t) \/ ForgetDestroyed(t)
             \/ release(t) \/ ReleaseRecycle(t) \/ evict_idle(t) \/ swallow(t)
    <3>1. ~At(t, "manage") /\ alive' = alive /\ host' = host
      BY <2>5 DEF AcquireWarm, CheckCandidate, AcquireNew, fill_pool, FillStock, wait_plugin_ready,
                  destroy_instance, ForgetDestroyed, release, ReleaseRecycle, evict_idle, swallow, At, procs
    <3> QED
      BY <2>1, <3>1, ProcessesKept
  <2> QED
    BY <1>1, <2>2, <2>3, <2>4, <2>5 DEF Call
<1>2. ASSUME NEW t \in Tasks, Act(t) PROVE ProcessesAreManaged'
  <2>1. \A u \in Tasks \ {t} : todo'[u] = todo[u]
    BY <1>2, ActsMove
  <2>2. CASE CancelExecution(t) \/ TimeoutExecution(t)
    <3>1. /\ todo[t] # <<>> /\ host' = host
          /\ alive' = IF Op(t) = "manage" THEN alive \ {Arg(t)} ELSE alive
      BY <2>2 DEF CancelExecution, TimeoutExecution, DroppedAtAwait
    <3>2. Starting(t) = IF Op(t) = "manage" THEN {Arg(t)} ELSE {}
      BY <3>1 DEF Starting, At
    <3> QED
      BY <2>1, <3>1, <3>2, ManagedBy
  <2>3. CASE \/ execute_episode(t) \/ ResetConfig(t) \/ reset(t) \/ infer(t) \/ step(t)
             \/ seal_inflight(t) \/ ReturnError(t) \/ Finish(t)
    <3>1. ~At(t, "manage") /\ alive' = alive /\ host' = host
      BY <2>3 DEF execute_episode, ResetConfig, reset, infer, step, seal_inflight, ReturnError, Finish, At, procs
    <3> QED
      BY <2>1, <3>1, ProcessesKept
  <2> QED
    BY <1>2, <2>2, <2>3 DEF Act
<1>3. ASSUME NEW i \in Instances, PluginExits(i) PROVE ProcessesAreManaged'
  <2>1. todo' = todo /\ host' = host /\ alive' \subseteq alive
    BY <1>3 DEF PluginExits
  <2> QED
    BY <2>1 DEF ProcessesAreManaged, At, Op, Arg
<1>4. CASE UNCHANGED wvars
  BY <1>4 DEF wvars, ProcessesAreManaged, At, Op, Arg
<1> QED
  BY <1>1, <1>2, <1>3, <1>4, NextActs

\* Every process that runs is in the host's table, or in the hands of the call
\* that starts it.
THEOREM NoStrayProcess == WSpec => []ProcessesAreManaged
<1>1. WInit => Shape /\ ProcessesAreManaged
  BY ShapeInit DEF WInit, ProcessesAreManaged
<1>2. Shape /\ ProcessesAreManaged /\ [WNext]_wvars => (Shape /\ ProcessesAreManaged)'
  BY ShapeStep, ManagedStep
<1> QED
  BY <1>1, <1>2, PTL DEF WSpec

\* An episode has the instance it runs on for itself, and every process that
\* runs can be stopped.
THEOREM RunsAlone == ASSUME WorkerConstants PROVE WSpec => []ExclusiveUse
<1>1. UsedByOne /\ ProcessesAreManaged => ExclusiveUse
  BY DEF ExclusiveUse
<1> QED
  BY <1>1, HeldByOne, NoStrayProcess, PTL

-----------------------------------------------------------------------------
(* Sessions of the SWE runtime (SweSessions).                              *)

Steps == {"idle", "provision", "setup", "patch", "lookup", "evaluate", "graded", "outcome",
          "release", "exec", "destroy", "done"}
JobStates == [at : Steps, kind : {"gateway", "episode", "native"}, s : Sessions \cup {noSession},
              watched : BOOLEAN]

TypeOK ==
    /\ job \in [Jobs -> JobStates]
    /\ \A j \in Jobs : job[j].at \notin {"idle", "done"} => job[j].s \in Sessions
    /\ table \subseteq Sessions /\ known \subseteq Sessions
    /\ submissions \in [Sessions -> {"none", "running", "completed", "failed"}]
    /\ evaluations \in [Sessions -> Nat]

\* The reservations are the sessions being made ready, and with the table
\* they fit.
Slots ==
    /\ TypeOK
    /\ IsFiniteSet(table)
    /\ pending = Cardinality(Provisioning)
    /\ Cardinality(table) + Cardinality(Provisioning) <= Capacity

\* The job evaluates session s for a submit of the gateway.
Evaluates(j, s) ==
    /\ job[j].kind # "native"
    /\ job[j].at \in {"lookup", "evaluate", "graded", "outcome"}
    /\ job[j].s = s

\* Only evaluating jobs are watched, and a native episode submits its own.
Watches ==
    \A j \in Jobs : /\ job[j].watched => Evaluates(j, job[j].s)
                    /\ job[j].at = "patch" => job[j].kind = "native"

\* One job evaluates a session that nobody deletes, at most; the submission
\* says so from before it starts, and the count once it has begun.
OneEvaluation ==
    \A s \in Sessions \ deleting :
        /\ submissions[s] = "none" => evaluations[s] = 0
        /\ \A j \in Jobs : Evaluates(j, s) =>
              /\ submissions[s] # "none"
              /\ evaluations[s] = IF job[j].at = "lookup" THEN 0 ELSE 1
              /\ \A k \in Jobs : Evaluates(k, s) => k = j

Submits == TypeOK /\ Watches /\ OneEvaluation /\ SubmitOnce

-----------------------------------------------------------------------------
(* What a step does to the job that takes it.                              *)

LEMMA JobRecords ==
    /\ IdleJob \in JobStates /\ DoneJob \in JobStates
    /\ DoneJob.at = "done" /\ DoneJob.watched = FALSE
<1>1. IdleJob \in JobStates
  BY DEF IdleJob, JobStates, Steps
<1>2. IdleJob.watched = FALSE
  BY DEF IdleJob
<1>3. DoneJob = [IdleJob EXCEPT !.at = "done"] /\ "done" \in Steps
  BY DEF DoneJob, Steps
<1> QED
  BY <1>1, <1>2, <1>3 DEF JobStates

\* A job that is put into a new state is the only one that changes.
LEMMA JobMoves ==
    ASSUME TypeOK, NEW j \in Jobs, NEW r \in JobStates,
           r.at \notin {"idle", "done"} => r.s \in Sessions,
           job' = [job EXCEPT ![j] = r]
    PROVE  /\ job' \in [Jobs -> JobStates]
           /\ \A k \in Jobs : job'[k].at \notin {"idle", "done"} => job'[k].s \in Sessions
           /\ job'[j] = r
           /\ \A k \in Jobs \ {j} : job'[k] = job[k]
BY DEF TypeOK

\* EndJob forgets what the job was about.
LEMMA JobEnds ==
    ASSUME TypeOK, NEW j \in Jobs, EndJob(j)
    PROVE  /\ job' \in [Jobs -> JobStates]
           /\ \A k \in Jobs : job'[k].at \notin {"idle", "done"} => job'[k].s \in Sessions
           /\ job'[j] = DoneJob /\ job'[j].at = "done" /\ job'[j].watched = FALSE
           /\ \A k \in Jobs \ {j} : job'[k] = job[k]
<1>1. DoneJob \in JobStates /\ DoneJob.at = "done" /\ DoneJob.watched = FALSE
  BY JobRecords
<1>2. job' = [job EXCEPT ![j] = DoneJob]
  BY DEF EndJob
<1> QED
  BY <1>1, <1>2, JobMoves

\* Go keeps the session, the kind and the watch of the job.
LEMMA JobGoes ==
    ASSUME TypeOK, NEW j \in Jobs, NEW at \in Steps, job[j].at \notin {"idle", "done"}, Go(j, at)
    PROVE  /\ job' \in [Jobs -> JobStates]
           /\ \A k \in Jobs : job'[k].at \notin {"idle", "done"} => job'[k].s \in Sessions
           /\ job'[j].at = at /\ job'[j].kind = job[j].kind
           /\ job'[j].s = job[j].s /\ job'[j].watched = job[j].watched
           /\ \A k \in Jobs \ {j} : job'[k] = job[k]
<1> DEFINE r == [at |-> at, kind |-> job[j].kind, s |-> job[j].s, watched |-> job[j].watched]
<1>1. job[j] \in JobStates /\ job[j].s \in Sessions
  BY DEF TypeOK
<1>2. r \in JobStates /\ r.s \in Sessions
  BY <1>1 DEF JobStates
<1>3. [job[j] EXCEPT !.at = at] = r
  BY <1>1 DEF JobStates
<1>4. job' = [job EXCEPT ![j] = r]
  BY <1>3 DEF Go, TypeOK
<1> HIDE DEF r
<1>5. /\ job' \in [Jobs -> JobStates]
      /\ \A k \in Jobs : job'[k].at \notin {"idle", "done"} => job'[k].s \in Sessions
      /\ job'[j] = r
      /\ \A k \in Jobs \ {j} : job'[k] = job[k]
  BY <1>2, <1>4, JobMoves
<1>6. r.at = at /\ r.kind = job[j].kind /\ r.s = job[j].s /\ r.watched = job[j].watched
  BY DEF r
<1> QED
  BY <1>5, <1>6

\* A job that starts work on session s.
LEMMA JobStarts ==
    ASSUME TypeOK, NEW j \in Jobs, NEW at \in Steps, NEW kind \in {"gateway", "episode", "native"},
           NEW s \in Sessions, NEW w \in BOOLEAN,
           Start(j, at, kind, s, w)
    PROVE  /\ job' \in [Jobs -> JobStates]
           /\ \A k \in Jobs : job'[k].at \notin {"idle", "done"} => job'[k].s \in Sessions
           /\ job'[j].at = at /\ job'[j].kind = kind /\ job'[j].s = s /\ job'[j].watched = w
           /\ \A k \in Jobs \ {j} : job'[k] = job[k]
<1> DEFINE r == [at |-> at, kind |-> kind, s |-> s, watched |-> w]
<1>1. r \in JobStates /\ r.s \in Sessions
  BY DEF JobStates
<1>2. r.at = at /\ r.kind = kind /\ r.s = s /\ r.watched = w
  OBVIOUS
<1>3. job' = [job EXCEPT ![j] = r]
  BY DEF Start
<1> HIDE DEF r
<1> QED
  BY <1>1, <1>2, <1>3, JobMoves

-----------------------------------------------------------------------------
(* Type correctness.                                                       *)

LEMMA SettleMoves ==
    ASSUME TypeOK, NEW j \in Jobs, job[j].at \notin {"idle", "done"},
           NEW state \in {"completed", "failed"}, Settle(j, state)
    PROVE  /\ job' \in [Jobs -> JobStates]
           /\ \A k \in Jobs : job'[k].at \notin {"idle", "done"} => job'[k].s \in Sessions
           /\ \A k \in Jobs \ {j} : job'[k] = job[k]
           /\ job[j].kind = "native" => job'[j].at = "release" /\ job'[j].watched = job[j].watched
           /\ job[j].kind # "native" => job'[j].at = "done" /\ job'[j].watched = FALSE
           /\ submissions' = IF job[j].kind # "native" /\ job[j].watched
                             THEN [submissions EXCEPT ![job[j].s] = state] ELSE submissions
<1>1. CASE job[j].kind = "native"
  <2>1. Go(j, "release") /\ "release" \in Steps /\ submissions' = submissions
    BY <1>1 DEF Settle, Steps
  <2> QED
    BY <1>1, <2>1, JobGoes
<1>2. CASE job[j].kind # "native"
  <2>1. EndJob(j) /\ submissions' = IF job[j].watched THEN [submissions EXCEPT ![job[j].s] = state]
                                    ELSE submissions
    BY <1>2 DEF Settle, Answer
  <2> QED
    BY <1>2, <2>1, JobEnds
<1> QED
  BY <1>1, <1>2

LEMMA TypeStep ==
    ASSUME TypeOK, [SNext]_svars
    PROVE  TypeOK'
<1> SUFFICES /\ job' \in [Jobs -> JobStates]
             /\ \A k \in Jobs : job'[k].at \notin {"idle", "done"} => job'[k].s \in Sessions
             /\ table' \subseteq Sessions /\ known' \subseteq Sessions
             /\ submissions' \in [Sessions -> {"none", "running", "completed", "failed"}]
             /\ evaluations' \in [Sessions -> Nat]
  BY DEF TypeOK
<1> USE DEF slots, answers
<1>st. {"provision", "setup", "patch", "lookup", "evaluate", "graded", "outcome", "release", "exec",
        "destroy"} \subseteq Steps
  BY DEF Steps
<1>0. CASE UNCHANGED svars
  BY <1>0 DEF svars, TypeOK
<1>1. ASSUME NEW j \in Jobs, NEW kind \in {"gateway", "episode", "native"}, Reserve(j, kind)
      PROVE  TypeOK'
  <2>1. UNCHANGED <<table, known, submissions, evaluations>>
    BY <1>1 DEF Reserve
  <2>2. EndJob(j) \/ \E s \in Sessions : Start(j, "provision", kind, s, FALSE)
    BY <1>1 DEF Reserve, Start
  <2>3. /\ job' \in [Jobs -> JobStates]
        /\ \A k \in Jobs : job'[k].at \notin {"idle", "done"} => job'[k].s \in Sessions
    BY <2>2, <1>st, JobEnds, JobStarts
  <2> QED
    BY <2>1, <2>3 DEF TypeOK
<1>2. ASSUME NEW j \in Jobs, provision(j)
      PROVE  TypeOK'
  <2>1. UNCHANGED <<table, known, submissions, evaluations>> /\ (Go(j, "setup") \/ EndJob(j))
        /\ job[j].at = "provision"
    BY <1>2 DEF provision
  <2>2. /\ job' \in [Jobs -> JobStates]
        /\ \A k \in Jobs : job'[k].at \notin {"idle", "done"} => job'[k].s \in Sessions
    BY <2>1, <1>st, JobEnds, JobGoes
  <2> QED
    BY <2>1, <2>2 DEF TypeOK
<1>3. ASSUME NEW j \in Jobs, SetupSession(j)
      PROVE  TypeOK'
  <2>1. /\ job[j].at = "setup" /\ job[j].s \in Sessions
        /\ Go(j, "patch") \/ EndJob(j)
        /\ table' \subseteq table \cup {job[j].s} /\ known' \subseteq known \cup {job[j].s}
        /\ UNCHANGED <<submissions, evaluations>>
    BY <1>3 DEF SetupSession, TypeOK
  <2>2. /\ job' \in [Jobs -> JobStates]
        /\ \A k \in Jobs : job'[k].at \notin {"idle", "done"} => job'[k].s \in Sessions
    BY <2>1, <1>st, JobEnds, JobGoes
  <2> QED
    BY <2>1, <2>2 DEF TypeOK
<1>4. ASSUME NEW j \in Jobs, apply_gold_contract(j)
      PROVE  TypeOK'
  <2>1. /\ job[j].at = "patch"
        /\ Go(j, "lookup") \/ Go(j, "release")
        /\ UNCHANGED <<table, known, submissions, evaluations>>
    BY <1>4 DEF apply_gold_contract
  <2>2. /\ job' \in [Jobs -> JobStates]
        /\ \A k \in Jobs : job'[k].at \notin {"idle", "done"} => job'[k].s \in Sessions
    BY <2>1, <1>st, JobGoes
  <2> QED
    BY <2>1, <2>2 DEF TypeOK
<1>5. ASSUME NEW j \in Jobs, NativeRelease(j) \/ destroy(j) \/ SessionUsed(j)
      PROVE  TypeOK'
  <2>1. EndJob(j) /\ table' \subseteq table /\ UNCHANGED <<known, submissions, evaluations>>
    BY <1>5 DEF NativeRelease, destroy, SessionUsed
  <2> QED
    BY <2>1, JobEnds DEF TypeOK
<1>6. ASSUME NEW j \in Jobs, UseSession(j)
      PROVE  TypeOK'
  <2>1. PICK s \in table \cap known : Start(j, "exec", "gateway", s, FALSE)
    BY <1>6 DEF UseSession, Start
  <2>2. s \in Sessions /\ UNCHANGED <<table, known, submissions, evaluations>>
    BY <1>6 DEF UseSession, TypeOK
  <2> QED
    BY <2>1, <2>2, <1>st, JobStarts DEF TypeOK
<1>7. ASSUME NEW j \in Jobs, submit(j)
      PROVE  TypeOK'
  <2>1. PICK s \in known :
           IF submissions[s] # "none" THEN EndJob(j) /\ UNCHANGED submissions
           ELSE /\ submissions' = [submissions EXCEPT ![s] = "running"]
                /\ Start(j, "lookup", "gateway", s, TRUE)
    BY <1>7 DEF submit, Start
  <2>2. s \in Sessions /\ UNCHANGED <<table, known, evaluations>>
    BY <1>7 DEF submit, TypeOK
  <2>3. /\ job' \in [Jobs -> JobStates]
        /\ \A k \in Jobs : job'[k].at \notin {"idle", "done"} => job'[k].s \in Sessions
    BY <2>1, <2>2, <1>st, JobEnds, JobStarts
  <2> QED
    BY <2>1, <2>2, <2>3 DEF TypeOK
<1>8. ASSUME NEW j \in Jobs, SubmitLookup(j)
      PROVE  TypeOK'
  <2>1. job[j].at = "lookup" /\ UNCHANGED <<table, known>>
    BY <1>8 DEF SubmitLookup
  <2>2. evaluations' \in [Sessions -> Nat]
    BY <1>8 DEF SubmitLookup, TypeOK
  <2>3. CASE Go(j, "evaluate") /\ UNCHANGED submissions
    BY <2>1, <2>2, <2>3, <1>st, JobGoes DEF TypeOK
  <2>4. CASE Settle(j, "failed")
    BY <2>1, <2>2, <2>4, SettleMoves DEF TypeOK
  <2> QED
    BY <1>8, <2>3, <2>4 DEF SubmitLookup
<1>9. ASSUME NEW j \in Jobs, evaluate(j)
      PROVE  TypeOK'
  <2>1. job[j].at = "evaluate" /\ UNCHANGED <<table, known, evaluations>>
    BY <1>9 DEF evaluate
  <2>3. CASE Go(j, "graded") /\ UNCHANGED submissions
    BY <2>1, <2>3, <1>st, JobGoes DEF TypeOK
  <2>4. CASE Settle(j, "failed")
    BY <2>1, <2>4, SettleMoves DEF TypeOK
  <2> QED
    BY <1>9, <2>3, <2>4 DEF evaluate
<1>10. ASSUME NEW j \in Jobs, seal_trajectory(j)
       PROVE  TypeOK'
  <2>1. job[j].at = "graded" /\ Go(j, "outcome") /\ UNCHANGED <<table, known, submissions, evaluations>>
    BY <1>10 DEF seal_trajectory
  <2> QED
    BY <2>1, <1>st, JobGoes DEF TypeOK
<1>11. ASSUME NEW j \in Jobs, RecordOutcome(j)
       PROVE  TypeOK'
  <2>1. job[j].at = "outcome" /\ Settle(j, "completed") /\ UNCHANGED <<table, known, evaluations>>
    BY <1>11 DEF RecordOutcome
  <2> QED
    BY <2>1, SettleMoves DEF TypeOK
<1>12. ASSUME NEW j \in Jobs, SubmitTimeout(j)
       PROVE  TypeOK'
  <2>1. /\ job' = [job EXCEPT ![j].watched = FALSE]
        /\ submissions' = [submissions EXCEPT ![job[j].s] = "failed"]
        /\ table' \subseteq table /\ UNCHANGED <<known, evaluations>>
    BY <1>12 DEF SubmitTimeout, Answer
  <2>2. /\ job' \in [Jobs -> JobStates]
        /\ \A k \in Jobs : job'[k].at = job[k].at /\ job'[k].s = job[k].s
    BY <2>1 DEF TypeOK, JobStates
  <2> QED
    BY <2>1, <2>2 DEF TypeOK
<1>13. ASSUME NEW j \in Jobs, DeleteSubmission(j)
       PROVE  TypeOK'
  <2>1. PICK s \in known : /\ submissions' = [submissions EXCEPT ![s] = "none"]
                           /\ Start(j, "destroy", "gateway", s, FALSE)
    BY <1>13 DEF DeleteSubmission, Start, Answer
  <2>2. s \in Sessions /\ UNCHANGED <<table, known, evaluations>>
    BY <1>13 DEF DeleteSubmission, TypeOK
  <2> QED
    BY <2>1, <2>2, <1>st, JobStarts DEF TypeOK
<1>14. CASE SDone
  BY <1>14, <1>0 DEF SDone
<1> QED
  BY <1>0, <1>1, <1>2, <1>3, <1>4, <1>5, <1>6, <1>7, <1>8, <1>9, <1>10, <1>11, <1>12, <1>13, <1>14
     DEF SNext, create_session, create_session_for_episode, run_episode, TypeOK

-----------------------------------------------------------------------------
(* The capacity of the pool.                                               *)

LEMMA Reservations ==
    ASSUME SessionConstants
    PROVE  IsFiniteSet(Provisioning) /\ Cardinality(Provisioning) \in Nat
<1>1. Provisioning \in SUBSET Jobs /\ IsFiniteSet(Jobs)
  BY DEF Provisioning, SessionConstants
<1> QED
  BY <1>1, FS_Subset, FS_CardinalityType

\* A step that neither reserves nor provisions, and puts nothing in the table.
LEMMA SlotsKept ==
    ASSUME SessionConstants, Slots, TypeOK', Provisioning' = Provisioning, pending' = pending,
           table' \subseteq table
    PROVE  Slots'
<1>1. IsFiniteSet(table') /\ Cardinality(table') <= Cardinality(table) /\ Cardinality(table') \in Nat
      /\ Cardinality(table) \in Nat
  <2>1. IsFiniteSet(table) /\ table' \in SUBSET table
    BY DEF Slots
  <2> QED
    BY <2>1, FS_Subset, FS_CardinalityType
<1>2. Cardinality(Provisioning) \in Nat /\ Capacity \in Nat
  BY Reservations DEF SessionConstants
<1> QED
  BY <1>1, <1>2 DEF Slots

\* The job gives its reservation back, and puts one session in the table at
\* most.
LEMMA SlotsFreed ==
    ASSUME SessionConstants, Slots, TypeOK', NEW j \in Provisioning, NEW s,
           Provisioning' = Provisioning \ {j}, pending' = pending - 1, table' \subseteq table \cup {s}
    PROVE  Slots'
<1>1. /\ IsFiniteSet(table') /\ Cardinality(table') <= Cardinality(table) + 1
      /\ Cardinality(table') \in Nat /\ Cardinality(table) \in Nat
  <2>1. IsFiniteSet(table) /\ table' \in SUBSET (table \cup {s})
    BY DEF Slots
  <2>2. IsFiniteSet(table \cup {s}) /\ Cardinality(table \cup {s}) <= Cardinality(table) + 1
        /\ Cardinality(table \cup {s}) \in Nat /\ Cardinality(table) \in Nat
    BY <2>1, FS_AddElement, FS_CardinalityType
  <2>3. IsFiniteSet(table') /\ Cardinality(table') <= Cardinality(table \cup {s}) /\ Cardinality(table') \in Nat
    BY <2>1, <2>2, FS_Subset, FS_CardinalityType
  <2> QED
    BY <2>2, <2>3
<1>2. /\ Cardinality(Provisioning) \in Nat
      /\ Cardinality(Provisioning') = Cardinality(Provisioning) - 1
  BY Reservations, FS_RemoveElement
<1>3. Capacity \in Nat
  BY DEF SessionConstants
<1> QED
  BY <1>1, <1>2, <1>3 DEF Slots

LEMMA SlotsStep ==
    ASSUME SessionConstants, Slots, [SNext]_svars
    PROVE  Slots'
<1> USE DEF slots, answers
<1>t. TypeOK /\ TypeOK'
  BY TypeStep DEF Slots
<1>st. {"provision", "setup", "patch", "lookup", "evaluate", "graded", "outcome", "release", "exec",
        "destroy"} \subseteq Steps
  BY DEF Steps
<1>0. CASE UNCHANGED svars
  BY <1>0, <1>t, SlotsKept DEF svars, Provisioning
<1>1. ASSUME NEW j \in Jobs, NEW kind \in {"gateway", "episode", "native"}, Reserve(j, kind)
      PROVE  Slots'
  <2>1. CASE EndJob(j) /\ UNCHANGED <<pending, made>>
    <3>1. Provisioning' = Provisioning
      BY <1>1, <2>1, <1>t, JobEnds DEF Provisioning, Reserve
    <3> QED
      BY <1>1, <2>1, <3>1, <1>t, SlotsKept DEF Reserve
  <2>2. ASSUME NEW s \in Sessions, Cardinality(table) + pending < Capacity, pending' = pending + 1,
               Start(j, "provision", kind, s, FALSE)
        PROVE  Slots'
    <3>1. Provisioning' = Provisioning \cup {j} /\ j \notin Provisioning
      <4>1. "provision" \in Steps /\ FALSE \in BOOLEAN
        BY <1>st
      <4>2. job'[j].at = "provision" /\ \A k \in Jobs \ {j} : job'[k] = job[k]
        BY <2>2, <4>1, <1>t, JobStarts DEF Start
      <4>3. job[j].at = "idle"
        BY <1>1 DEF Reserve
      <4> QED
        BY <4>2, <4>3 DEF Provisioning
    <3>2. /\ Cardinality(Provisioning) \in Nat
          /\ Cardinality(Provisioning') = Cardinality(Provisioning) + 1
      BY <3>1, Reservations, FS_AddElement
    <3>3. table' = table /\ IsFiniteSet(table) /\ Cardinality(table) \in Nat /\ Capacity \in Nat
      BY <1>1, FS_CardinalityType DEF Reserve, Slots, SessionConstants
    <3> QED
      BY <2>2, <3>2, <3>3, <1>t DEF Slots
  <2> QED
    BY <1>1, <2>1, <2>2 DEF Reserve
<1>2. ASSUME NEW j \in Jobs, provision(j)
      PROVE  Slots'
  <2>1. CASE Go(j, "setup") /\ UNCHANGED pending
    <3>1. Provisioning' = Provisioning
      BY <1>2, <2>1, <1>t, <1>st, JobGoes DEF Provisioning, provision
    <3> QED
      BY <1>2, <2>1, <3>1, <1>t, SlotsKept DEF provision
  <2>2. CASE EndJob(j) /\ pending' = pending - 1
    <3>1. j \in Provisioning /\ Provisioning' = Provisioning \ {j}
      BY <1>2, <2>2, <1>t, JobEnds DEF Provisioning, provision
    <3>2. table' \subseteq table \cup {job[j].s}
      BY <1>2 DEF provision
    <3> QED
      BY <2>2, <3>1, <3>2, <1>t, SlotsFreed
  <2> QED
    BY <1>2, <2>1, <2>2 DEF provision
<1>3. ASSUME NEW j \in Jobs, SetupSession(j)
      PROVE  Slots'
  <2>1. /\ job[j].at = "setup" /\ pending' = pending - 1
        /\ Go(j, "patch") \/ EndJob(j)
        /\ table' \subseteq table \cup {job[j].s}
    BY <1>3 DEF SetupSession
  <2>2. /\ job'[j].at \in {"patch", "done"}
        /\ \A k \in Jobs \ {j} : job'[k] = job[k]
    <3>1. CASE Go(j, "patch")
      BY <2>1, <3>1, <1>t, <1>st, JobGoes
    <3>2. CASE EndJob(j)
      BY <2>1, <3>2, <1>t, JobEnds
    <3> QED
      BY <2>1, <3>1, <3>2
  <2>3. j \in Provisioning /\ Provisioning' = Provisioning \ {j}
    BY <2>1, <2>2 DEF Provisioning
  <2> QED
    BY <2>1, <2>3, <1>t, SlotsFreed
<1>4. ASSUME NEW j \in Jobs, apply_gold_contract(j)
      PROVE  Slots'
  <2>1. /\ job[j].at = "patch"
        /\ Go(j, "lookup") \/ Go(j, "release")
        /\ UNCHANGED <<table, pending>>
    BY <1>4 DEF apply_gold_contract
  <2>2. Provisioning' = Provisioning
    BY <2>1, <1>t, <1>st, JobGoes DEF Provisioning
  <2> QED
    BY <2>1, <2>2, <1>t, SlotsKept
<1>5. ASSUME NEW j \in Jobs, NativeRelease(j) \/ destroy(j) \/ SessionUsed(j)
      PROVE  Slots'
  <2>1. /\ job[j].at \in {"release", "destroy", "exec"}
        /\ EndJob(j) /\ table' \subseteq table /\ UNCHANGED pending
    BY <1>5 DEF NativeRelease, destroy, SessionUsed
  <2>2. Provisioning' = Provisioning
    BY <2>1, <1>t, JobEnds DEF Provisioning
  <2> QED
    BY <2>1, <2>2, <1>t, SlotsKept
<1>6. ASSUME NEW j \in Jobs, UseSession(j)
      PROVE  Slots'
  <2>1. PICK s \in table \cap known : Start(j, "exec", "gateway", s, FALSE)
    BY <1>6 DEF UseSession, Start
  <2>2. s \in Sessions /\ UNCHANGED <<table, pending>> /\ job[j].at = "idle"
    BY <1>6, <1>t DEF UseSession, TypeOK
  <2>3. Provisioning' = Provisioning
    BY <2>1, <2>2, <1>t, <1>st, JobStarts DEF Provisioning
  <2> QED
    BY <2>2, <2>3, <1>t, SlotsKept
<1>7. ASSUME NEW j \in Jobs, submit(j)
      PROVE  Slots'
  <2>1. PICK s \in known : EndJob(j) \/ Start(j, "lookup", "gateway", s, TRUE)
    BY <1>7 DEF submit, Start
  <2>2. s \in Sessions /\ UNCHANGED <<table, pending>> /\ job[j].at = "idle"
    BY <1>7, <1>t DEF submit, TypeOK
  <2>3. Provisioning' = Provisioning
    BY <2>1, <2>2, <1>t, <1>st, JobEnds, JobStarts DEF Provisioning
  <2> QED
    BY <2>2, <2>3, <1>t, SlotsKept
<1>8. ASSUME NEW j \in Jobs, SubmitLookup(j) \/ evaluate(j) \/ seal_trajectory(j) \/ RecordOutcome(j)
      PROVE  Slots'
  <2>1. /\ job[j].at \in {"lookup", "evaluate", "graded", "outcome"}
        /\ \/ \E at \in {"evaluate", "graded", "outcome"} : Go(j, at)
           \/ \E state \in {"failed", "completed"} : Settle(j, state)
        /\ UNCHANGED <<table, pending>>
    BY <1>8 DEF SubmitLookup, evaluate, seal_trajectory, RecordOutcome
  <2>2. /\ job'[j].at \in {"evaluate", "graded", "outcome", "release", "done"}
        /\ \A k \in Jobs \ {j} : job'[k] = job[k]
    <3>1. CASE \E at \in {"evaluate", "graded", "outcome"} : Go(j, at)
      BY <2>1, <3>1, <1>t, <1>st, JobGoes
    <3>2. CASE \E state \in {"failed", "completed"} : Settle(j, state)
      BY <2>1, <3>2, <1>t, SettleMoves
    <3> QED
      BY <2>1, <3>1, <3>2
  <2>3. Provisioning' = Provisioning
    BY <2>1, <2>2 DEF Provisioning
  <2> QED
    BY <2>1, <2>3, <1>t, SlotsKept
<1>9. ASSUME NEW j \in Jobs, SubmitTimeout(j)
      PROVE  Slots'
  <2>1. job' = [job EXCEPT ![j].watched = FALSE] /\ table' \subseteq table /\ UNCHANGED pending
    BY <1>9 DEF SubmitTimeout
  <2>2. \A k \in Jobs : job'[k].at = job[k].at
    BY <2>1, <1>t DEF TypeOK, JobStates
  <2>3. Provisioning' = Provisioning
    BY <2>2 DEF Provisioning
  <2> QED
    BY <2>1, <2>3, <1>t, SlotsKept
<1>10. ASSUME NEW j \in Jobs, DeleteSubmission(j)
       PROVE  Slots'
  <2>1. PICK s \in known : Start(j, "destroy", "gateway", s, FALSE)
    BY <1>10 DEF DeleteSubmission, Start
  <2>2. s \in Sessions /\ UNCHANGED <<table, pending>> /\ job[j].at = "idle"
    BY <1>10, <1>t DEF DeleteSubmission, TypeOK
  <2>3. Provisioning' = Provisioning
    BY <2>1, <2>2, <1>t, <1>st, JobStarts DEF Provisioning
  <2> QED
    BY <2>2, <2>3, <1>t, SlotsKept
<1>11. CASE SDone
  BY <1>11, <1>0 DEF SDone
<1> QED
  BY <1>0, <1>1, <1>2, <1>3, <1>4, <1>5, <1>6, <1>7, <1>8, <1>9, <1>10, <1>11
     DEF SNext, create_session, create_session_for_episode, run_episode

\* Every container that runs is in the table or held by a job.
LEMMA ContainersBounded ==
    ASSUME SessionConstants, Slots
    PROVE  Cardinality(Containers) <= Capacity + Cardinality({j \in Jobs : Holds(j)})
<1> DEFINE Holders == {j \in Jobs : Holds(j)}
           Held == {job[j].s : j \in Holders}
           sessionOf == [j \in Holders |-> job[j].s]
<1>1. IsFiniteSet(Holders) /\ Cardinality(Holders) \in Nat
  <2>1. Holders \in SUBSET Jobs /\ IsFiniteSet(Jobs)
    BY DEF SessionConstants
  <2> QED
    BY <2>1, FS_Subset, FS_CardinalityType
<1>2. IsFiniteSet(Held) /\ Cardinality(Held) <= Cardinality(Holders) /\ Cardinality(Held) \in Nat
  <2>1. sessionOf \in Surjection(Holders, Held)
    BY DEF Surjection
  <2> HIDE DEF Holders, Held, sessionOf
  <2> QED
    BY <1>1, <2>1, FS_Surjection, FS_CardinalityType
<1>3. IsFiniteSet(table) /\ Cardinality(table) \in Nat /\ Cardinality(table) <= Capacity /\ Capacity \in Nat
  BY FS_CardinalityType, Reservations DEF Slots, SessionConstants
<1>4. Containers \in SUBSET (table \cup Held)
  BY DEF Containers
<1> HIDE DEF Holders, Held
<1>5. /\ IsFiniteSet(table \cup Held)
      /\ Cardinality(table \cup Held) = Cardinality(table) + Cardinality(Held) - Cardinality(table \cap Held)
      /\ Cardinality(table \cap Held) \in Nat /\ Cardinality(table \cup Held) \in Nat
  <2>1. IsFiniteSet(table \cap Held)
    BY <1>3, FS_Intersection
  <2> QED
    BY <1>2, <1>3, <2>1, FS_Union, FS_CardinalityType
<1>6. Cardinality(Containers) <= Cardinality(table \cup Held) /\ Cardinality(Containers) \in Nat
  BY <1>4, <1>5, FS_Subset, FS_CardinalityType
<1>7. Cardinality(Containers) <= Capacity + Cardinality(Holders)
  BY <1>1, <1>2, <1>3, <1>5, <1>6
<1> QED
  BY <1>7 DEF Holders

\* The pool never holds or prepares more sessions than its capacity, no
\* reservation is lost, and no container outlives the table and the jobs.
THEOREM PoolWithinCapacity ==
    ASSUME SessionConstants
    PROVE  SSpec => []SessionsFitCapacity
<1>1. SInit => Slots
  <2> SUFFICES ASSUME SInit PROVE Slots
    OBVIOUS
  <2>1. job = [j \in Jobs |-> IdleJob] /\ table = {} /\ pending = 0
    BY DEF SInit
  <2>2. TypeOK
    <3>1. IdleJob \in JobStates /\ IdleJob.at = "idle"
      BY JobRecords DEF IdleJob
    <3> QED
      BY <2>1, <3>1 DEF SInit, TypeOK
  <2>3. Provisioning = {}
    BY <2>1 DEF Provisioning, IdleJob
  <2> QED
    BY <2>1, <2>2, <2>3, FS_EmptySet DEF Slots, SessionConstants
<1>2. Slots /\ [SNext]_svars => Slots'
  BY SlotsStep
<1>3. Slots => SessionsFitCapacity
  BY ContainersBounded DEF Slots, SessionsFitCapacity
<1> QED
  BY <1>1, <1>2, <1>3, PTL DEF SSpec

-----------------------------------------------------------------------------
(* A session is evaluated once.                                            *)

\* A step of a job that evaluates nothing for the gateway, before and after.
LEMMA Bystander ==
    ASSUME Submits, TypeOK', NEW j \in Jobs,
           job[j].watched = FALSE, job'[j].watched = FALSE,
           job'[j].kind # "native" => job'[j].at \notin {"patch", "lookup", "evaluate", "graded", "outcome"},
           \A k \in Jobs \ {j} : job'[k] = job[k],
           UNCHANGED <<submissions, evaluations, deleting>>
    PROVE  Submits'
<1>1. \A k \in Jobs, s \in Sessions : Evaluates(k, s)' => k # j /\ Evaluates(k, s)
  BY DEF Evaluates
<1>2. Watches'
  <2> SUFFICES ASSUME NEW k \in Jobs
               PROVE  /\ job'[k].watched => Evaluates(k, job[k].s)'
                      /\ job'[k].at = "patch" => job'[k].kind = "native"
    BY DEF Watches, Evaluates
  <2>1. CASE k = j
    BY <2>1
  <2>2. CASE k # j
    BY <2>2 DEF Submits, Watches, Evaluates
  <2> QED
    BY <2>1, <2>2
<1>3. OneEvaluation'
  BY <1>1 DEF Submits, OneEvaluation, Evaluates
<1>4. SubmitOnce'
  BY DEF Submits, SubmitOnce
<1> QED
  BY <1>2, <1>3, <1>4 DEF Submits

\* An evaluation goes on: it is counted when its session has been found.
LEMMA Evaluating ==
    ASSUME Submits, TypeOK', NEW j \in Jobs, job[j].kind # "native",
           job[j].at \in {"lookup", "evaluate", "graded", "outcome"},
           job'[j].at \in {"evaluate", "graded", "outcome"},
           job'[j].kind = job[j].kind, job'[j].s = job[j].s, job'[j].watched = job[j].watched,
           \A k \in Jobs \ {j} : job'[k] = job[k],
           UNCHANGED <<submissions, deleting>>,
           evaluations' = IF job[j].at = "lookup" THEN [evaluations EXCEPT ![job[j].s] = @ + 1]
                          ELSE evaluations
    PROVE  Submits'
<1>1. \A k \in Jobs, s \in Sessions : Evaluates(k, s)' <=> Evaluates(k, s)
  BY DEF Evaluates
<1>2. job[j].s \in Sessions /\ Evaluates(j, job[j].s)
  BY DEF Submits, TypeOK, Evaluates
<1>3. Watches'
  BY DEF Submits, Watches, Evaluates
<1>4. \A s \in Sessions : evaluations'[s] = IF job[j].at = "lookup" /\ s = job[j].s THEN evaluations[s] + 1
                                            ELSE evaluations[s]
  BY <1>2 DEF Submits, TypeOK
<1>5. job[j].s \notin deleting => /\ evaluations'[job[j].s] = 1
                                  /\ submissions[job[j].s] # "none"
                                  /\ \A k \in Jobs : Evaluates(k, job[j].s) => k = j
  BY <1>2, <1>4 DEF Submits, OneEvaluation
<1>6. OneEvaluation'
  <2> SUFFICES ASSUME NEW s \in Sessions \ deleting
               PROVE  /\ submissions[s] = "none" => evaluations'[s] = 0
                      /\ \A k \in Jobs : Evaluates(k, s)' =>
                            /\ submissions[s] # "none"
                            /\ evaluations'[s] = IF job'[k].at = "lookup" THEN 0 ELSE 1
                            /\ \A l \in Jobs : Evaluates(l, s)' => l = k
    BY DEF OneEvaluation, Evaluates
  <2>1. CASE s = job[j].s
    BY <1>1, <1>5, <2>1
  <2>2. CASE s # job[j].s
    <3>1. evaluations'[s] = evaluations[s] /\ ~Evaluates(j, s)
      BY <1>4, <2>2 DEF Evaluates
    <3>2. \A k \in Jobs : Evaluates(k, s) => job'[k] = job[k]
      BY <3>1
    <3> QED
      BY <1>1, <3>1, <3>2 DEF Submits, OneEvaluation
  <2> QED
    BY <2>1, <2>2
<1>7. SubmitOnce'
  <2> SUFFICES ASSUME NEW s \in Sessions \ deleting
               PROVE  /\ evaluations'[s] <= 1
                      /\ submissions[s] = "completed" => evaluations'[s] = 1
                      /\ submissions[s] = "running" => \E k \in Jobs : job'[k].watched /\ job'[k].s = s
    BY DEF SubmitOnce
  <2>1. submissions[s] = "running" => \E k \in Jobs : job'[k].watched /\ job'[k].s = s
    BY DEF Submits, SubmitOnce
  <2>2. CASE s = job[j].s
    BY <1>5, <2>1, <2>2
  <2>3. CASE s # job[j].s
    BY <1>4, <2>1, <2>3 DEF Submits, SubmitOnce
  <2> QED
    BY <2>2, <2>3
<1> QED
  BY <1>3, <1>6, <1>7 DEF Submits

\* An evaluation ends: who still watches it answers.
LEMMA Answering ==
    ASSUME Submits, TypeOK', NEW j \in Jobs, job[j].kind # "native",
           job[j].at \in {"lookup", "evaluate", "graded", "outcome"},
           job'[j].at = "done", job'[j].watched = FALSE,
           \A k \in Jobs \ {j} : job'[k] = job[k],
           UNCHANGED <<evaluations, deleting>>,
           NEW state \in {"completed", "failed"},
           state = "completed" => job[j].at # "lookup",
           submissions' = IF job[j].watched THEN [submissions EXCEPT ![job[j].s] = state] ELSE submissions
    PROVE  Submits'
<1>1. \A k \in Jobs, s \in Sessions : Evaluates(k, s)' => k # j /\ Evaluates(k, s) /\ job'[k] = job[k]
  BY DEF Evaluates
<1>2. job[j].s \in Sessions /\ Evaluates(j, job[j].s)
  BY DEF Submits, TypeOK, Evaluates
<1>3. Watches'
  BY DEF Submits, Watches, Evaluates
<1>4. \A s \in Sessions : submissions'[s] = IF job[j].watched /\ s = job[j].s THEN state ELSE submissions[s]
  BY <1>2 DEF Submits, TypeOK
<1>5. job[j].s \notin deleting => /\ evaluations[job[j].s] = IF job[j].at = "lookup" THEN 0 ELSE 1
                                  /\ submissions[job[j].s] # "none"
                                  /\ \A k \in Jobs : Evaluates(k, job[j].s) => k = j
  BY <1>2 DEF Submits, OneEvaluation
<1>6. OneEvaluation'
  <2> SUFFICES ASSUME NEW s \in Sessions \ deleting
               PROVE  /\ submissions'[s] = "none" => evaluations[s] = 0
                      /\ \A k \in Jobs : Evaluates(k, s)' =>
                            /\ submissions'[s] # "none"
                            /\ evaluations[s] = IF job'[k].at = "lookup" THEN 0 ELSE 1
                            /\ \A l \in Jobs : Evaluates(l, s)' => l = k
    BY DEF OneEvaluation, Evaluates
  <2>1. CASE s = job[j].s
    BY <1>1, <1>4, <1>5, <2>1
  <2>2. CASE s # job[j].s
    BY <1>1, <1>4, <2>2 DEF Submits, OneEvaluation
  <2> QED
    BY <2>1, <2>2
<1>7. SubmitOnce'
  <2> SUFFICES ASSUME NEW s \in Sessions \ deleting
               PROVE  /\ evaluations[s] <= 1
                      /\ submissions'[s] = "completed" => evaluations[s] = 1
                      /\ submissions'[s] = "running" => \E k \in Jobs : job'[k].watched /\ job'[k].s = s
    BY DEF SubmitOnce
  <2>1. CASE s = job[j].s /\ job[j].watched
    BY <1>4, <1>5, <2>1
  <2>2. CASE ~(s = job[j].s /\ job[j].watched)
    <3>1. submissions'[s] = submissions[s]
      BY <1>4, <2>2
    <3>2. \A k \in Jobs : job[k].watched /\ job[k].s = s => job'[k] = job[k]
      BY <2>2
    <3> QED
      BY <3>1, <3>2 DEF Submits, SubmitOnce
  <2> QED
    BY <2>1, <2>2
<1> QED
  BY <1>3, <1>6, <1>7 DEF Submits

LEMMA SubmitsStep ==
    ASSUME Submits, [SNext]_svars
    PROVE  Submits'
<1> USE DEF slots, answers
<1>t. TypeOK /\ TypeOK'
  BY TypeStep DEF Submits
<1>st. {"provision", "setup", "patch", "lookup", "evaluate", "graded", "outcome", "release", "exec",
        "destroy"} \subseteq Steps
  BY DEF Steps
<1>w. /\ \A j \in Jobs : job[j].watched \in BOOLEAN /\ job[j].kind \in {"gateway", "episode", "native"}
      /\ \A j \in Jobs : job[j].watched => Evaluates(j, job[j].s)
      /\ \A j \in Jobs : job[j].at = "patch" => job[j].kind = "native"
  BY <1>t DEF Submits, Watches, TypeOK, JobStates
<1>u. \A j \in Jobs : job[j].at \notin {"lookup", "evaluate", "graded", "outcome"} \/ job[j].kind = "native"
                         => job[j].watched = FALSE
  BY <1>w DEF Evaluates
<1>0. CASE UNCHANGED svars
  <2>1. UNCHANGED <<job, submissions, evaluations, deleting>>
    BY <1>0 DEF svars
  <2> QED
    BY <2>1, <1>t DEF Submits, Watches, OneEvaluation, SubmitOnce, Evaluates
<1>1. ASSUME NEW j \in Jobs, NEW kind \in {"gateway", "episode", "native"}, Reserve(j, kind)
      PROVE  Submits'
  <2>1. job[j].at = "idle" /\ UNCHANGED <<submissions, evaluations, deleting>>
    BY <1>1 DEF Reserve
  <2>2. EndJob(j) \/ \E s \in Sessions : Start(j, "provision", kind, s, FALSE)
    BY <1>1 DEF Reserve, Start
  <2>3. job'[j].at \in {"provision", "done"} /\ job'[j].watched = FALSE /\ \A k \in Jobs \ {j} : job'[k] = job[k]
    <3>1. CASE EndJob(j)
      BY <3>1, <1>t, JobEnds
    <3>2. ASSUME NEW s \in Sessions, Start(j, "provision", kind, s, FALSE)
          PROVE  job'[j].at = "provision" /\ job'[j].watched = FALSE /\ \A k \in Jobs \ {j} : job'[k] = job[k]
      BY <3>2, <1>t, <1>st, JobStarts DEF Start
    <3> QED
      BY <2>2, <3>1, <3>2
  <2> QED
    BY <2>1, <2>3, <1>t, <1>u, Bystander
<1>2. ASSUME NEW j \in Jobs, provision(j) \/ SetupSession(j) \/ apply_gold_contract(j)
                             \/ NativeRelease(j) \/ SessionUsed(j) \/ destroy(j)
      PROVE  Submits'
  <2>1. /\ job[j].at \in {"provision", "setup", "patch", "release", "exec", "destroy"}
        /\ UNCHANGED <<submissions, evaluations, deleting>>
        /\ \/ EndJob(j)
           \/ Go(j, "setup")
           \/ job[j].kind = "native" /\ \E at \in {"patch", "lookup", "release"} : Go(j, at)
    BY <1>2, <1>w
       DEF provision, SetupSession, apply_gold_contract, NativeRelease, SessionUsed, destroy
  <2>2. job[j].watched = FALSE
    BY <2>1, <1>u
  <2>3. /\ job'[j].watched = FALSE /\ \A k \in Jobs \ {j} : job'[k] = job[k]
        /\ job'[j].kind # "native" => job'[j].at \in {"setup", "done"}
    <3>1. CASE EndJob(j)
      BY <3>1, <1>t, JobEnds
    <3>2. CASE Go(j, "setup")
      BY <2>1, <2>2, <3>2, <1>t, <1>st, JobGoes
    <3>3. CASE job[j].kind = "native" /\ \E at \in {"patch", "lookup", "release"} : Go(j, at)
      BY <2>1, <2>2, <3>3, <1>t, <1>st, JobGoes
    <3> QED
      BY <2>1, <3>1, <3>2, <3>3
  <2> QED
    BY <2>1, <2>2, <2>3, <1>t, Bystander
<1>3. ASSUME NEW j \in Jobs, UseSession(j)
      PROVE  Submits'
  <2>1. PICK s \in table \cap known : Start(j, "exec", "gateway", s, FALSE)
    BY <1>3 DEF UseSession, Start
  <2>2. s \in Sessions /\ job[j].at = "idle" /\ UNCHANGED <<submissions, evaluations, deleting>>
    BY <1>3, <1>t DEF UseSession, TypeOK
  <2>3. job'[j].at = "exec" /\ job'[j].watched = FALSE /\ \A k \in Jobs \ {j} : job'[k] = job[k]
    BY <2>1, <2>2, <1>t, <1>st, JobStarts DEF Start
  <2> QED
    BY <2>2, <2>3, <1>t, <1>u, Bystander
<1>4. ASSUME NEW j \in Jobs, submit(j)
      PROVE  Submits'
  <2>1. PICK s \in known :
           IF submissions[s] # "none" THEN EndJob(j) /\ UNCHANGED submissions
           ELSE /\ submissions' = [submissions EXCEPT ![s] = "running"]
                /\ Start(j, "lookup", "gateway", s, TRUE)
    BY <1>4 DEF submit, Start
  <2>2. s \in Sessions /\ job[j].at = "idle" /\ UNCHANGED <<evaluations, deleting>>
    BY <1>4, <1>t DEF submit, TypeOK
  <2>3. CASE submissions[s] # "none"
    <3>1. job'[j].at = "done" /\ job'[j].watched = FALSE /\ \A k \in Jobs \ {j} : job'[k] = job[k]
      BY <2>1, <2>3, <1>t, JobEnds
    <3> QED
      BY <2>1, <2>2, <2>3, <3>1, <1>t, <1>u, Bystander
  <2>4. CASE submissions[s] = "none"
    <3>1. /\ job'[j].at = "lookup" /\ job'[j].kind = "gateway" /\ job'[j].s = s /\ job'[j].watched = TRUE
          /\ \A k \in Jobs \ {j} : job'[k] = job[k]
      <4>1. Start(j, "lookup", "gateway", s, TRUE)
        BY <2>1, <2>4
      <4> QED
        BY <2>2, <4>1, <1>t, <1>st, JobStarts DEF Start
    <3>2. \A r \in Sessions : submissions'[r] = IF r = s THEN "running" ELSE submissions[r]
      BY <2>1, <2>2, <2>4, <1>t DEF TypeOK
    <3>3. /\ \A k \in Jobs, r \in Sessions : Evaluates(k, r)' <=> (Evaluates(k, r) \/ (k = j /\ r = s))
          /\ \A r \in Sessions : ~Evaluates(j, r)
      BY <2>2, <3>1 DEF Evaluates
    <3>4. Watches'
      BY <3>1, <1>w DEF Watches, Evaluates
    <3>5. s \notin deleting => evaluations[s] = 0 /\ \A k \in Jobs : ~Evaluates(k, s)
      BY <2>2, <2>4 DEF Submits, OneEvaluation
    <3>6. OneEvaluation'
      <4> SUFFICES ASSUME NEW r \in Sessions \ deleting
                   PROVE  /\ submissions'[r] = "none" => evaluations[r] = 0
                          /\ \A k \in Jobs : Evaluates(k, r)' =>
                                /\ submissions'[r] # "none"
                                /\ evaluations[r] = IF job'[k].at = "lookup" THEN 0 ELSE 1
                                /\ \A l \in Jobs : Evaluates(l, r)' => l = k
        BY <2>2 DEF OneEvaluation, Evaluates
      <4>1. CASE r = s
        BY <3>1, <3>2, <3>3, <3>5, <4>1
      <4>2. CASE r # s
        BY <3>1, <3>2, <3>3, <4>2 DEF Submits, OneEvaluation
      <4> QED
        BY <4>1, <4>2
    <3>7. SubmitOnce'
      <4> SUFFICES ASSUME NEW r \in Sessions \ deleting
                   PROVE  /\ evaluations[r] <= 1
                          /\ submissions'[r] = "completed" => evaluations[r] = 1
                          /\ submissions'[r] = "running" => \E k \in Jobs : job'[k].watched /\ job'[k].s = r
        BY <2>2 DEF SubmitOnce
      <4>1. CASE r = s
        BY <3>1, <3>2, <3>5, <4>1
      <4>2. CASE r # s
        <5>1. submissions'[r] = submissions[r] /\ \A k \in Jobs : job[k].watched => job'[k] = job[k]
          BY <2>2, <3>1, <3>2, <4>2, <1>u
        <5> QED
          BY <5>1 DEF Submits, SubmitOnce
      <4> QED
        BY <4>1, <4>2
    <3> QED
      BY <3>4, <3>6, <3>7, <1>t DEF Submits
  <2> QED
    BY <2>3, <2>4
<1>5. ASSUME NEW j \in Jobs, SubmitLookup(j)
      PROVE  Submits'
  <2>1. job[j].at = "lookup" /\ deleting' = deleting
    BY <1>5 DEF SubmitLookup
  <2>2. CASE /\ Go(j, "evaluate") /\ UNCHANGED submissions
             /\ evaluations' = IF job[j].kind = "native" THEN evaluations
                               ELSE [evaluations EXCEPT ![job[j].s] = @ + 1]
    <3>1. /\ job'[j].at = "evaluate" /\ job'[j].kind = job[j].kind
          /\ job'[j].s = job[j].s /\ job'[j].watched = job[j].watched
          /\ \A k \in Jobs \ {j} : job'[k] = job[k]
      BY <2>1, <2>2, <1>t, <1>st, JobGoes
    <3>2. CASE job[j].kind = "native"
      BY <2>1, <2>2, <3>1, <3>2, <1>t, <1>u, Bystander
    <3>3. CASE job[j].kind # "native"
      BY <2>1, <2>2, <3>1, <3>3, <1>t, Evaluating
    <3> QED
      BY <3>2, <3>3
  <2>3. CASE Settle(j, "failed") /\ UNCHANGED evaluations
    <3>1. CASE job[j].kind = "native"
      BY <2>1, <2>3, <3>1, <1>t, <1>u, SettleMoves, Bystander
    <3>2. CASE job[j].kind # "native"
      BY <2>1, <2>3, <3>2, <1>t, SettleMoves, Answering
    <3> QED
      BY <3>1, <3>2
  <2> QED
    BY <1>5, <2>2, <2>3 DEF SubmitLookup
<1>6. ASSUME NEW j \in Jobs, evaluate(j) \/ seal_trajectory(j)
      PROVE  Submits'
  <2>1. /\ job[j].at \in {"evaluate", "graded"} /\ UNCHANGED <<evaluations, deleting>>
        /\ \/ UNCHANGED submissions /\ \E at \in {"graded", "outcome"} : Go(j, at)
           \/ Settle(j, "failed")
    BY <1>6 DEF evaluate, seal_trajectory
  <2>2. CASE UNCHANGED submissions /\ \E at \in {"graded", "outcome"} : Go(j, at)
    <3>1. /\ job'[j].at \in {"graded", "outcome"} /\ job'[j].kind = job[j].kind
          /\ job'[j].s = job[j].s /\ job'[j].watched = job[j].watched
          /\ \A k \in Jobs \ {j} : job'[k] = job[k]
      BY <2>1, <2>2, <1>t, <1>st, JobGoes
    <3>2. CASE job[j].kind = "native"
      BY <2>1, <2>2, <3>1, <3>2, <1>t, <1>u, Bystander
    <3>3. CASE job[j].kind # "native"
      BY <2>1, <2>2, <3>1, <3>3, <1>t, Evaluating
    <3> QED
      BY <3>2, <3>3
  <2>3. CASE Settle(j, "failed")
    <3>1. CASE job[j].kind = "native"
      BY <2>1, <2>3, <3>1, <1>t, <1>u, SettleMoves, Bystander
    <3>2. CASE job[j].kind # "native"
      BY <2>1, <2>3, <3>2, <1>t, SettleMoves, Answering
    <3> QED
      BY <3>1, <3>2
  <2> QED
    BY <2>1, <2>2, <2>3
<1>7. ASSUME NEW j \in Jobs, RecordOutcome(j)
      PROVE  Submits'
  <2>1. job[j].at = "outcome" /\ Settle(j, "completed") /\ UNCHANGED <<evaluations, deleting>>
    BY <1>7 DEF RecordOutcome
  <2>2. CASE job[j].kind = "native"
    BY <2>1, <2>2, <1>t, <1>u, SettleMoves, Bystander
  <2>3. CASE job[j].kind # "native"
    BY <2>1, <2>3, <1>t, SettleMoves, Answering
  <2> QED
    BY <2>2, <2>3
<1>8. ASSUME NEW j \in Jobs, SubmitTimeout(j)
      PROVE  Submits'
  <2>1. /\ job[j].watched /\ job' = [job EXCEPT ![j].watched = FALSE]
        /\ submissions' = [submissions EXCEPT ![job[j].s] = "failed"]
        /\ UNCHANGED <<evaluations, deleting>>
    BY <1>8 DEF SubmitTimeout, Answer
  <2>2. /\ \A k \in Jobs : /\ job'[k].at = job[k].at /\ job'[k].kind = job[k].kind /\ job'[k].s = job[k].s
        /\ job'[j].watched = FALSE /\ \A k \in Jobs \ {j} : job'[k] = job[k]
    BY <2>1, <1>t DEF TypeOK, JobStates
  <2>3. /\ Evaluates(j, job[j].s) /\ job[j].s \in Sessions
        /\ \A k \in Jobs, s \in Sessions : Evaluates(k, s)' <=> Evaluates(k, s)
    BY <2>1, <2>2, <1>w, <1>t DEF Evaluates, TypeOK
  <2>4. \A s \in Sessions : submissions'[s] = IF s = job[j].s THEN "failed" ELSE submissions[s]
    BY <2>1, <1>t DEF TypeOK
  <2>5. Watches'
    BY <2>2, <1>w DEF Watches, Evaluates
  <2>6. OneEvaluation'
    <3>1. \A s \in Sessions : submissions'[s] = "none" => submissions[s] = "none"
      BY <2>4
    <3>2. \A s \in Sessions : submissions[s] # "none" => submissions'[s] # "none"
      BY <2>4
    <3> QED
      BY <2>1, <2>2, <2>3, <3>1, <3>2 DEF Submits, OneEvaluation
  <2>7. SubmitOnce'
    <3> SUFFICES ASSUME NEW s \in Sessions \ deleting
                 PROVE  /\ evaluations[s] <= 1
                        /\ submissions'[s] = "completed" => evaluations[s] = 1
                        /\ submissions'[s] = "running" => \E k \in Jobs : job'[k].watched /\ job'[k].s = s
      BY <2>1 DEF SubmitOnce
    <3>1. CASE s = job[j].s
      BY <2>4, <3>1 DEF Submits, SubmitOnce
    <3>2. CASE s # job[j].s
      <4>1. submissions'[s] = submissions[s] /\ \A k \in Jobs : job[k].s = s => job'[k] = job[k]
        BY <2>2, <2>4, <3>2
      <4> QED
        BY <4>1 DEF Submits, SubmitOnce
    <3> QED
      BY <3>1, <3>2
  <2> QED
    BY <2>5, <2>6, <2>7, <1>t DEF Submits
<1>9. ASSUME NEW j \in Jobs, DeleteSubmission(j)
      PROVE  Submits'
  <2>1. PICK s \in known : /\ submissions' = [submissions EXCEPT ![s] = "none"]
                           /\ deleting' = deleting \cup {s}
                           /\ Start(j, "destroy", "gateway", s, FALSE)
    BY <1>9 DEF DeleteSubmission, Start, Answer
  <2>2. s \in Sessions /\ job[j].at = "idle" /\ evaluations' = evaluations
    BY <1>9, <1>t DEF DeleteSubmission, TypeOK
  <2>3. job'[j].at = "destroy" /\ job'[j].watched = FALSE /\ \A k \in Jobs \ {j} : job'[k] = job[k]
    BY <2>1, <2>2, <1>t, <1>st, JobStarts DEF Start
  <2>4. \A r \in Sessions \ deleting' : submissions'[r] = submissions[r] /\ r \in Sessions \ deleting
    BY <2>1, <1>t DEF TypeOK
  <2>5. \A k \in Jobs, r \in Sessions : Evaluates(k, r)' => k # j /\ Evaluates(k, r)
    BY <2>3 DEF Evaluates
  <2>6. Watches'
    BY <2>3, <1>w DEF Watches, Evaluates
  <2>7. OneEvaluation'
    BY <2>2, <2>3, <2>4, <2>5 DEF Submits, OneEvaluation
  <2>8. SubmitOnce'
    <3>1. \A k \in Jobs : job[k].watched => job'[k] = job[k]
      BY <2>2, <2>3, <1>u
    <3> QED
      BY <2>2, <2>4, <3>1 DEF Submits, SubmitOnce
  <2> QED
    BY <2>6, <2>7, <2>8, <1>t DEF Submits
<1>10. CASE SDone
  BY <1>10, <1>0 DEF SDone
<1> QED
  BY <1>0, <1>1, <1>2, <1>3, <1>4, <1>5, <1>6, <1>7, <1>8, <1>9, <1>10
     DEF SNext, create_session, create_session_for_episode, run_episode

\* However often submit is repeated, and whether its answer, its timeout or a
\* deletion comes first, a session is evaluated for the gateway once, and
\* "completed" and "running" are said of evaluations that are.
THEOREM EvaluatedOnce == SSpec => []SubmitOnce
<1>1. SInit => Submits
  <2> SUFFICES ASSUME SInit PROVE Submits
    OBVIOUS
  <2>1. /\ job = [j \in Jobs |-> IdleJob] /\ table = {} /\ known = {}
        /\ submissions = [s \in Sessions |-> "none"] /\ evaluations = [s \in Sessions |-> 0]
    BY DEF SInit
  <2>2. IdleJob \in JobStates /\ IdleJob.at = "idle" /\ IdleJob.watched = FALSE
    BY JobRecords DEF IdleJob
  <2>3. TypeOK
    BY <2>1, <2>2 DEF TypeOK
  <2>4. Watches
    BY <2>1, <2>2 DEF Watches
  <2>5. OneEvaluation
    BY <2>1, <2>2 DEF OneEvaluation, Evaluates
  <2>6. SubmitOnce
    BY <2>1 DEF SubmitOnce
  <2> QED
    BY <2>3, <2>4, <2>5, <2>6 DEF Submits
<1>2. Submits /\ [SNext]_svars => Submits'
  BY SubmitsStep
<1>3. Submits => SubmitOnce
  BY DEF Submits
<1> QED
  BY <1>1, <1>2, <1>3, PTL DEF SSpec

-----------------------------------------------------------------------------
(* ModelTurn: the rollout data.                                            *)

TokensOfTurns == {<<k, i>> : k \in Nat, i \in Nat}

\* t lists some of the n tokens of turn k in their order, each once.
Part(t, k, n) ==
    /\ t \in Seq(TokensOfTurns) /\ Len(t) <= n /\ InOrder(t)
    /\ \A i \in 1 .. Len(t) : t[i] \in Range(Tokens(k, n)) /\ t[i][1] = k
    /\ Len(t) = n => t = Tokens(k, n)
    /\ Range(Tokens(k, n)) \subseteq Range(t) => Len(t) = n

LEMMA TokensAre ==
    ASSUME NEW k \in Nat, NEW n \in 1 .. 2
    PROVE  /\ Tokens(k, n) \in Seq(TokensOfTurns) /\ Len(Tokens(k, n)) = n /\ Tokens(k, n) # <<>>
           /\ \A i \in 1 .. n : Tokens(k, n)[i] = <<k, i>>
BY DEF Tokens, TokensOfTurns

\* What is left of the tokens of a turn when some are left out.
LEMMA OfIsPart ==
    ASSUME NEW k \in Nat, NEW n \in 1 .. 2, NEW S
    PROVE  Part(Of(k, n, S), k, n)
<1> DEFINE s == Tokens(k, n)
           T == {<<k, i>> : i \in S}
           t == Keep(s, T)
<1>1. s \in Seq(TokensOfTurns) /\ Len(s) = n /\ \A i \in 1 .. n : s[i] = <<k, i>>
  BY TokensAre
<1> HIDE DEF s, T
<1>2. t \in Seq(TokensOfTurns) /\ \E h : Picked(t, s, T, Len(s), h)
  BY <1>1, KeepProperties
<1>3. Of(k, n, S) = t
  BY DEF Of, s, T
<1> HIDE DEF t
<1>4. PICK h : Picked(t, s, T, n, h)
  BY <1>1, <1>2
<1>5. h \in [1 .. Len(t) -> 1 .. n] /\ (\A i \in 1 .. Len(t) : t[i] = s[h[i]]) /\ \A i, j \in 1 .. Len(t) : i < j => h[i] < h[j]
  BY <1>4 DEF Picked
<1>6. Len(t) \in Nat /\ DOMAIN t = 1 .. Len(t)
  BY <1>2
<1>7. \A i \in 1 .. Len(t) : h[i] \in 1 .. n /\ t[i] = <<k, h[i]>> /\ t[i][1] = k /\ t[i][2] = h[i]
  BY <1>1, <1>5
<1>8. Len(t) <= n
  <2> SUFFICES ASSUME Len(t) > n PROVE FALSE
    BY <1>6
  <2>1. CASE n = 1
    <3>1. 1 \in 1 .. Len(t) /\ 2 \in 1 .. Len(t)
      BY <1>6, <2>1
    <3> QED BY <1>5, <1>7, <2>1, <3>1
  <2>2. CASE n = 2
    <3>1. 1 \in 1 .. Len(t) /\ 2 \in 1 .. Len(t) /\ 3 \in 1 .. Len(t)
      BY <1>6, <2>2
    <3>2. h[1] < h[2] /\ h[2] < h[3] /\ h[1] \in 1 .. 2 /\ h[2] \in 1 .. 2 /\ h[3] \in 1 .. 2
      BY <1>5, <1>7, <2>2, <3>1
    <3> QED BY <3>2
  <2> QED BY <2>1, <2>2
<1>9. InOrder(t)
  BY <1>5, <1>6, <1>7 DEF InOrder
<1>10. \A i \in 1 .. Len(t) : t[i] \in Range(s)
  <2> TAKE i \in 1 .. Len(t)
  <2>1. h[i] \in DOMAIN s /\ t[i] = s[h[i]]
    BY <1>1, <1>5
  <2> QED BY <2>1 DEF Range
<1>11. ASSUME Len(t) = n PROVE t = s
  <2>1. \A i \in 1 .. n : h[i] = i
    <3>1. CASE n = 1
      BY <1>7, <1>11, <3>1
    <3>2. CASE n = 2
      <4>1. h[1] \in 1 .. 2 /\ h[2] \in 1 .. 2 /\ h[1] < h[2]
        BY <1>5, <1>7, <1>11, <3>2
      <4>2. h[1] = 1 /\ h[2] = 2
        BY <4>1
      <4>3. \A i \in 1 .. 2 : i = 1 \/ i = 2
        OBVIOUS
      <4> QED BY <3>2, <4>2, <4>3
    <3> QED BY <3>1, <3>2
  <2>2. \A i \in 1 .. n : t[i] = s[i]
    BY <1>5, <1>11, <2>1
  <2> QED BY <1>1, <1>2, <1>11, <2>2
<1>12. ASSUME Range(s) \subseteq Range(t) PROVE Len(t) = n
  <2>1. \A i \in 1 .. n : \E j \in 1 .. Len(t) : h[j] = i
    <3> TAKE i \in 1 .. n
    <3>0. i \in DOMAIN s /\ s[i] = <<k, i>>
      BY <1>1
    <3>1. <<k, i>> \in Range(s)
      BY <3>0 DEF Range
    <3>2. PICK j \in DOMAIN t : t[j] = <<k, i>>
      BY <1>12, <3>1 DEF Range
    <3> QED BY <1>6, <1>7, <3>2
  <2>2. CASE n = 1
    <3>1. \E j \in 1 .. Len(t) : h[j] = 1
      BY <2>1, <2>2
    <3> QED BY <1>6, <1>8, <2>2, <3>1
  <2>3. CASE n = 2
    <3>1. PICK j1 \in 1 .. Len(t) : h[j1] = 1
      BY <2>1, <2>3
    <3>2. PICK j2 \in 1 .. Len(t) : h[j2] = 2
      BY <2>1, <2>3
    <3>3. j1 # j2
      BY <3>1, <3>2
    <3> QED BY <1>6, <1>8, <2>3, <3>3
  <2> QED BY <2>2, <2>3
<1> QED BY <1>2, <1>3, <1>7, <1>8, <1>9, <1>10, <1>11, <1>12 DEF Part, s

LEMMA AllTokensArePart == ASSUME NEW k \in Nat, NEW n \in 1 .. 2 PROVE Part(Tokens(k, n), k, n)
<1>1. DOMAIN Tokens(k, n) = 1 .. n /\ \A i \in 1 .. n : Tokens(k, n)[i] = <<k, i>>
  BY DEF Tokens
<1>2. \A i \in 1 .. n : Tokens(k, n)[i][1] = k /\ Tokens(k, n)[i][2] = i /\ Tokens(k, n)[i] \in Range(Tokens(k, n))
  BY <1>1 DEF Range
<1>3. InOrder(Tokens(k, n))
  BY <1>1, <1>2 DEF InOrder
<1> QED BY <1>1, <1>2, <1>3, TokensAre DEF Part

\* An answer that passes the check has as many log-probs as ids; when no
\* log-prob is missing, they are those of the same tokens.
LEMMA ValidAnswer ==
    ASSUME NEW k \in Nat, NEW a \in Answers(k), validate_for_async(a.meta)
    PROVE  /\ a.n \in 1 .. 2 /\ a.meta.param /\ a.meta.policy /\ a.meta.param \in BOOLEAN /\ a.meta.policy \in BOOLEAN
           /\ Part(a.meta.lps, k, a.n) /\ Part(a.meta.ids, k, a.n) /\ a.meta.lps # <<>>
           /\ Len(a.meta.lps) = Len(a.meta.ids) /\ a.meta.mask = Len(a.meta.ids)
           /\ Range(Tokens(k, a.n)) \subseteq Range(a.meta.lps) => a.meta.ids = a.meta.lps
<1>1. PICK b \in Bodies : a = [n |-> b.n, meta |-> AnswerMeta(b, k)]
  BY DEF Answers
<1>2. PICK n \in 1 .. 2 : b \in [n : {n}, content : BOOLEAN, lp : SUBSET (1..n), ids : SUBSET (1..n), flat : BOOLEAN,
                  listed : SUBSET (1..n), body : {"no", "param", "both"}, header : {"no", "policy", "both"}]
  BY DEF Bodies
<1>3. b.n = n /\ b.content \in BOOLEAN /\ b.flat \in BOOLEAN
  BY <1>2
<1>4. /\ a.n = n /\ a.meta = AnswerMeta(b, k)
  BY <1>1, <1>3
<1>5. /\ a.meta.lps = parse_logprobs(b, k) /\ a.meta.ids = parse_response_ids(b, k) /\ a.meta.mask = Len(a.meta.ids)
      /\ a.meta.param \in BOOLEAN /\ a.meta.policy \in BOOLEAN
  BY <1>4 DEF AnswerMeta, parse_model_version
<1>6. a.meta.param /\ a.meta.policy /\ a.meta.lps # <<>> /\ a.meta.ids # <<>> /\ Len(a.meta.lps) = Len(a.meta.ids)
  BY DEF validate_for_async
<1>7. Part(a.meta.lps, k, n)
  <2>1. a.meta.lps = Tokens(k, n) \/ \E S : a.meta.lps = Of(k, n, S)
    BY <1>3, <1>5, <1>6 DEF parse_logprobs
  <2> QED BY <2>1, OfIsPart, AllTokensArePart
<1>8. Part(a.meta.ids, k, n)
  <2>1. \E S : a.meta.ids = Of(k, n, S)
    BY <1>3, <1>5, <1>6 DEF parse_response_ids
  <2> QED BY <2>1, OfIsPart
<1>9. Range(Tokens(k, n)) \subseteq Range(a.meta.lps) => a.meta.ids = a.meta.lps
  BY <1>6, <1>7, <1>8 DEF Part
<1> QED BY <1>4, <1>5, <1>6, <1>7, <1>8, <1>9

\* s lists tokens of the first m turns in order, some of each.
Upto(s, m) ==
    /\ s \in Seq(TokensOfTurns) /\ InOrder(s)
    /\ \A i \in 1 .. Len(s) : s[i][1] \in 1 .. m
    /\ TurnsOf(s) = 1 .. m

LEMMA UptoGrows ==
    ASSUME NEW m \in Nat, NEW s, Upto(s, m), NEW n \in 1 .. 2, NEW p, Part(p, m + 1, n), p # <<>>
    PROVE  Upto(s \o p, m + 1)
<1> DEFINE u == s \o p
<1>1. /\ s \in Seq(TokensOfTurns) /\ p \in Seq(TokensOfTurns) /\ Len(s) \in Nat /\ Len(p) \in Nat /\ Len(p) > 0
      /\ DOMAIN s = 1 .. Len(s) /\ DOMAIN p = 1 .. Len(p)
  BY DEF Upto, Part
<1>2. /\ u \in Seq(TokensOfTurns) /\ Len(u) = Len(s) + Len(p) /\ DOMAIN u = 1 .. Len(u)
      /\ \A i \in 1 .. Len(s) : u[i] = s[i]
      /\ \A i \in (Len(s) + 1) .. Len(u) : u[i] = p[i - Len(s)] /\ i - Len(s) \in 1 .. Len(p)
  BY <1>1
<1>3. \A i \in 1 .. Len(s) : s[i][1] \in 1 .. m
  BY DEF Upto
<1>4. \A i \in 1 .. Len(p) : p[i][1] = m + 1
  BY DEF Part
<1> HIDE DEF u
<1>5. \A i \in DOMAIN u : u[i][1] \in 1 .. (m + 1) /\ (i <= Len(s) => u[i][1] <= m) /\ (i > Len(s) => u[i][1] = m + 1)
  <2> TAKE i \in DOMAIN u
  <2>1. CASE i <= Len(s)
    BY <1>1, <1>2, <1>3, <2>1
  <2>2. CASE i > Len(s)
    <3>1. u[i] = p[i - Len(s)] /\ i - Len(s) \in 1 .. Len(p)
      BY <1>1, <1>2, <2>2
    <3>2. u[i][1] = m + 1
      BY <1>4, <3>1
    <3>3. m + 1 \in 1 .. (m + 1) /\ ~(i <= Len(s))
      BY <1>1, <1>2, <2>2
    <3> QED BY <3>2, <3>3
  <2> QED BY <1>1, <1>2, <2>1, <2>2
<1>6. InOrder(u)
  <2> SUFFICES ASSUME NEW i \in DOMAIN u, NEW j \in DOMAIN u, i < j
               PROVE  u[i][1] < u[j][1] \/ (u[i][1] = u[j][1] /\ u[i][2] < u[j][2])
    BY DEF InOrder
  <2>0. i \in 1 .. Len(u) /\ j \in 1 .. Len(u)
    BY <1>2
  <2>1. CASE j <= Len(s)
    <3>1. i \in 1 .. Len(s) /\ j \in 1 .. Len(s) /\ u[i] = s[i] /\ u[j] = s[j]
      BY <1>1, <1>2, <2>0, <2>1
    <3> QED BY <1>1, <3>1 DEF Upto, InOrder
  <2>2. CASE i <= Len(s) /\ j > Len(s)
    <3>1. u[i][1] <= m /\ u[j][1] = m + 1 /\ u[i][1] \in 1 .. (m + 1)
      BY <1>5, <2>2
    <3> QED BY <3>1
  <2>3. CASE i > Len(s)
    <3>1. /\ i - Len(s) \in 1 .. Len(p) /\ j - Len(s) \in 1 .. Len(p) /\ i - Len(s) < j - Len(s)
          /\ u[i] = p[i - Len(s)] /\ u[j] = p[j - Len(s)]
      BY <1>1, <1>2, <2>0, <2>3
    <3> QED BY <1>1, <3>1 DEF Part, InOrder
  <2> QED BY <1>1, <2>0, <2>1, <2>2, <2>3
<1>7. TurnsOf(u) = 1 .. (m + 1)
  <2>1. ASSUME NEW k \in 1 .. m PROVE k \in TurnsOf(u)
    <3>1. PICK i \in DOMAIN s : k = s[i][1]
      BY DEF Upto, TurnsOf
    <3>2. i \in DOMAIN u /\ u[i] = s[i]
      BY <1>1, <1>2
    <3> QED BY <3>1, <3>2 DEF TurnsOf
  <2>2. m + 1 \in TurnsOf(u)
    <3>1. Len(s) + 1 \in DOMAIN u /\ u[Len(s) + 1][1] = m + 1
      BY <1>1, <1>2, <1>5
    <3> QED BY <3>1 DEF TurnsOf
  <2>3. TurnsOf(u) \subseteq 1 .. (m + 1)
    BY <1>5 DEF TurnsOf
  <2>4. ASSUME NEW k \in 1 .. (m + 1) PROVE k \in TurnsOf(u)
    <3>1. k = m + 1 \/ k \in 1 .. m
      OBVIOUS
    <3> QED BY <2>1, <2>2, <3>1
  <2> QED BY <2>3, <2>4
<1> QED BY <1>2, <1>5, <1>6, <1>7 DEF Upto, u

\* Each log-prob stands beside an id of its turn, and of its token when the
\* turn has all its log-probs.
Has(sd, s, k) == \A i \in DOMAIN sd : sd[i][1] = k => sd[i] \in Range(s)
Paired(sd, l, d) ==
    /\ Len(l) = Len(d) /\ Range(l) \subseteq Range(sd) /\ Range(d) \subseteq Range(sd)
    /\ \A i \in DOMAIN l : d[i][1] = l[i][1] /\ (Has(sd, l, l[i][1]) => d[i] = l[i])

LEMMA Joined ==
    ASSUME NEW A, NEW s \in Seq(A), NEW p \in Seq(A)
    PROVE  /\ Len(s) \in Nat /\ Len(p) \in Nat
           /\ DOMAIN (s \o p) = 1 .. Len(s) + Len(p) /\ Len(s \o p) = Len(s) + Len(p)
           /\ \A i \in 1 .. Len(s) : (s \o p)[i] = s[i]
           /\ \A i \in (Len(s) + 1) .. (Len(s) + Len(p)) : (s \o p)[i] = p[i - Len(s)]
OBVIOUS

LEMMA RangeOfBoth ==
    ASSUME NEW A, NEW s \in Seq(A), NEW p \in Seq(A)
    PROVE  Range(s \o p) = Range(s) \cup Range(p)
<1> DEFINE u == s \o p
<1>1. /\ Len(s) \in Nat /\ Len(p) \in Nat /\ DOMAIN s = 1 .. Len(s) /\ DOMAIN p = 1 .. Len(p)
      /\ DOMAIN u = 1 .. Len(s) + Len(p)
      /\ \A i \in 1 .. Len(s) : u[i] = s[i]
      /\ \A i \in 1 .. Len(p) : u[Len(s) + i] = p[i]
  OBVIOUS
<1> HIDE DEF u
<1>2. ASSUME NEW x \in Range(s) PROVE x \in Range(u)
  <2>1. PICK i \in DOMAIN s : x = s[i]
    BY DEF Range
  <2>2. i \in DOMAIN u /\ u[i] = x
    BY <1>1, <2>1
  <2> QED BY <2>2 DEF Range
<1>3. ASSUME NEW x \in Range(p) PROVE x \in Range(u)
  <2>1. PICK i \in DOMAIN p : x = p[i]
    BY DEF Range
  <2>2. Len(s) + i \in DOMAIN u /\ u[Len(s) + i] = x
    BY <1>1, <2>1
  <2> QED BY <2>2 DEF Range
<1>4. ASSUME NEW x \in Range(u) PROVE x \in Range(s) \cup Range(p)
  <2>1. PICK i \in DOMAIN u : x = u[i]
    BY DEF Range
  <2>2. CASE i <= Len(s)
    <3>1. i \in DOMAIN s /\ x = s[i]
      BY <1>1, <2>1, <2>2
    <3> QED BY <3>1 DEF Range
  <2>3. CASE i > Len(s)
    <3>1. i - Len(s) \in 1 .. Len(p) /\ Len(s) + (i - Len(s)) = i
      BY <1>1, <2>3
    <3>2. i - Len(s) \in DOMAIN p /\ x = p[i - Len(s)]
      BY <1>1, <2>1, <3>1
    <3> QED BY <3>2 DEF Range
  <2> QED BY <1>1, <2>2, <2>3
<1> QED BY <1>2, <1>3, <1>4 DEF u

LEMMA PairedGrows ==
    ASSUME NEW m \in Nat, NEW n \in 1 .. 2, NEW sd, NEW l, NEW d, NEW p, NEW q,
           Upto(sd, m), Upto(l, m), Upto(d, m), Paired(sd, l, d),
           Part(p, m + 1, n), Part(q, m + 1, n), Len(p) = Len(q),
           Range(Tokens(m + 1, n)) \subseteq Range(p) => q = p
    PROVE  Paired(sd \o Tokens(m + 1, n), l \o p, d \o q)
<1> DEFINE t == Tokens(m + 1, n)
           S == TokensOfTurns
<1>1. sd \in Seq(S) /\ l \in Seq(S) /\ d \in Seq(S) /\ p \in Seq(S) /\ q \in Seq(S) /\ Len(l) = Len(d)
  BY DEF Upto, Part, Paired
<1>2. t \in Seq(S) /\ Len(t) = n /\ DOMAIN t = 1 .. n /\ \A i \in 1 .. n : t[i][1] = m + 1
  <2>1. m + 1 \in Nat
    OBVIOUS
  <2>2. t \in Seq(S) /\ Len(t) = n /\ \A i \in 1 .. n : t[i] = <<m + 1, i>>
    BY <2>1, TokensAre
  <2> HIDE DEF t
  <2> QED BY <2>2
<1>3. /\ Range(sd \o t) = Range(sd) \cup Range(t) /\ Range(l \o p) = Range(l) \cup Range(p)
      /\ Range(d \o q) = Range(d) \cup Range(q)
  <2> HIDE DEF t, S
  <2> QED BY <1>1, <1>2, RangeOfBoth
<1>4. Range(p) \subseteq Range(t) /\ Range(q) \subseteq Range(t)
  <2>1. DOMAIN p = 1 .. Len(p) /\ DOMAIN q = 1 .. Len(q)
    BY <1>1
  <2>2. (\A i \in DOMAIN p : p[i] \in Range(t)) /\ \A i \in DOMAIN q : q[i] \in Range(t)
    BY <2>1 DEF Part
  <2> HIDE DEF t
  <2> QED BY <2>2 DEF Range
<1>5. Range(sd) \cap Range(p) = {} /\ Range(l) \cap Range(t) = {} /\ \A x \in Range(sd) \cup Range(l) : x[1] \in 1 .. m
  <2>1. \A x \in Range(sd) \cup Range(l) : x[1] \in 1 .. m
    <3>1. DOMAIN sd = 1 .. Len(sd) /\ DOMAIN l = 1 .. Len(l)
      BY <1>1
    <3> QED BY <3>1 DEF Upto, Range
  <2>2. \A x \in Range(t) : x[1] = m + 1
    BY <1>2 DEF Range
  <2>3. m + 1 \notin 1 .. m
    OBVIOUS
  <2> HIDE DEF t
  <2> QED BY <1>4, <2>1, <2>2, <2>3
<1> DEFINE sd2 == sd \o t
           l2 == l \o p
           d2 == d \o q
<1>6. /\ DOMAIN sd2 = 1 .. Len(sd) + n /\ DOMAIN sd = 1 .. Len(sd) /\ Len(sd) \in Nat
      /\ \A i \in 1 .. Len(sd) : sd2[i] = sd[i]
      /\ \A i \in 1 .. n : sd2[Len(sd) + i] = t[i]
  <2> HIDE DEF t
  <2> QED BY <1>1, <1>2
<1>7. /\ DOMAIN l2 = 1 .. Len(l) + Len(p) /\ Len(l2) = Len(l) + Len(p) /\ Len(d2) = Len(l) + Len(p)
      /\ Len(l) \in Nat /\ Len(p) \in Nat /\ DOMAIN l = 1 .. Len(l)
      /\ \A i \in 1 .. Len(l) : l2[i] = l[i] /\ d2[i] = d[i]
      /\ \A i \in (Len(l) + 1) .. (Len(l) + Len(p)) : l2[i] = p[i - Len(l)] /\ d2[i] = q[i - Len(l)] /\ i - Len(l) \in 1 .. Len(p)
  <2> HIDE DEF S
  <2>1. Len(l) \in Nat /\ Len(p) \in Nat /\ DOMAIN l = 1 .. Len(l) /\ Len(d) = Len(l) /\ Len(q) = Len(p)
    BY <1>1
  <2>2. /\ DOMAIN l2 = 1 .. Len(l) + Len(p) /\ Len(l2) = Len(l) + Len(p)
        /\ \A i \in 1 .. Len(l) : l2[i] = l[i]
        /\ \A i \in (Len(l) + 1) .. (Len(l) + Len(p)) : l2[i] = p[i - Len(l)]
    BY <1>1, Joined
  <2>3. /\ Len(d2) = Len(d) + Len(q)
        /\ \A i \in 1 .. Len(d) : d2[i] = d[i]
        /\ \A i \in (Len(d) + 1) .. (Len(d) + Len(q)) : d2[i] = q[i - Len(d)]
    BY <1>1
  <2>4. \A i \in (Len(l) + 1) .. (Len(l) + Len(p)) : i - Len(l) \in 1 .. Len(p)
    BY <2>1
  <2> HIDE DEF l2, d2
  <2> QED BY <2>1, <2>2, <2>3, <2>4
<1> HIDE DEF sd2, l2, d2, t, S
<1>8. ASSUME NEW i \in DOMAIN l2 PROVE d2[i][1] = l2[i][1] /\ (Has(sd2, l2, l2[i][1]) => d2[i] = l2[i])
  <2>1. CASE i <= Len(l)
    <3>1. i \in DOMAIN l /\ l2[i] = l[i] /\ d2[i] = d[i] /\ l[i] \in Range(l)
      BY <1>7, <2>1 DEF Range
    <3>2. l[i][1] \in 1 .. m
      BY <1>5, <3>1
    <3>3. Has(sd2, l2, l[i][1]) => Has(sd, l, l[i][1])
      <4> SUFFICES ASSUME Has(sd2, l2, l[i][1]), NEW j \in DOMAIN sd, sd[j][1] = l[i][1] PROVE sd[j] \in Range(l)
        BY DEF Has
      <4>1. j \in DOMAIN sd2 /\ sd2[j] = sd[j]
        BY <1>6
      <4>2. sd[j] \in Range(l2)
        BY <4>1 DEF Has
      <4>3. sd[j] \in Range(sd)
        BY DEF Range
      <4> QED BY <1>3, <1>5, <4>2, <4>3 DEF l2
    <3> QED BY <3>1, <3>3 DEF Paired
  <2>2. CASE i > Len(l)
    <3>1. l2[i] = p[i - Len(l)] /\ d2[i] = q[i - Len(l)] /\ i - Len(l) \in 1 .. Len(p)
      BY <1>7, <2>2
    <3>2. l2[i][1] = m + 1 /\ d2[i][1] = m + 1
      BY <3>1 DEF Part
    <3>3. ASSUME Has(sd2, l2, m + 1) PROVE q = p
      <4>1. ASSUME NEW x \in Range(t) PROVE x \in Range(p)
        <5>1. PICK j \in 1 .. n : x = t[j]
          BY <1>2 DEF Range
        <5>2. Len(sd) + j \in DOMAIN sd2 /\ sd2[Len(sd) + j] = x /\ x[1] = m + 1
          BY <1>2, <1>6, <5>1
        <5>3. x \in Range(l2)
          BY <3>3, <5>2 DEF Has
        <5> QED BY <1>3, <1>5, <5>3 DEF l2
      <4> QED BY <4>1 DEF t
    <3> QED BY <3>1, <3>2, <3>3
  <2> QED BY <1>7, <2>1, <2>2
<1>9. Range(l2) \subseteq Range(sd2) /\ Range(d2) \subseteq Range(sd2)
  BY <1>3, <1>4 DEF Paired, sd2, l2, d2
<1> QED BY <1>7, <1>8, <1>9 DEF Paired, sd2, l2, d2, t

\* What the conversation has gathered after m turns.
IsGathered(m) ==
    /\ Upto(said, m) /\ Upto(meta.lps, m) /\ Upto(meta.ids, m) /\ Paired(said, meta.lps, meta.ids)
    /\ meta.mask = Len(meta.ids) /\ meta.param \in BOOLEAN /\ meta.policy \in BOOLEAN
    /\ m > 0 => meta.param /\ meta.policy

Answered == mphase \in {"answered", "end", "completed"}
Gathered ==
    /\ turn \in Nat /\ turn > 0
    /\ IF is_async_mode(req.mode)
       THEN mphase # "failed" => IsGathered(IF Answered THEN turn ELSE turn - 1)
       ELSE meta = NoMeta

\* Calls are made only where one can be, and no more than the request allows.
CallsAllowed ==
    /\ tries \in Nat /\ req.retries \in Nat
    /\ mphase = "turn" => tries = 0
    /\ mphase = "call" => llm_call_ready(resolve_llm_target(req), req.key) /\ tries < max_retries(req)

TurnInv == Gathered /\ CallsAllowed

LEMMA SomeRetries == ASSUME TurnConstants, req.retries \in Nat PROVE max_retries(req) \in Nat /\ 0 < max_retries(req)
BY DEF TurnConstants, max_retries

LEMMA InitTurnInv == MInit => TurnInv
<1> SUFFICES ASSUME MInit PROVE TurnInv
  OBVIOUS
<1>1. mphase = "turn" /\ turn = 1 /\ tries = 0 /\ meta = NoMeta /\ said = <<>>
  BY DEF MInit
<1>2. Upto(<<>>, 0)
  BY DEF Upto, InOrder, TurnsOf
<1>3. Paired(<<>>, <<>>, <<>>)
  BY DEF Paired, Range
<1>4. IsGathered(0)
  BY <1>1, <1>2, <1>3 DEF IsGathered, NoMeta
<1>5. Gathered
  BY <1>1, <1>4 DEF Gathered, Answered
<1>6. req.retries \in Nat
  BY DEF MInit, Request
<1>7. CallsAllowed
  BY <1>1, <1>6 DEF CallsAllowed
<1> QED BY <1>5, <1>7 DEF TurnInv

\* Steps that gather nothing.
LEMMA GatheredStays ==
    ASSUME Gathered, UNCHANGED <<req, meta, said>>, turn' \in Nat, turn' > 0,
           is_async_mode(req.mode) /\ mphase' # "failed" =>
              /\ mphase # "failed"
              /\ (IF Answered' THEN turn' ELSE turn' - 1) = IF Answered THEN turn ELSE turn - 1
    PROVE  Gathered'
<1> DEFINE m == IF Answered THEN turn ELSE turn - 1
<1>1. \A k : IsGathered(k)' <=> IsGathered(k)
  BY DEF IsGathered, Upto, Paired, Has
<1>2. CASE is_async_mode(req.mode)
  <2>1. is_async_mode(req'.mode)
    BY <1>2
  <2> SUFFICES ASSUME mphase' # "failed" PROVE IsGathered(IF Answered THEN turn ELSE turn - 1)'
    BY <2>1 DEF Gathered
  <2>2. IsGathered(m) /\ m = (IF Answered' THEN turn' ELSE turn' - 1)
    BY <1>2 DEF Gathered
  <2> QED BY <1>1, <2>2 DEF IsGathered
<1>3. CASE ~is_async_mode(req.mode)
  BY <1>3 DEF Gathered
<1> QED BY <1>2, <1>3

\* A step that only moves: to a call, to an end, or to an answer in sync mode.
LEMMA TurnMoves ==
    ASSUME TurnInv, NEW state, EndWith(state),
           state = "call" => llm_call_ready(resolve_llm_target(req), req.key) /\ tries < max_retries(req),
           state # "turn",
           is_async_mode(req.mode) /\ state # "failed" =>
              mphase # "failed" /\ (Answered <=> state \in {"answered", "end", "completed"})
    PROVE  TurnInv'
<1>1. mphase' = state /\ UNCHANGED <<req, turn, tries, meta, said, reward>>
  BY DEF EndWith
<1>2. CallsAllowed'
  BY <1>1 DEF TurnInv, CallsAllowed
<1>3. turn' \in Nat /\ turn' > 0 /\ Gathered
  BY <1>1 DEF TurnInv, Gathered
<1>4. Gathered'
  BY <1>1, <1>3, GatheredStays DEF Answered
<1> QED BY <1>2, <1>4 DEF TurnInv

LEMMA InferKeeps ==
    ASSUME TurnConstants, TurnInv, infer_with_rollout_context
    PROVE  TurnInv'
<1> DEFINE ready == llm_call_ready(resolve_llm_target(req), req.key)
<1>1. tries = 0 /\ tries < max_retries(req) /\ mphase = "turn"
  BY SomeRetries DEF TurnInv, CallsAllowed, infer_with_rollout_context
<1>2. \/ EndWith("failed")
      \/ ~is_async_mode(req.mode) /\ EndWith("answered")
      \/ ready /\ EndWith("call")
  BY DEF infer_with_rollout_context
<1>3. CASE EndWith("failed")
  BY <1>3, TurnMoves
<1>4. CASE ~is_async_mode(req.mode) /\ EndWith("answered")
  BY <1>4, TurnMoves
<1>5. CASE ready /\ EndWith("call")
  BY <1>1, <1>5, TurnMoves DEF Answered
<1> QED BY <1>2, <1>3, <1>4, <1>5

LEMMA AnswerKeeps ==
    ASSUME TurnInv, mphase = "call", NEW a \in Answers(turn), CallAnswers(a)
    PROVE  TurnInv'
<1>1. CASE EndWith("failed") \/ (~is_async_mode(req.mode) /\ EndWith("answered"))
  BY <1>1, TurnMoves
<1>2. ASSUME is_async_mode(req.mode), validate_for_async(a.meta), meta' = absorb(meta, a.meta),
             said' = said \o Tokens(turn, a.n), mphase' = "answered", UNCHANGED <<req, turn, tries, reward>>
      PROVE  TurnInv'
  <2>1. turn \in Nat /\ turn > 0
    BY DEF TurnInv, Gathered
  <2>2. PICK m \in Nat : m + 1 = turn /\ m = turn - 1
    BY <2>1
  <2>3. IsGathered(m)
    BY <1>2, <2>2 DEF TurnInv, Gathered, Answered
  <2>4. PICK n \in 1 .. 2 : n = a.n
    BY <1>2, <2>1, ValidAnswer
  <2>5. PICK p, q : p = a.meta.lps /\ q = a.meta.ids
    OBVIOUS
  <2>6. /\ a.meta.param /\ a.meta.policy /\ a.meta.param \in BOOLEAN /\ a.meta.policy \in BOOLEAN
        /\ Part(p, m + 1, n) /\ Part(q, m + 1, n) /\ p # <<>> /\ Len(p) = Len(q) /\ a.meta.mask = Len(q)
        /\ Range(Tokens(m + 1, n)) \subseteq Range(p) => q = p
    BY <1>2, <2>1, <2>2, <2>4, <2>5, ValidAnswer
  <2>7. p \in Seq(TokensOfTurns) /\ q \in Seq(TokensOfTurns) /\ q # <<>>
    BY <2>6 DEF Part
  <2>8. /\ meta'.lps = meta.lps \o p /\ meta'.ids = meta.ids \o q /\ meta'.mask = meta.mask + Len(q)
        /\ meta'.param = (meta.param \/ a.meta.param) /\ meta'.policy = (meta.policy \/ a.meta.policy)
    BY <1>2, <2>5, <2>6 DEF absorb
  <2>9. meta'.param = TRUE /\ meta'.policy = TRUE
    BY <2>3, <2>6, <2>8 DEF IsGathered
  <2>10. said' = said \o Tokens(m + 1, n) /\ Part(Tokens(m + 1, n), m + 1, n) /\ Tokens(m + 1, n) # <<>>
    <3>1. m + 1 \in Nat
      OBVIOUS
    <3>2. Part(Tokens(m + 1, n), m + 1, n) /\ Tokens(m + 1, n) # <<>>
      BY <3>1, AllTokensArePart, TokensAre
    <3> QED BY <1>2, <2>2, <2>4, <3>2
  <2>11. Upto(said', m + 1) /\ Upto(meta'.lps, m + 1) /\ Upto(meta'.ids, m + 1)
    BY <2>3, <2>6, <2>7, <2>8, <2>10, UptoGrows DEF IsGathered
  <2>12. Paired(said', meta'.lps, meta'.ids)
    BY <2>3, <2>6, <2>8, <2>10, PairedGrows DEF IsGathered
  <2>13. meta'.mask = Len(meta'.ids)
    <3>1. meta.ids \in Seq(TokensOfTurns) /\ meta.mask = Len(meta.ids)
      BY <2>3 DEF IsGathered, Upto
    <3> QED BY <2>7, <2>8, <3>1
  <2>14. IsGathered(m + 1)'
    BY <2>9, <2>11, <2>12, <2>13 DEF IsGathered
  <2>15. Gathered'
    BY <1>2, <2>1, <2>2, <2>14 DEF Gathered, Answered
  <2>16. CallsAllowed'
    BY <1>2 DEF TurnInv, CallsAllowed
  <2> QED BY <2>15, <2>16 DEF TurnInv
<1> QED BY <1>1, <1>2 DEF CallAnswers

LEMMA TurnStepKeeps ==
    ASSUME TurnConstants, TurnInv, [MNext]_mvars
    PROVE  TurnInv'
<1>0. turn \in Nat /\ turn > 0 /\ Gathered /\ CallsAllowed
  BY DEF TurnInv, Gathered
<1>s. ASSUME UNCHANGED mvars PROVE TurnInv'
  <2>1. Gathered'
    BY <1>0, <1>s, GatheredStays DEF mvars, Answered
  <2>2. CallsAllowed'
    BY <1>0, <1>s DEF mvars, CallsAllowed
  <2> QED BY <2>1, <2>2 DEF TurnInv
<1>2. CASE infer_with_rollout_context
  BY <1>2, InferKeeps
<1>3. CASE CallFails
  <2>1. /\ tries' = tries + 1 /\ mphase' = (IF tries + 1 < max_retries(req) THEN "call" ELSE "failed")
        /\ UNCHANGED <<req, turn, meta, said, reward>> /\ mphase = "call"
    BY <1>3 DEF CallFails
  <2>2. Gathered'
    BY <1>0, <2>1, GatheredStays DEF Answered
  <2>3. CallsAllowed'
    BY <1>0, <2>1 DEF CallsAllowed
  <2> QED BY <2>2, <2>3 DEF TurnInv
<1>4. CASE CallMalformed
  BY <1>4, TurnMoves DEF CallMalformed
<1>5. CASE mphase = "call" /\ \E a \in Answers(turn) : CallAnswers(a)
  BY <1>5, AnswerKeeps
<1>6. CASE StepEnv
  <2>1. /\ UNCHANGED <<req, meta, said>> /\ mphase = "answered"
        /\ \/ mphase' = "end" /\ UNCHANGED <<turn, tries>>
           \/ mphase' = "turn" /\ turn' = turn + 1 /\ tries' = 0
    BY <1>6 DEF StepEnv
  <2>2. Gathered'
    BY <1>0, <2>1, GatheredStays DEF Answered
  <2>3. CallsAllowed'
    BY <1>0, <2>1 DEF CallsAllowed
  <2> QED BY <2>2, <2>3 DEF TurnInv
<1>7. CASE validate_async_completed
  <2>1. mphase = "end" /\ (EndWith("failed") \/ EndWith("completed"))
    BY <1>7 DEF validate_async_completed
  <2> QED BY <2>1, TurnMoves DEF Answered
<1>8. CASE MEnd
  BY <1>8, <1>s DEF MEnd
<1> QED BY <1>s, <1>2, <1>3, <1>4, <1>5, <1>6, <1>7, <1>8 DEF MNext

\* A completed asynchronous episode carries data of all its turns in their
\* order, a log-prob beside an id of its turn and, where the answer had all
\* its log-probs, of its token; and no call is made that is not allowed.
THEOREM RolloutStaysAligned ==
    ASSUME TurnConstants
    PROVE  TurnSpec => []RolloutAligned
<1>1. MInit => TurnInv
  BY InitTurnInv
<1>2. TurnInv /\ [MNext]_mvars => TurnInv'
  BY TurnStepKeeps
<1>3. ASSUME TurnInv PROVE RolloutAligned
  <2>1. ASSUME mphase = "completed", is_async_mode(req.mode)
        PROVE  /\ meta.param /\ meta.policy /\ said # <<>>
               /\ Len(meta.lps) = Len(meta.ids) /\ meta.mask = Len(meta.ids)
               /\ InOrder(meta.lps) /\ InOrder(meta.ids)
               /\ Range(meta.lps) \cup Range(meta.ids) \subseteq Range(said)
               /\ TurnsOf(meta.lps) = 1 .. turn
               /\ \A i \in DOMAIN meta.lps :
                     /\ meta.ids[i][1] = meta.lps[i][1]
                     /\ AllHave(meta.lps, meta.lps[i][1]) => meta.ids[i] = meta.lps[i]
    <3>1. IsGathered(turn) /\ turn \in Nat /\ turn > 0
      BY <1>3, <2>1 DEF TurnInv, Gathered, Answered
    <3>2. said # <<>>
      <4>1. 1 \in TurnsOf(said)
        BY <3>1 DEF IsGathered, Upto
      <4>2. DOMAIN said # {}
        BY <4>1 DEF TurnsOf
      <4> QED BY <4>2
    <3> QED BY <3>1, <3>2 DEF IsGathered, Upto, Paired, Has, AllHave
  <2>2. mphase = "completed" /\ ~is_async_mode(req.mode) => meta = NoMeta
    BY <1>3 DEF TurnInv, Gathered
  <2>3. mphase = "call" => llm_call_ready(resolve_llm_target(req), req.key) /\ tries < max_retries(req)
    BY <1>3 DEF TurnInv, CallsAllowed
  <2> QED BY <2>1, <2>2, <2>3 DEF RolloutAligned
<1> QED BY <1>1, <1>2, <1>3, PTL DEF TurnSpec

-----------------------------------------------------------------------------
(* Grading (SweGrading).                                                   *)

InProvision == {"reset", "setup", "initial", "commit"}
Opened == {"open", "write", "gold", "diff", "tests", "ids", "run", "grade", "ended"}
FullRows == [variant : Variants, base : BOOLEAN, contract : {NoContract, RewardOverlay}]
GradeFields == {"at", "wr", "file", "tree", "head", "recycling", "gold", "clean", "intact", "worked", "edits",
                "recycles", "report", "lossy", "verdict", "terminated"}

\* A session q with the row of a catalog: what it is at, and which file it has.
SessionIsTyped(row, q) ==
    /\ DOMAIN q = GradeFields
    /\ q.at \in {"idle", "gone"} \cup InProvision \cup Opened
    /\ q.wr \in {"none", "staged", "copied", "written"}
    /\ q.at \notin {"idle", "gone"} => row \in FullRows
    /\ q.wr # "none" => q.at \in Writing
    /\ q.file.of \in Graded \cup {"none", "missing"}
    /\ q.wr = "copied" => q.file.of # "none"
    /\ q.wr = "written" => q.file.of \in Graded
    /\ q.verdict # "none" => q.at = "ended"

GradeTypes ==
    /\ cat = [s \in Graded |-> cat[s]] /\ \A s \in Graded : cat[s] \in FullRows \cup {NoRow}
    /\ ss = [s \in Graded |-> ss[s]] /\ \A s \in Graded : SessionIsTyped(cat[s], ss[s])
    /\ \A s \in Graded : IF start = "ready" THEN TRUE ELSE ss[s] = SessionStart
    /\ tmp.of \in Graded \cup {"gone"}

\* The contract of a row is that of its variant where the property speaks.
OwnRow(row) == row # NoRow /\ Fits(row)
Smith(row) == row.variant = "smith"
Pro(row) == row.variant = "pro"

\* A session whose agent has not solved anything since it was reset to the
\* base commit: the bug is still there.
Unsolved(row, q) == OwnRow(row) /\ row.base /\ q.intact /\ ~q.worked
BugIsThere(row, tree) ==
    /\ "fix" \notin tree /\ ("dataset" \in tree <=> Smith(row))
    /\ Pro(row) => "tests" \in tree
UnsolvedIsSound(row, q) ==
    Unsolved(row, q) =>
        /\ q.at \in {"setup", "initial"} => q.tree = {} /\ q.head = {}
        /\ q.at = "initial" => Smith(row)
        /\ q.at = "commit" => q.head = {} /\ ((q.tree = {} /\ Smith(row)) \/ BugIsThere(row, q.tree))
        /\ q.at \in Opened => BugIsThere(row, q.tree)
        /\ q.at = "grade" /\ "tangle" \notin q.tree =>
              /\ q.report.f2p # "pass"
              /\ Pro(row) /\ ~q.lossy => q.report.f2p = "fail" /\ ~q.report.summary
        /\ q.at = "ended" /\ "tangle" \notin q.tree /\ (q.lossy => ~Pro(row)) => q.verdict # "resolved"

\* A session that no agent has changed: the tree is the one its contract asks
\* for.
Original(row) == IF Smith(row) THEN {"dataset"} ELSE {"tests"}
IsOriginal(row, tree) ==
    IF Smith(row) THEN tree = {"dataset"} ELSE tree \subseteq {"tests"} /\ (Pro(row) => "tests" \in tree)
IsSolved(row, tree) ==
    IF Smith(row) THEN tree = {}
    ELSE tree \subseteq {"dataset", "tests"} /\ "dataset" \in tree /\ (Pro(row) => "tests" \in tree)
CleanIsSound(row, q) ==
    OwnRow(row) /\ q.clean =>
        /\ q.head \subseteq Original(row)
        /\ q.at \in {"setup", "initial"} => q.tree = q.head
        /\ q.at = "initial" => Smith(row)
        /\ q.at \in {"commit", "open", "write", "gold"} => IsOriginal(row, q.tree)
        /\ q.at \in {"setup", "initial", "commit", "open", "write"} => ~q.gold
        /\ q.gold /\ q.at \in {"diff", "tests", "ids", "run", "grade"} => IsSolved(row, q.tree)
        /\ q.gold /\ q.at = "tests" => ~Smith(row)
        /\ q.gold /\ q.at \in {"ids", "run", "grade"} => Smith(row) \/ "tests" \in q.tree
        /\ q.gold /\ q.at = "grade" /\ ~q.lossy => q.report.f2p = "pass" /\ q.report.p2p = "pass"
        /\ q.gold /\ q.at = "ended" /\ ~q.lossy => q.verdict # "unresolved"

GradeInv == GradeTypes /\ \A s \in Graded : UnsolvedIsSound(cat[s], ss[s])
CleanInv == \A s \in Graded : CleanIsSound(cat[s], ss[s])

LEMMA OwnContract ==
    ASSUME NEW row \in FullRows, OwnRow(row)
    PROVE  LET contract == runtime_contract(row) IN
           IF Smith(row) THEN contract.provision = "apply" /\ contract.commit /\ contract.gold = "reverse"
           ELSE contract.provision = "none" /\ ~contract.commit /\ contract.gold = "apply"
<1>1. CASE row.contract = NoContract
  BY <1>1 DEF runtime_contract, for_variant, Smith
<1>2. CASE row.contract # NoContract
  <2>1. runtime_contract(row) = RewardOverlay
    BY <1>2 DEF runtime_contract, FullRows
  <2>2. RewardOverlay.provision = "none" /\ ~RewardOverlay.commit /\ RewardOverlay.gold = "apply"
    BY DEF RewardOverlay
  <2>3. ~Smith(row)
    BY <2>1, <2>2 DEF OwnRow, Fits, for_variant, Smith
  <2> QED BY <2>1, <2>2, <2>3
<1> QED BY <1>1, <1>2

\* What becomes of a session: the fields that are named change, the others
\* stay.
Changes(q, n, fields) ==
    /\ DOMAIN n = GradeFields
    /\ \A f \in GradeFields : n[f] = IF f \in DOMAIN fields THEN fields[f] ELSE q[f]

\* A step from q to n keeps what is known of the session s.
Keeps(s, row, q, n) ==
    /\ SessionIsTyped(row, n)
    /\ UnsolvedIsSound(row, q) => UnsolvedIsSound(row, n)
    /\ CleanIsSound(row, q) /\ (q.wr = "written" => q.file.of = s) => CleanIsSound(row, n)

LEMMA SessionChanges ==
    ASSUME GradeTypes, NEW s \in Graded, NEW fields, Session(s, fields)
    PROVE  /\ ss' = [t \in Graded |-> ss'[t]] /\ \A t \in Graded \ {s} : ss'[t] = ss[t]
           /\ Changes(ss[s], ss'[s], fields)
BY DEF GradeTypes, SessionIsTyped, Session, Changes

\* One session moves: what holds of the others stays.
LEMMA SessionMoves ==
    ASSUME GradingConstants, GradeTypes, NEW s \in Graded, ss[s].at # "idle" \/ start = "ready", UNCHANGED <<start, cat>>,
           \E fields : Session(s, fields), Keeps(s, cat[s], ss[s], ss'[s]), tmp'.of \in Graded \cup {"gone"}
    PROVE  /\ GradeTypes'
           /\ GradeInv => GradeInv'
           /\ CleanInv /\ WritesArrive => CleanInv'
<1>1. /\ ss' = [t \in Graded |-> ss'[t]] /\ \A t \in Graded \ {s} : ss'[t] = ss[t]
  BY SessionChanges
<1>2. start = "ready"
  BY DEF GradeTypes, SessionStart
<1>3. GradeTypes'
  <2>1. \A t \in Graded : SessionIsTyped(cat[t], ss'[t])
    BY <1>1 DEF GradeTypes, Keeps
  <2> QED BY <1>1, <1>2, <2>1 DEF GradeTypes
<1>4. ASSUME GradeInv PROVE GradeInv'
  BY <1>1, <1>3, <1>4 DEF GradeInv, Keeps
<1>5. ASSUME CleanInv, WritesArrive PROVE CleanInv'
  <2>1. ss[s].wr = "written" => ss[s].file.of = s
    BY <1>5 DEF WritesArrive, GradeTypes, SessionIsTyped, GradingConstants
  <2>2. CleanIsSound(cat[s], ss'[s])
    BY <2>1, <1>5 DEF CleanInv, Keeps
  <2> QED BY <1>1, <1>5, <2>2 DEF CleanInv
<1> QED BY <1>3, <1>4, <1>5

\* What is known of a session, by its row and its state.
SessionOf(s, row, q, n) == row = cat[s] /\ q = ss[s] /\ n = ss'[s]

LEMMA ResetKeeps ==
    ASSUME GradeTypes, NEW s \in Graded, ResetTree(s)
    PROVE  Keeps(s, cat[s], ss[s], ss'[s])
<1>1. PICK row, q, n : SessionOf(s, row, q, n)
  BY DEF SessionOf
<1>2. PICK tree : tree = IF row.base THEN {} ELSE q.head
  OBVIOUS
<1>3. /\ SessionIsTyped(row, q) /\ q.at = "reset"
      /\ Changes(q, n, [at |-> "setup", tree |-> tree, head |-> tree, worked |-> FALSE, gold |-> FALSE,
                        intact |-> TRUE, clean |-> row.base \/ q.clean])
  BY <1>1, <1>2, SessionChanges DEF SessionOf, GradeTypes, ResetTree, reset_script_keep_built
<1>4. /\ n.at = "setup" /\ n.tree = tree /\ n.head = tree /\ ~ n.worked /\ ~ n.gold /\ n.intact
      /\ n.clean = (row.base \/ q.clean)
      /\ n.wr = q.wr /\ n.file = q.file /\ n.lossy = q.lossy /\ n.verdict = q.verdict /\ n.recycling = q.recycling
  BY <1>3 DEF Changes, GradeFields
<1>5. row \in FullRows
  BY <1>3 DEF SessionIsTyped, InProvision
<1>6. SessionIsTyped(row, n)
  BY <1>3, <1>4, <1>5 DEF SessionIsTyped, Changes, InProvision, Writing, FullRows
<1>7. UnsolvedIsSound(row, n)
  BY <1>2, <1>4 DEF UnsolvedIsSound, Unsolved, Opened
<1>8. ASSUME CleanIsSound(row, q) PROVE CleanIsSound(row, n)
  BY <1>2, <1>3, <1>4, <1>8 DEF CleanIsSound
<1> QED BY <1>1, <1>6, <1>7, <1>8 DEF Keeps, SessionOf

LEMMA CommitsKeep ==
    ASSUME GradingConstants, GradeTypes, NEW s \in Graded, AgentCommits(s)
    PROVE  Keeps(s, cat[s], ss[s], ss'[s])
<1>1. PICK row, q, n : SessionOf(s, row, q, n)
  BY DEF SessionOf
<1>3. SessionIsTyped(row, q) /\ q.at = "open" /\ Changes(q, n, [head |-> q.tree])
  BY <1>1, SessionChanges DEF SessionOf, GradeTypes, AgentCommits
<1>4. /\ n.head = q.tree
      /\ n.at = q.at /\ n.wr = q.wr /\ n.file = q.file /\ n.tree = q.tree /\ n.gold = q.gold
      /\ n.clean = q.clean /\ n.intact = q.intact /\ n.worked = q.worked /\ n.report = q.report
      /\ n.lossy = q.lossy /\ n.verdict = q.verdict
  BY <1>3 DEF Changes, GradeFields
<1>5. row \in FullRows
  BY <1>3 DEF SessionIsTyped, InProvision, Opened, Writing
<1>6. SessionIsTyped(row, n)
  BY <1>3, <1>4, <1>5 DEF SessionIsTyped, Changes, InProvision, Opened, Writing
<1>7. ASSUME UnsolvedIsSound(row, q) PROVE UnsolvedIsSound(row, n)
  BY <1>3, <1>4, <1>5, <1>7 DEF UnsolvedIsSound, Unsolved, Opened, BugIsThere, Smith, Pro
<1>8. ASSUME CleanIsSound(row, q), q.wr = "written" => q.file.of = s PROVE CleanIsSound(row, n)
  BY <1>3, <1>4, <1>5, <1>8 DEF CleanIsSound, IsOriginal, IsSolved, Original, Smith, Pro
<1> QED BY <1>1, <1>6, <1>7, <1>8 DEF Keeps, SessionOf

LEMMA WriteKeeps ==
    ASSUME GradingConstants, GradeTypes, NEW s \in Graded, write_file(s)
    PROVE  Keeps(s, cat[s], ss[s], ss'[s])
<1>1. PICK row, q, n : SessionOf(s, row, q, n)
  BY DEF SessionOf
<1>3. SessionIsTyped(row, q) /\ q.at = "open" /\ Changes(q, n, [at |-> "write", edits |-> (q.edits + 1)])
  BY <1>1, SessionChanges DEF SessionOf, GradeTypes, write_file
<1>4. /\ n.at = "write"
      /\ n.wr = q.wr /\ n.file = q.file /\ n.tree = q.tree /\ n.head = q.head /\ n.gold = q.gold
      /\ n.clean = q.clean /\ n.intact = q.intact /\ n.worked = q.worked /\ n.report = q.report
      /\ n.lossy = q.lossy /\ n.verdict = q.verdict
  BY <1>3 DEF Changes, GradeFields
<1>5. row \in FullRows
  BY <1>3 DEF SessionIsTyped, InProvision, Opened, Writing
<1>6. SessionIsTyped(row, n)
  BY <1>3, <1>4, <1>5 DEF SessionIsTyped, Changes, InProvision, Opened, Writing
<1>7. ASSUME UnsolvedIsSound(row, q) PROVE UnsolvedIsSound(row, n)
  BY <1>3, <1>4, <1>5, <1>7 DEF UnsolvedIsSound, Unsolved, Opened, BugIsThere, Smith, Pro
<1>8. ASSUME CleanIsSound(row, q), q.wr = "written" => q.file.of = s PROVE CleanIsSound(row, n)
  BY <1>3, <1>4, <1>5, <1>8 DEF CleanIsSound, IsOriginal, IsSolved, Original, Smith, Pro
<1> QED BY <1>1, <1>6, <1>7, <1>8 DEF Keeps, SessionOf

LEMMA GoldKeeps ==
    ASSUME GradingConstants, GradeTypes, NEW s \in Graded, BeginGold(s)
    PROVE  Keeps(s, cat[s], ss[s], ss'[s])
<1>1. PICK row, q, n : SessionOf(s, row, q, n)
  BY DEF SessionOf
<1>3. SessionIsTyped(row, q) /\ q.at = "open" /\ Changes(q, n, [at |-> "gold", gold |-> TRUE])
  BY <1>1, SessionChanges DEF SessionOf, GradeTypes, BeginGold
<1>4. /\ n.at = "gold" /\ n.gold = TRUE
      /\ n.wr = q.wr /\ n.file = q.file /\ n.tree = q.tree /\ n.head = q.head
      /\ n.clean = q.clean /\ n.intact = q.intact /\ n.worked = q.worked /\ n.report = q.report
      /\ n.lossy = q.lossy /\ n.verdict = q.verdict
  BY <1>3 DEF Changes, GradeFields
<1>5. row \in FullRows
  BY <1>3 DEF SessionIsTyped, InProvision, Opened, Writing
<1>6. SessionIsTyped(row, n)
  BY <1>3, <1>4, <1>5 DEF SessionIsTyped, Changes, InProvision, Opened, Writing
<1>7. ASSUME UnsolvedIsSound(row, q) PROVE UnsolvedIsSound(row, n)
  BY <1>3, <1>4, <1>5, <1>7 DEF UnsolvedIsSound, Unsolved, Opened, BugIsThere, Smith, Pro
<1>8. ASSUME CleanIsSound(row, q), q.wr = "written" => q.file.of = s PROVE CleanIsSound(row, n)
  BY <1>3, <1>4, <1>5, <1>8 DEF CleanIsSound, IsOriginal, IsSolved, Original, Smith, Pro
<1> QED BY <1>1, <1>6, <1>7, <1>8 DEF Keeps, SessionOf

LEMMA RecycleKeeps ==
    ASSUME GradingConstants, GradeTypes, NEW s \in Graded, recycle(s)
    PROVE  Keeps(s, cat[s], ss[s], ss'[s])
<1>1. PICK row, q, n : SessionOf(s, row, q, n)
  BY DEF SessionOf
<1>3. SessionIsTyped(row, q) /\ q.at \in {"open", "ended"} /\ Changes(q, n, [at |-> "reset", recycling |-> TRUE, recycles |-> (q.recycles + 1), verdict |-> "none"])
  BY <1>1, SessionChanges DEF SessionOf, GradeTypes, recycle
<1>4. /\ n.at = "reset" /\ n.verdict = "none"
      /\ n.wr = q.wr /\ n.file = q.file /\ n.tree = q.tree /\ n.head = q.head /\ n.gold = q.gold
      /\ n.clean = q.clean /\ n.intact = q.intact /\ n.worked = q.worked /\ n.report = q.report
      /\ n.lossy = q.lossy
  BY <1>3 DEF Changes, GradeFields
<1>5. row \in FullRows
  BY <1>3 DEF SessionIsTyped, InProvision, Opened, Writing
<1>6. SessionIsTyped(row, n)
  BY <1>3, <1>4, <1>5 DEF SessionIsTyped, Changes, InProvision, Opened, Writing
<1>7. ASSUME UnsolvedIsSound(row, q) PROVE UnsolvedIsSound(row, n)
  BY <1>3, <1>4, <1>5, <1>7 DEF UnsolvedIsSound, Unsolved, Opened, BugIsThere, Smith, Pro
<1>8. ASSUME CleanIsSound(row, q), q.wr = "written" => q.file.of = s PROVE CleanIsSound(row, n)
  BY <1>3, <1>4, <1>5, <1>8 DEF CleanIsSound, IsOriginal, IsSolved, Original, Smith, Pro
<1> QED BY <1>1, <1>6, <1>7, <1>8 DEF Keeps, SessionOf

LEMMA SubmitKeeps ==
    ASSUME GradingConstants, GradeTypes, NEW s \in Graded, pool_submit(s)
    PROVE  Keeps(s, cat[s], ss[s], ss'[s])
<1>1. PICK row, q, n : SessionOf(s, row, q, n)
  BY DEF SessionOf
<1>3. SessionIsTyped(row, q) /\ q.at = "open" /\ Changes(q, n, [at |-> "diff"])
  BY <1>1, SessionChanges DEF SessionOf, GradeTypes, pool_submit, GoTo
<1>4. /\ n.at = "diff"
      /\ n.wr = q.wr /\ n.file = q.file /\ n.tree = q.tree /\ n.head = q.head /\ n.gold = q.gold
      /\ n.clean = q.clean /\ n.intact = q.intact /\ n.worked = q.worked /\ n.report = q.report
      /\ n.lossy = q.lossy /\ n.verdict = q.verdict
  BY <1>3 DEF Changes, GradeFields
<1>5. row \in FullRows
  BY <1>3 DEF SessionIsTyped, InProvision, Opened, Writing
<1>6. SessionIsTyped(row, n)
  BY <1>3, <1>4, <1>5 DEF SessionIsTyped, Changes, InProvision, Opened, Writing
<1>7. ASSUME UnsolvedIsSound(row, q) PROVE UnsolvedIsSound(row, n)
  BY <1>3, <1>4, <1>5, <1>7 DEF UnsolvedIsSound, Unsolved, Opened, BugIsThere, Smith, Pro
<1>8. ASSUME CleanIsSound(row, q), q.wr = "written" => q.file.of = s PROVE CleanIsSound(row, n)
  BY <1>3, <1>4, <1>5, <1>8 DEF CleanIsSound, IsOriginal, IsSolved, Original, Smith, Pro
<1> QED BY <1>1, <1>6, <1>7, <1>8 DEF Keeps, SessionOf

LEMMA TerminateKeeps ==
    ASSUME GradingConstants, GradeTypes, NEW s \in Graded, terminate(s)
    PROVE  Keeps(s, cat[s], ss[s], ss'[s])
<1>1. PICK row, q, n : SessionOf(s, row, q, n)
  BY DEF SessionOf
<1>3. SessionIsTyped(row, q) /\ q.at \notin {"idle", "gone"} /\ Changes(q, n, [terminated |-> TRUE])
  BY <1>1, SessionChanges DEF SessionOf, GradeTypes, terminate
<1>4. /\ n.at = q.at /\ n.wr = q.wr /\ n.file = q.file /\ n.tree = q.tree /\ n.head = q.head
      /\ n.gold = q.gold /\ n.clean = q.clean /\ n.intact = q.intact /\ n.worked = q.worked
      /\ n.report = q.report /\ n.lossy = q.lossy /\ n.verdict = q.verdict
  BY <1>3 DEF Changes, GradeFields
<1>5. row \in FullRows
  BY <1>3 DEF SessionIsTyped, InProvision, Opened, Writing
<1>6. SessionIsTyped(row, n)
  BY <1>3, <1>4, <1>5 DEF SessionIsTyped, Changes, InProvision, Opened, Writing
<1>7. ASSUME UnsolvedIsSound(row, q) PROVE UnsolvedIsSound(row, n)
  BY <1>3, <1>4, <1>5, <1>7 DEF UnsolvedIsSound, Unsolved, Opened, BugIsThere, Smith, Pro
<1>8. ASSUME CleanIsSound(row, q), q.wr = "written" => q.file.of = s PROVE CleanIsSound(row, n)
  BY <1>3, <1>4, <1>5, <1>8 DEF CleanIsSound, IsOriginal, IsSolved, Original, Smith, Pro
<1> QED BY <1>1, <1>6, <1>7, <1>8 DEF Keeps, SessionOf

LEMMA WrittenKeeps ==
    ASSUME GradingConstants, GradeTypes, NEW s \in Graded, FileWritten(s)
    PROVE  Keeps(s, cat[s], ss[s], ss'[s])
<1>1. PICK row, q, n : SessionOf(s, row, q, n)
  BY DEF SessionOf
<1>3. SessionIsTyped(row, q) /\ q.at \in {"write", "ids"} /\ Changes(q, n, [at |-> (IF q.at = "ids" THEN "run" ELSE "open"), wr |-> "none"])
  BY <1>1, SessionChanges DEF SessionOf, GradeTypes, FileWritten
<1>4. /\ n.at = (IF q.at = "ids" THEN "run" ELSE "open") /\ n.wr = "none"
      /\ n.file = q.file /\ n.tree = q.tree /\ n.head = q.head /\ n.gold = q.gold
      /\ n.clean = q.clean /\ n.intact = q.intact /\ n.worked = q.worked /\ n.report = q.report
      /\ n.lossy = q.lossy /\ n.verdict = q.verdict
  BY <1>3 DEF Changes, GradeFields
<1>5. row \in FullRows
  BY <1>3 DEF SessionIsTyped, InProvision, Opened, Writing
<1>6. SessionIsTyped(row, n)
  BY <1>3, <1>4, <1>5 DEF SessionIsTyped, Changes, InProvision, Opened, Writing
<1>7. ASSUME UnsolvedIsSound(row, q) PROVE UnsolvedIsSound(row, n)
  BY <1>3, <1>4, <1>5, <1>7 DEF UnsolvedIsSound, Unsolved, Opened, BugIsThere, Smith, Pro
<1>8. ASSUME CleanIsSound(row, q), q.wr = "written" => q.file.of = s PROVE CleanIsSound(row, n)
  BY <1>3, <1>4, <1>5, <1>8 DEF CleanIsSound, IsOriginal, IsSolved, Original, Smith, Pro
<1> QED BY <1>1, <1>6, <1>7, <1>8 DEF Keeps, SessionOf

LEMMA StageKeeps ==
    ASSUME GradingConstants, GradeTypes, NEW s \in Graded, StageFile(s)
    PROVE  Keeps(s, cat[s], ss[s], ss'[s])
<1>1. PICK row, q, n : SessionOf(s, row, q, n)
  BY DEF SessionOf
<1>3. SessionIsTyped(row, q) /\ q.at \in Writing /\ Changes(q, n, [wr |-> "staged"])
  BY <1>1, SessionChanges DEF SessionOf, GradeTypes, StageFile
<1>4. /\ n.wr = "staged"
      /\ n.at = q.at /\ n.file = q.file /\ n.tree = q.tree /\ n.head = q.head /\ n.gold = q.gold
      /\ n.clean = q.clean /\ n.intact = q.intact /\ n.worked = q.worked /\ n.report = q.report
      /\ n.lossy = q.lossy /\ n.verdict = q.verdict
  BY <1>3 DEF Changes, GradeFields
<1>5. row \in FullRows
  BY <1>3 DEF SessionIsTyped, InProvision, Opened, Writing
<1>6. SessionIsTyped(row, n)
  BY <1>3, <1>4, <1>5 DEF SessionIsTyped, Changes, InProvision, Opened, Writing
<1>7. ASSUME UnsolvedIsSound(row, q) PROVE UnsolvedIsSound(row, n)
  BY <1>3, <1>4, <1>5, <1>7 DEF UnsolvedIsSound, Unsolved, Opened, BugIsThere, Smith, Pro
<1>8. ASSUME CleanIsSound(row, q), q.wr = "written" => q.file.of = s PROVE CleanIsSound(row, n)
  BY <1>3, <1>4, <1>5, <1>8 DEF CleanIsSound, IsOriginal, IsSolved, Original, Smith, Pro
<1> QED BY <1>1, <1>6, <1>7, <1>8 DEF Keeps, SessionOf

LEMMA EditsKeep ==
    ASSUME GradingConstants, GradeTypes, NEW s \in Graded, AgentEdits(s)
    PROVE  Keeps(s, cat[s], ss[s], ss'[s])
<1>1. PICK row, q, n : SessionOf(s, row, q, n)
  BY DEF SessionOf
<1>2. PICK change \in {"fix", "break", "tangle"} :
            Session(s, [tree |-> q.tree \cup {change}, edits |-> q.edits + 1, clean |-> FALSE,
                        worked |-> q.worked \/ change = "fix"])
  BY <1>1 DEF SessionOf, AgentEdits
<1>3. SessionIsTyped(row, q) /\ q.at = "open" /\ Changes(q, n, [tree |-> (q.tree \cup {change}), edits |-> (q.edits + 1), clean |-> FALSE, worked |-> (q.worked \/ change = "fix")])
  BY <1>1, <1>2, SessionChanges DEF SessionOf, GradeTypes, AgentEdits
<1>4. /\ n.tree = (q.tree \cup {change}) /\ n.clean = FALSE
      /\ n.worked = (q.worked \/ change = "fix")
      /\ n.at = q.at /\ n.wr = q.wr /\ n.file = q.file /\ n.head = q.head /\ n.gold = q.gold
      /\ n.intact = q.intact /\ n.report = q.report /\ n.lossy = q.lossy
      /\ n.verdict = q.verdict
  BY <1>3 DEF Changes, GradeFields
<1>5. row \in FullRows
  BY <1>3 DEF SessionIsTyped, InProvision, Opened, Writing
<1>6. SessionIsTyped(row, n)
  BY <1>2, <1>3, <1>4, <1>5 DEF SessionIsTyped, Changes, InProvision, Opened, Writing
<1>7. ASSUME UnsolvedIsSound(row, q) PROVE UnsolvedIsSound(row, n)
  BY <1>2, <1>3, <1>4, <1>5, <1>7 DEF UnsolvedIsSound, Unsolved, Opened, BugIsThere, Smith, Pro
<1>8. ASSUME CleanIsSound(row, q), q.wr = "written" => q.file.of = s PROVE CleanIsSound(row, n)
  BY <1>2, <1>3, <1>4, <1>5, <1>8 DEF CleanIsSound, IsOriginal, IsSolved, Original, Smith, Pro
<1> QED BY <1>1, <1>6, <1>7, <1>8 DEF Keeps, SessionOf

LEMMA CopyKeeps ==
    ASSUME GradingConstants, GradeTypes, NEW s \in Graded, CopyFile(s)
    PROVE  Keeps(s, cat[s], ss[s], ss'[s])
<1>1. PICK row, q, n : SessionOf(s, row, q, n)
  BY DEF SessionOf
<1>2. PICK file : file = IF tmp.of = "gone" \/ ~ ensure_active(s) THEN [of |-> "missing"] ELSE tmp
  BY <1>1 DEF SessionOf, CopyFile
<1>3. SessionIsTyped(row, q) /\ q.wr = "staged" /\ file.of \in Graded \cup {"missing"} /\ file.of # "none" /\ Changes(q, n, [wr |-> "copied", file |-> file])
  BY <1>1, <1>2, SessionChanges DEF SessionOf, GradeTypes, CopyFile, GradingConstants
<1>4. /\ n.wr = "copied" /\ n.file = file
      /\ n.at = q.at /\ n.tree = q.tree /\ n.head = q.head /\ n.gold = q.gold
      /\ n.clean = q.clean /\ n.intact = q.intact /\ n.worked = q.worked /\ n.report = q.report
      /\ n.lossy = q.lossy /\ n.verdict = q.verdict
  BY <1>3 DEF Changes, GradeFields
<1>5. row \in FullRows
  BY <1>3 DEF SessionIsTyped, InProvision, Opened, Writing
<1>6. SessionIsTyped(row, n)
  BY <1>2, <1>3, <1>4, <1>5 DEF SessionIsTyped, Changes, InProvision, Opened, Writing
<1>7. ASSUME UnsolvedIsSound(row, q) PROVE UnsolvedIsSound(row, n)
  BY <1>2, <1>3, <1>4, <1>5, <1>7 DEF UnsolvedIsSound, Unsolved, Opened, BugIsThere, Smith, Pro
<1>8. ASSUME CleanIsSound(row, q), q.wr = "written" => q.file.of = s PROVE CleanIsSound(row, n)
  BY <1>2, <1>3, <1>4, <1>5, <1>8 DEF CleanIsSound, IsOriginal, IsSolved, Original, Smith, Pro
<1> QED BY <1>1, <1>6, <1>7, <1>8 DEF Keeps, SessionOf

LEMMA DiffKeeps ==
    ASSUME GradingConstants, GradeTypes, NEW s \in Graded, evaluate_diff(s)
    PROVE  Keeps(s, cat[s], ss[s], ss'[s])
<1>1. PICK row, q, n : SessionOf(s, row, q, n)
  BY DEF SessionOf
<1>2. PICK next : /\ GoTo(s, next)
                  /\ (next = "tests" /\ ~ Smith(row)) \/ (next \in {"ids", "run"} /\ Smith(row))
  BY <1>1 DEF SessionOf, evaluate_diff, Smith
<1>3. SessionIsTyped(row, q) /\ q.at = "diff" /\ ((next = "tests" /\ ~ Smith(row)) \/ (next \in {"ids", "run"} /\ Smith(row))) /\ Changes(q, n, [at |-> next])
  BY <1>1, <1>2, SessionChanges DEF SessionOf, GradeTypes, evaluate_diff, GoTo
<1>4. /\ n.at = next
      /\ n.wr = q.wr /\ n.file = q.file /\ n.tree = q.tree /\ n.head = q.head /\ n.gold = q.gold
      /\ n.clean = q.clean /\ n.intact = q.intact /\ n.worked = q.worked /\ n.report = q.report
      /\ n.lossy = q.lossy /\ n.verdict = q.verdict
  BY <1>3 DEF Changes, GradeFields
<1>5. row \in FullRows
  BY <1>3 DEF SessionIsTyped, InProvision, Opened, Writing
<1>6. SessionIsTyped(row, n)
  BY <1>2, <1>3, <1>4, <1>5 DEF SessionIsTyped, Changes, InProvision, Opened, Writing
<1>7. ASSUME UnsolvedIsSound(row, q) PROVE UnsolvedIsSound(row, n)
  BY <1>2, <1>3, <1>4, <1>5, <1>7 DEF UnsolvedIsSound, Unsolved, Opened, BugIsThere, Smith, Pro
<1>8. ASSUME CleanIsSound(row, q), q.wr = "written" => q.file.of = s PROVE CleanIsSound(row, n)
  BY <1>2, <1>3, <1>4, <1>5, <1>8 DEF CleanIsSound, IsOriginal, IsSolved, Original, Smith, Pro
<1> QED BY <1>1, <1>6, <1>7, <1>8 DEF Keeps, SessionOf

LEMMA RemoveKeeps ==
    ASSUME GradingConstants, GradeTypes, NEW s \in Graded, RemoveFile(s) \/ StepFails(s)
    PROVE  Keeps(s, cat[s], ss[s], ss'[s])
<1>1. PICK row, q, n : SessionOf(s, row, q, n)
  BY DEF SessionOf
<1>2. SessionIsTyped(row, q) /\ q.at \notin {"idle", "ended", "gone"}
  BY <1>1 DEF SessionOf, GradeTypes, SessionIsTyped, Writing, RemoveFile, StepFails
<1>3. row \in FullRows
  BY <1>2 DEF SessionIsTyped
<1>4. CASE RemoveFile(s) /\ q.file.of # "missing"
  <2>1. q.wr = "copied" /\ Changes(q, n, [wr |-> "written"])
    BY <1>1, <1>4, SessionChanges DEF SessionOf, RemoveFile
  <2>2. /\ n.wr = "written"
        /\ n.at = q.at /\ n.file = q.file /\ n.tree = q.tree /\ n.head = q.head /\ n.gold = q.gold /\ n.clean = q.clean
        /\ n.intact = q.intact /\ n.worked = q.worked /\ n.report = q.report /\ n.lossy = q.lossy /\ n.verdict = q.verdict
    BY <2>1 DEF Changes, GradeFields
  <2>3. SessionIsTyped(row, n)
    BY <1>2, <1>3, <1>4, <2>1, <2>2 DEF SessionIsTyped, Changes
  <2>4. UnsolvedIsSound(row, q) => UnsolvedIsSound(row, n)
    BY <2>2 DEF UnsolvedIsSound, Unsolved
  <2>5. CleanIsSound(row, q) => CleanIsSound(row, n)
    BY <2>2 DEF CleanIsSound
  <2> QED BY <1>1, <2>3, <2>4, <2>5 DEF Keeps, SessionOf
<1>5. CASE ~ (RemoveFile(s) /\ q.file.of # "missing")
  <2>1. Session(s, Failed(s))
    BY <1>1, <1>5 DEF SessionOf, RemoveFile, StepFails
  <2>2. q.at # "open"
    BY <1>1, <1>2, <1>5 DEF SessionOf, SessionIsTyped, Writing, RemoveFile, StepFails
  <2>3. CASE q.at \in InProvision /\ ~ q.recycling
    <3>1. Changes(q, n, [at |-> "gone", wr |-> "none"])
      <4>1. Failed(s) = [at |-> "gone", wr |-> "none"]
        BY <1>1, <2>3 DEF SessionOf, Failed, InProvision
      <4> QED BY <1>1, <2>1, <4>1, SessionChanges DEF SessionOf
    <3>2. /\ n.at = "gone" /\ n.wr = "none"
          /\ n.file = q.file /\ n.tree = q.tree /\ n.head = q.head /\ n.gold = q.gold /\ n.clean = q.clean
          /\ n.intact = q.intact /\ n.worked = q.worked /\ n.report = q.report /\ n.lossy = q.lossy /\ n.verdict = q.verdict
      BY <3>1 DEF Changes, GradeFields
    <3>3. SessionIsTyped(row, n)
      BY <1>2, <1>3, <2>3, <3>1, <3>2 DEF SessionIsTyped, Changes, InProvision
    <3>4. UnsolvedIsSound(row, n)
      BY <3>2 DEF UnsolvedIsSound, Opened
    <3>5. CleanIsSound(row, q) => CleanIsSound(row, n)
      BY <3>2 DEF CleanIsSound
    <3> QED BY <1>1, <3>3, <3>4, <3>5 DEF Keeps, SessionOf
  <2>4. CASE q.at \in InProvision /\ q.recycling
    <3>1. Changes(q, n, [at |-> "open", wr |-> "none", clean |-> FALSE, intact |-> FALSE])
      BY <1>1, <2>1, <2>4, SessionChanges DEF SessionOf, Failed, InProvision
    <3>2. /\ n.at = "open" /\ n.wr = "none" /\ ~ n.clean /\ ~ n.intact /\ n.file = q.file /\ n.verdict = q.verdict
      BY <3>1 DEF Changes, GradeFields
    <3>3. SessionIsTyped(row, n)
      BY <1>2, <1>3, <2>4, <3>1, <3>2 DEF SessionIsTyped, Changes, InProvision, Opened
    <3>4. UnsolvedIsSound(row, n) /\ CleanIsSound(row, n)
      BY <3>2 DEF UnsolvedIsSound, Unsolved, CleanIsSound
    <3> QED BY <1>1, <3>3, <3>4 DEF Keeps, SessionOf
  <2>5. CASE q.at \notin InProvision
    <3>1. PICK at : at = IF q.at = "write" THEN "open" ELSE "ended"
      OBVIOUS
    <3>2. Changes(q, n, [at |-> at, wr |-> "none"])
      <4>1. Failed(s) = [at |-> at, wr |-> "none"]
        BY <1>1, <2>5, <3>1 DEF SessionOf, Failed, InProvision
      <4> QED BY <1>1, <2>1, <4>1, SessionChanges DEF SessionOf
    <3>3. /\ n.at = at /\ n.wr = "none"
          /\ n.file = q.file /\ n.tree = q.tree /\ n.head = q.head /\ n.gold = q.gold /\ n.clean = q.clean
          /\ n.intact = q.intact /\ n.worked = q.worked /\ n.report = q.report /\ n.lossy = q.lossy /\ n.verdict = q.verdict
      BY <3>2 DEF Changes, GradeFields
    <3>4. n.verdict = "none"
      BY <1>2, <3>3 DEF SessionIsTyped
    <3>5. SessionIsTyped(row, n)
      BY <1>2, <1>3, <3>1, <3>2, <3>3, <3>4 DEF SessionIsTyped, Changes, Opened
    <3>6. UnsolvedIsSound(row, q) => UnsolvedIsSound(row, n)
      <4>1. q.at \in Opened
        BY <1>2, <2>5 DEF SessionIsTyped
      <4> QED BY <3>1, <3>3, <3>4, <4>1 DEF UnsolvedIsSound, Unsolved
    <3>7. CleanIsSound(row, q) => CleanIsSound(row, n)
      BY <2>5, <3>1, <3>3, <3>4 DEF CleanIsSound
    <3> QED BY <1>1, <3>5, <3>6, <3>7 DEF Keeps, SessionOf
  <2> QED BY <2>3, <2>4, <2>5
<1> QED BY <1>4, <1>5

LEMMA SetupKeeps ==
    ASSUME GradingConstants, GradeTypes, NEW s \in Graded, run_pro_setup_at_provision(s)
    PROVE  Keeps(s, cat[s], ss[s], ss'[s])
<1>1. PICK row, q, n : SessionOf(s, row, q, n)
  BY DEF SessionOf
<1>2. PICK tree, at :
         /\ tree = q.tree \cup (IF Pro(row) THEN {"tests"} ELSE {})
         /\ at = IF runtime_contract(row).provision = "none" THEN "commit" ELSE "initial"
         /\ Session(s, [tree |-> tree, at |-> at])
  BY <1>1 DEF SessionOf, run_pro_setup_at_provision, Pro
<1>3. SessionIsTyped(row, q) /\ q.at = "setup" /\ Changes(q, n, [tree |-> tree, at |-> at])
  BY <1>1, <1>2, SessionChanges DEF SessionOf, GradeTypes, run_pro_setup_at_provision
<1>4. /\ n.tree = tree /\ n.at = at
      /\ n.wr = q.wr /\ n.file = q.file /\ n.head = q.head /\ n.gold = q.gold
      /\ n.clean = q.clean /\ n.intact = q.intact /\ n.worked = q.worked /\ n.report = q.report
      /\ n.lossy = q.lossy /\ n.verdict = q.verdict
  BY <1>3 DEF Changes, GradeFields
<1>5. row \in FullRows
  BY <1>3 DEF SessionIsTyped, InProvision, Opened, Writing
<1>6. SessionIsTyped(row, n)
  BY <1>2, <1>3, <1>4, <1>5 DEF SessionIsTyped, Changes, InProvision, Opened, Writing
<1>7. ASSUME UnsolvedIsSound(row, q) PROVE UnsolvedIsSound(row, n)
  BY <1>2, <1>3, <1>4, <1>5, <1>7, OwnContract DEF UnsolvedIsSound, Unsolved, Opened, BugIsThere, Smith, Pro
<1>8. ASSUME CleanIsSound(row, q), q.wr = "written" => q.file.of = s PROVE CleanIsSound(row, n)
  BY <1>2, <1>3, <1>4, <1>5, <1>8, OwnContract DEF CleanIsSound, IsOriginal, IsSolved, Original, Smith, Pro
<1> QED BY <1>1, <1>6, <1>7, <1>8 DEF Keeps, SessionOf

LEMMA BaselineKeeps ==
    ASSUME GradingConstants, GradeTypes, NEW s \in Graded, commit_baseline(s)
    PROVE  Keeps(s, cat[s], ss[s], ss'[s])
<1>1. PICK row, q, n : SessionOf(s, row, q, n)
  BY DEF SessionOf
<1>2. PICK head :
         /\ IF runtime_contract(row).commit THEN head = q.tree /\ q.tree # q.head ELSE head = q.head
         /\ Changes(q, n, [at |-> "open", head |-> head])
  <2>1. CASE runtime_contract(row).commit
    BY <1>1, <2>1, SessionChanges DEF SessionOf, commit_baseline
  <2>2. CASE ~ runtime_contract(row).commit
    <3>1. Changes(q, n, [at |-> "open"])
      BY <1>1, <2>2, SessionChanges DEF SessionOf, commit_baseline, GoTo
    <3>2. Changes(q, n, [at |-> "open", head |-> q.head])
      BY <3>1 DEF Changes, GradeFields
    <3> QED BY <2>2, <3>2
  <2> QED BY <2>1, <2>2
<1>3. SessionIsTyped(row, q) /\ q.at = "commit"
  BY <1>1 DEF SessionOf, GradeTypes, commit_baseline
<1>4. /\ n.at = "open" /\ n.head = head
      /\ n.wr = q.wr /\ n.file = q.file /\ n.tree = q.tree /\ n.gold = q.gold
      /\ n.clean = q.clean /\ n.intact = q.intact /\ n.worked = q.worked /\ n.report = q.report
      /\ n.lossy = q.lossy /\ n.verdict = q.verdict
  BY <1>2 DEF Changes, GradeFields
<1>5. row \in FullRows
  BY <1>3 DEF SessionIsTyped, InProvision, Opened, Writing
<1>6. SessionIsTyped(row, n)
  BY <1>2, <1>3, <1>4, <1>5 DEF SessionIsTyped, Changes, InProvision, Opened, Writing
<1>7. ASSUME UnsolvedIsSound(row, q) PROVE UnsolvedIsSound(row, n)
  BY <1>2, <1>3, <1>4, <1>5, <1>7, OwnContract DEF UnsolvedIsSound, Unsolved, Opened, BugIsThere, Smith, Pro
<1>8. ASSUME CleanIsSound(row, q), q.wr = "written" => q.file.of = s PROVE CleanIsSound(row, n)
  BY <1>2, <1>3, <1>4, <1>5, <1>8, OwnContract DEF CleanIsSound, IsOriginal, IsSolved, Original, Smith, Pro
<1> QED BY <1>1, <1>6, <1>7, <1>8 DEF Keeps, SessionOf

LEMMA TestPatchKeeps ==
    ASSUME GradingConstants, GradeTypes, NEW s \in Graded, ApplyTestPatch(s)
    PROVE  Keeps(s, cat[s], ss[s], ss'[s])
<1>1. PICK row, q, n : SessionOf(s, row, q, n)
  BY DEF SessionOf
<1>2. PICK tree, next :
         /\ q.file.of = s /\ "tangle" \notin q.tree => tree = q.tree \cup {"tests"}
         /\ tree \in {q.tree, q.tree \cup {"tests"}}
         /\ next \in {"ids", "run"}
         /\ Session(s, [at |-> next, wr |-> "none", tree |-> tree])
  BY <1>1 DEF SessionOf, ApplyTestPatch, apply_patch_with_reverse, Clashes
<1>3. SessionIsTyped(row, q) /\ q.at = "tests" /\ q.wr = "written" /\ Changes(q, n, [at |-> next, wr |-> "none", tree |-> tree])
  BY <1>1, <1>2, SessionChanges DEF SessionOf, GradeTypes, ApplyTestPatch
<1>4. /\ n.at = next /\ n.wr = "none" /\ n.tree = tree
      /\ n.file = q.file /\ n.head = q.head /\ n.gold = q.gold /\ n.clean = q.clean
      /\ n.intact = q.intact /\ n.worked = q.worked /\ n.report = q.report /\ n.lossy = q.lossy
      /\ n.verdict = q.verdict
  BY <1>3 DEF Changes, GradeFields
<1>5. row \in FullRows
  BY <1>3 DEF SessionIsTyped, InProvision, Opened, Writing
<1>6. SessionIsTyped(row, n)
  BY <1>2, <1>3, <1>4, <1>5 DEF SessionIsTyped, Changes, InProvision, Opened, Writing
<1>7. ASSUME UnsolvedIsSound(row, q) PROVE UnsolvedIsSound(row, n)
  BY <1>2, <1>3, <1>4, <1>5, <1>7 DEF UnsolvedIsSound, Unsolved, Opened, BugIsThere, Smith, Pro
<1>8. ASSUME CleanIsSound(row, q), q.wr = "written" => q.file.of = s PROVE CleanIsSound(row, n)
  BY <1>2, <1>3, <1>4, <1>5, <1>8 DEF CleanIsSound, IsOriginal, IsSolved, Original, Smith, Pro
<1> QED BY <1>1, <1>6, <1>7, <1>8 DEF Keeps, SessionOf

LEMMA DatasetPatchKeeps ==
    ASSUME GradingConstants, GradeTypes, NEW s \in Graded, ApplyDatasetPatch(s)
    PROVE  Keeps(s, cat[s], ss[s], ss'[s])
<1>1. PICK row, q, n : SessionOf(s, row, q, n)
  BY DEF SessionOf
<1>2. PICK tree, at, mode :
         /\ at = IF q.at = "gold" THEN "diff" ELSE "commit"
         /\ mode = IF q.at = "gold" THEN runtime_contract(row).gold ELSE runtime_contract(row).provision
         /\ tree \in apply_patch_with_reverse("dataset", mode = "reverse", q.tree, q.file.of = s)
         /\ Session(s, [at |-> at, wr |-> "none", tree |-> tree, worked |-> q.worked \/ q.at = "gold"])
  BY <1>1 DEF SessionOf, ApplyDatasetPatch
<1>3. SessionIsTyped(row, q) /\ q.at \in {"initial", "gold"} /\ q.wr = "written" /\ Changes(q, n, [at |-> at, wr |-> "none", tree |-> tree, worked |-> (q.worked \/ q.at = "gold")])
  BY <1>1, <1>2, SessionChanges DEF SessionOf, GradeTypes, ApplyDatasetPatch
<1>4. /\ n.at = at /\ n.wr = "none" /\ n.tree = tree /\ n.worked = (q.worked \/ q.at = "gold")
      /\ n.file = q.file /\ n.head = q.head /\ n.gold = q.gold /\ n.clean = q.clean
      /\ n.intact = q.intact /\ n.report = q.report /\ n.lossy = q.lossy
      /\ n.verdict = q.verdict
  BY <1>3 DEF Changes, GradeFields
<1>5. row \in FullRows
  BY <1>3 DEF SessionIsTyped, InProvision, Opened, Writing
<1>a. ASSUME OwnRow(row), q.at = "initial", Smith(row), "fix" \notin q.tree
      PROVE  tree = IF q.file.of = s THEN q.tree \cup {"dataset"} ELSE q.tree
  <2>1. mode # "reverse"
    BY <1>2, <1>5, <1>a, OwnContract
  <2> QED BY <1>2, <1>a, <2>1 DEF apply_patch_with_reverse, Clashes
<1>6. SessionIsTyped(row, n)
  BY <1>2, <1>3, <1>4, <1>5 DEF SessionIsTyped, Changes, InProvision, Opened, Writing
<1>7. ASSUME UnsolvedIsSound(row, q) PROVE UnsolvedIsSound(row, n)
  <2> SUFFICES ASSUME Unsolved(row, n) PROVE UnsolvedIsSound(row, n)
    BY DEF UnsolvedIsSound
  <2>1. Unsolved(row, q) /\ q.at = "initial" /\ n.at = "commit"
    BY <1>2, <1>3, <1>4 DEF Unsolved
  <2>2. q.tree = {} /\ q.head = {} /\ Smith(row)
    BY <1>7, <2>1 DEF UnsolvedIsSound
  <2>3. tree \in {{}, {"dataset"}}
    BY <1>a, <2>1, <2>2 DEF Unsolved
  <2> QED BY <1>4, <2>1, <2>2, <2>3 DEF UnsolvedIsSound, Opened, BugIsThere, Smith, Pro
<1>8. ASSUME CleanIsSound(row, q), q.wr = "written" => q.file.of = s PROVE CleanIsSound(row, n)
  BY <1>2, <1>3, <1>4, <1>5, <1>8, OwnContract DEF CleanIsSound, IsOriginal, IsSolved, Original, Smith, Pro, apply_patch_with_reverse, Clashes
<1> QED BY <1>1, <1>6, <1>7, <1>8 DEF Keeps, SessionOf

LEMMA TestsKeep ==
    ASSUME GradingConstants, GradeTypes, NEW s \in Graded, RunTests(s)
    PROVE  Keeps(s, cat[s], ss[s], ss'[s])
<1>1. PICK row, q, n : SessionOf(s, row, q, n)
  BY DEF SessionOf
<1>2. PICK printed, seen, lossy :
         /\ printed \in Reports(row, q.tree) /\ seen \in CutReports(printed)
         /\ lossy = (seen # printed)
         /\ Session(s, [at |-> "grade", report |-> seen, lossy |-> lossy])
  BY <1>1 DEF SessionOf, RunTests
<1>3. SessionIsTyped(row, q) /\ q.at = "run" /\ Changes(q, n, [at |-> "grade", report |-> seen, lossy |-> lossy])
  BY <1>1, <1>2, SessionChanges DEF SessionOf, GradeTypes, RunTests
<1>4. /\ n.at = "grade" /\ n.report = seen /\ n.lossy = lossy
      /\ n.wr = q.wr /\ n.file = q.file /\ n.tree = q.tree /\ n.head = q.head /\ n.gold = q.gold
      /\ n.clean = q.clean /\ n.intact = q.intact /\ n.worked = q.worked /\ n.verdict = q.verdict
  BY <1>3 DEF Changes, GradeFields
<1>5. row \in FullRows
  BY <1>3 DEF SessionIsTyped, InProvision, Opened, Writing
<1>6. SessionIsTyped(row, n)
  BY <1>3, <1>4, <1>5 DEF SessionIsTyped, Changes, Opened, Writing
<1>7. /\ seen.f2p \in {printed.f2p, "absent"}
      /\ printed.summary => Pro(row) /\ printed.f2p # "fail"
  BY <1>2 DEF CutReports, Reports, Pro
<1>8. ASSUME BugIsThere(row, q.tree), "tangle" \notin q.tree
      PROVE  printed.f2p = IF Smith(row) \/ "tests" \in q.tree THEN "fail" ELSE "absent"
  BY <1>2, <1>8 DEF Reports, TestsInPlace, Buggy, BugIsThere, Smith
<1>9. ASSUME UnsolvedIsSound(row, q) PROVE UnsolvedIsSound(row, n)
  <2> SUFFICES ASSUME Unsolved(row, n) PROVE UnsolvedIsSound(row, n)
    BY DEF UnsolvedIsSound
  <2>1. BugIsThere(row, q.tree)
    BY <1>3, <1>4, <1>9 DEF UnsolvedIsSound, Unsolved, Opened
  <2>2. ASSUME "tangle" \notin q.tree
        PROVE  /\ seen.f2p # "pass"
               /\ Pro(row) /\ ~ lossy => seen.f2p = "fail" /\ ~ seen.summary
    BY <1>2, <1>7, <1>8, <2>1, <2>2 DEF BugIsThere
  <2> QED BY <1>4, <2>1, <2>2 DEF UnsolvedIsSound
<1>10. ASSUME CleanIsSound(row, q) PROVE CleanIsSound(row, n)
  <2>1. ASSUME OwnRow(row), q.clean, q.gold, ~ lossy PROVE seen.f2p = "pass" /\ seen.p2p = "pass"
    <3>1. IsSolved(row, q.tree) /\ (Smith(row) \/ "tests" \in q.tree)
      BY <1>3, <1>10, <2>1 DEF CleanIsSound
    <3>2. "tangle" \notin q.tree /\ "break" \notin q.tree /\ ~ Buggy(row, q.tree) /\ TestsInPlace(row, q.tree)
      BY <3>1 DEF IsSolved, Buggy, TestsInPlace, Smith
    <3> QED BY <1>2, <2>1, <3>2 DEF Reports
  <2> QED BY <1>3, <1>4, <1>10, <2>1 DEF CleanIsSound
<1> QED BY <1>1, <1>6, <1>9, <1>10 DEF Keeps, SessionOf

\* What the graders make of a report.
LEMMA FailIsNoPass ==
    ASSUME NEW row \in FullRows, NEW report, report.f2p # "pass",
           Pro(row) => report.f2p = "fail" /\ ~ report.summary
    PROVE  TRUE \notin grader_for_spec(row, report)
<1>1. CASE Pro(row)
  <2>1. \A a \in pro_test_passed(report, "f2p") : a = FALSE
    BY <1>1 DEF pro_test_passed
  <2>2. TRUE \notin SwebenchProGrader(report)
    <3> SUFFICES ASSUME TRUE \in SwebenchProGrader(report) PROVE FALSE
      OBVIOUS
    <3>1. PICK a \in pro_test_passed(report, "f2p"), b \in pro_test_passed(report, "p2p") : TRUE = (a /\ b)
      BY <1>1 DEF SwebenchProGrader
    <3> QED BY <2>1, <3>1
  <2> QED BY <1>1, <2>2 DEF grader_for_spec, Pro
<1>2. CASE ~ Pro(row)
  BY <1>2 DEF grader_for_spec, decide_reward, Pro
<1> QED BY <1>1, <1>2

LEMMA PassIsPass ==
    ASSUME NEW row \in FullRows, NEW report, report.f2p = "pass", report.p2p = "pass",
           NEW resolved \in grader_for_spec(row, report)
    PROVE  resolved
<1>1. CASE Pro(row)
  <2>1. \A id \in {"f2p", "p2p"} : \A a \in pro_test_passed(report, id) : a = TRUE
    BY DEF pro_test_passed
  <2>2. resolved \in SwebenchProGrader(report)
    BY <1>1 DEF grader_for_spec, Pro
  <2>3. resolved = TRUE
    BY <2>1, <2>2 DEF SwebenchProGrader
  <2> QED BY <2>3
<1>2. CASE ~ Pro(row)
  BY <1>2 DEF grader_for_spec, decide_reward, Pro
<1> QED BY <1>1, <1>2

LEMMA VerdictIsBoolean ==
    ASSUME NEW row, NEW report, NEW resolved \in grader_for_spec(row, report)
    PROVE  resolved \in BOOLEAN
<1>1. CASE resolved \in SwebenchProGrader(report)
  BY <1>1 DEF SwebenchProGrader
<1>2. CASE resolved \in decide_reward(report)
  BY <1>2 DEF decide_reward
<1> QED BY <1>1, <1>2 DEF grader_for_spec

LEMMA GradeKeeps ==
    ASSUME GradingConstants, GradeTypes, NEW s \in Graded, Grade(s)
    PROVE  Keeps(s, cat[s], ss[s], ss'[s])
<1>1. PICK row, q, n : SessionOf(s, row, q, n)
  BY DEF SessionOf
<1>2. PICK verdict :
         /\ verdict = "resolved" => TRUE \in grader_for_spec(row, q.report)
         /\ verdict = "unresolved" => \E resolved \in grader_for_spec(row, q.report) : ~ resolved
         /\ Session(s, [at |-> "ended", verdict |-> verdict])
  <2>1. PICK answer \in External(row), resolved \in grader_for_spec(row, q.report) :
           Session(s, [at |-> "ended",
                       verdict |-> CASE answer = "error" -> "none"
                                     [] answer = "external" -> "external"
                                     [] OTHER -> IF resolved THEN "resolved" ELSE "unresolved"])
    BY <1>1 DEF SessionOf, Grade
  <2>2. PICK verdict : verdict = CASE answer = "error" -> "none"
                                   [] answer = "external" -> "external"
                                   [] OTHER -> IF resolved THEN "resolved" ELSE "unresolved"
    OBVIOUS
  <2>3. verdict = "unresolved" => ~ resolved
    BY <2>2
  <2>4. verdict = "resolved" => TRUE \in grader_for_spec(row, q.report)
    <3>1. verdict = "resolved" => resolved
      BY <2>2
    <3>2. resolved \in BOOLEAN
      BY <2>1, VerdictIsBoolean
    <3> QED BY <2>1, <3>1, <3>2
  <2> QED BY <2>1, <2>2, <2>3, <2>4
<1>3. SessionIsTyped(row, q) /\ q.at = "grade" /\ Changes(q, n, [at |-> "ended", verdict |-> verdict])
  BY <1>1, <1>2, SessionChanges DEF SessionOf, GradeTypes, Grade
<1>4. /\ n.at = "ended" /\ n.verdict = verdict
      /\ n.wr = q.wr /\ n.file = q.file /\ n.tree = q.tree /\ n.head = q.head /\ n.gold = q.gold /\ n.lossy = q.lossy
      /\ n.clean = q.clean /\ n.intact = q.intact /\ n.worked = q.worked /\ n.report = q.report
  BY <1>3 DEF Changes, GradeFields
<1>5. row \in FullRows
  BY <1>3 DEF SessionIsTyped, InProvision, Opened, Writing
<1>6. SessionIsTyped(row, n)
  BY <1>3, <1>4, <1>5 DEF SessionIsTyped, Changes, Opened, Writing
<1>7. ASSUME UnsolvedIsSound(row, q) PROVE UnsolvedIsSound(row, n)
  <2> SUFFICES ASSUME Unsolved(row, n) PROVE UnsolvedIsSound(row, n)
    BY DEF UnsolvedIsSound
  <2>1. BugIsThere(row, q.tree)
    BY <1>3, <1>4, <1>7 DEF UnsolvedIsSound, Unsolved, Opened
  <2>2. ASSUME "tangle" \notin q.tree, q.lossy => ~ Pro(row) PROVE verdict # "resolved"
    <3>1. q.report.f2p # "pass" /\ (Pro(row) => q.report.f2p = "fail" /\ ~ q.report.summary)
      BY <1>3, <1>4, <1>7, <2>2 DEF UnsolvedIsSound, Unsolved
    <3> QED BY <1>2, <1>5, <3>1, FailIsNoPass
  <2> QED BY <1>4, <2>1, <2>2 DEF UnsolvedIsSound
<1>8. ASSUME CleanIsSound(row, q) PROVE CleanIsSound(row, n)
  <2>1. ASSUME OwnRow(row), q.clean, q.gold, ~ q.lossy PROVE verdict # "unresolved"
    <3>1. q.report.f2p = "pass" /\ q.report.p2p = "pass"
      BY <1>3, <1>8, <2>1 DEF CleanIsSound
    <3> QED BY <1>2, <1>5, <3>1, PassIsPass
  <2> QED BY <1>3, <1>4, <1>8, <2>1 DEF CleanIsSound
<1> QED BY <1>1, <1>6, <1>7, <1>8 DEF Keeps, SessionOf

LEMMA CreateKeeps ==
    ASSUME GradingConstants, GradeTypes, NEW s \in Graded, CreateSession(s)
    PROVE  Keeps(s, cat[s], ss[s], ss'[s])
<1>1. PICK row, q, n : SessionOf(s, row, q, n)
  BY DEF SessionOf
<1>2. PICK at : at \in {"reset", "gone"} /\ (at = "reset" => row # NoRow) /\ GoTo(s, at)
  BY <1>1 DEF SessionOf, CreateSession
<1>3. SessionIsTyped(row, q) /\ q.at = "idle" /\ Changes(q, n, [at |-> at])
  BY <1>1, <1>2, SessionChanges DEF SessionOf, GradeTypes, CreateSession, GoTo
<1>4. /\ n.at = at
      /\ n.wr = q.wr /\ n.file = q.file /\ n.tree = q.tree /\ n.head = q.head /\ n.gold = q.gold /\ n.lossy = q.lossy
      /\ n.clean = q.clean /\ n.intact = q.intact /\ n.worked = q.worked /\ n.report = q.report /\ n.verdict = q.verdict
  BY <1>3 DEF Changes, GradeFields
<1>5. row \in FullRows \cup {NoRow}
  BY <1>1 DEF SessionOf, GradeTypes
<1>6. SessionIsTyped(row, n)
  BY <1>2, <1>3, <1>4, <1>5 DEF SessionIsTyped, Changes, InProvision, Writing
<1>7. UnsolvedIsSound(row, n)
  BY <1>2, <1>4 DEF UnsolvedIsSound, Opened
<1>8. ASSUME CleanIsSound(row, q) PROVE CleanIsSound(row, n)
  BY <1>2, <1>3, <1>4, <1>8 DEF CleanIsSound
<1> QED BY <1>1, <1>6, <1>7, <1>8 DEF Keeps, SessionOf

\* Before the worker has started no session has begun.
LEMMA CatalogStep ==
    ASSUME GradeTypes, start # "ready", UNCHANGED <<ss, tmp>>,
           cat' = [s \in Graded |-> cat'[s]], \A s \in Graded : cat'[s] \in FullRows \cup {NoRow}
    PROVE  GradeTypes' /\ GradeInv' /\ CleanInv'
<1>1. \A s \in Graded : ss[s] = SessionStart
  BY DEF GradeTypes
<1>2. \A row : /\ SessionIsTyped(row, SessionStart)
               /\ UnsolvedIsSound(row, SessionStart) /\ CleanIsSound(row, SessionStart)
  BY DEF SessionIsTyped, UnsolvedIsSound, CleanIsSound, SessionStart, GradeFields, InProvision, Opened
<1>3. GradeTypes'
  BY <1>1, <1>2 DEF GradeTypes
<1> QED BY <1>1, <1>2, <1>3 DEF GradeInv, CleanInv

LEMMA MergedRows ==
    ASSUME GradeTypes, NEW new, \A s \in Graded : new[s] \in FullRows \cup {NoRow}
    PROVE  \A s \in Graded : merge_from(cat, new)[s] \in FullRows \cup {NoRow}
BY DEF GradeTypes, merge_from

LEMMA RowsAreFull ==
    ASSUME NEW rows \in SomeRows, NEW s \in Graded
    PROVE  /\ rows[s] \in FullRows \cup {NoRow}
           /\ \A overlay \in {NoContract, RewardOverlay} :
                 apply_default_runtime_contract(rows[s], overlay) \in FullRows \cup {NoRow}
<1>1. rows[s] \in Rows \cup {NoRow}
  BY DEF SomeRows
<1>2. rows[s] \in FullRows \cup {NoRow}
  BY <1>1 DEF Rows, FullRows
<1>3. ASSUME NEW overlay \in {NoContract, RewardOverlay}
      PROVE  apply_default_runtime_contract(rows[s], overlay) \in FullRows \cup {NoRow}
  <2>1. CASE rows[s] = NoRow \/ rows[s].contract # NoContract \/ overlay = NoContract
    BY <1>2, <2>1 DEF apply_default_runtime_contract
  <2>2. CASE ~ (rows[s] = NoRow \/ rows[s].contract # NoContract \/ overlay = NoContract)
    <3>1. PICK row : row = rows[s]
      OBVIOUS
    <3>2. row \in FullRows
      BY <1>2, <2>2, <3>1
    <3>3. [row EXCEPT !.contract = RewardOverlay] \in FullRows
      BY <3>2 DEF FullRows
    <3>4. apply_default_runtime_contract(rows[s], overlay) = [row EXCEPT !.contract = RewardOverlay]
      BY <2>2, <3>1 DEF apply_default_runtime_contract, merge_overlay
    <3> QED BY <3>3, <3>4
  <2> QED BY <2>1, <2>2
<1> QED BY <1>2, <1>3

LEMMA GradeStep ==
    ASSUME GradingConstants, GradeTypes, [GNext]_gvars
    PROVE  /\ GradeTypes'
           /\ GradeInv => GradeInv'
           /\ CleanInv /\ WritesArrive => CleanInv'
<1> DEFINE Kept == GradeTypes' /\ (GradeInv => GradeInv') /\ (CleanInv /\ WritesArrive => CleanInv')
<1> SUFFICES Kept
  OBVIOUS
<1>1. CASE UNCHANGED gvars
  BY <1>1 DEF gvars, GradeTypes, GradeInv, CleanInv
<1>2. CASE LoadPackage
  <2>1. start # "ready" /\ UNCHANGED <<ss, tmp>>
    BY <1>2 DEF LoadPackage
  <2>2. cat' = [s \in Graded |-> cat'[s]] /\ \A s \in Graded : cat'[s] \in FullRows \cup {NoRow}
    <3>1. CASE UNCHANGED cat
      BY <3>1 DEF GradeTypes
    <3>2. ASSUME NEW rows \in SomeRows, NEW overlay \in {NoContract, RewardOverlay},
                 cat' = merge_from(cat, [s \in Graded |-> apply_default_runtime_contract(rows[s], overlay)])
          PROVE  cat' = [s \in Graded |-> cat'[s]] /\ \A s \in Graded : cat'[s] \in FullRows \cup {NoRow}
      <4>1. PICK new : new = [s \in Graded |-> apply_default_runtime_contract(rows[s], overlay)]
        OBVIOUS
      <4>2. \A s \in Graded : new[s] \in FullRows \cup {NoRow}
        BY <4>1, RowsAreFull
      <4>3. cat' = merge_from(cat, new)
        BY <3>2, <4>1
      <4>4. \A s \in Graded : cat'[s] \in FullRows \cup {NoRow}
        BY <4>2, <4>3, MergedRows
      <4> QED BY <4>3, <4>4 DEF merge_from
    <3> QED BY <1>2, <3>1, <3>2 DEF LoadPackage
  <2> QED BY <2>1, <2>2, CatalogStep
<1>3. CASE PackagesRead
  <2>1. start # "ready" /\ UNCHANGED <<ss, tmp, cat>>
    BY <1>3 DEF PackagesRead
  <2> QED BY <2>1, CatalogStep DEF GradeTypes
<1>4. CASE load_swe_catalog \/ merge_extra_catalog
  <2>1. start # "ready" /\ UNCHANGED <<ss, tmp>>
    BY <1>4 DEF load_swe_catalog, merge_extra_catalog
  <2>2. PICK new : new \in {cat} \cup SomeRows /\ cat' = merge_from(cat, new)
    BY <1>4 DEF load_swe_catalog, merge_extra_catalog
  <2>3. \A s \in Graded : new[s] \in FullRows \cup {NoRow}
    BY <2>2, RowsAreFull DEF GradeTypes
  <2>4. \A s \in Graded : cat'[s] \in FullRows \cup {NoRow}
    BY <2>2, <2>3, MergedRows
  <2>5. cat' = [s \in Graded |-> cat'[s]]
    BY <2>2 DEF merge_from
  <2> QED BY <2>1, <2>4, <2>5, CatalogStep
<1>5. ASSUME NEW s \in Graded, prewarm_images(s) PROVE Kept
  BY <1>5 DEF prewarm_images, catalogVars, GradeTypes, GradeInv, CleanInv
<1>6. ASSUME NEW s \in Graded, CreateSession(s) PROVE Kept
  <2>1. start = "ready" /\ UNCHANGED <<start, cat, tmp>> /\ \E fields : Session(s, fields)
    BY <1>6 DEF CreateSession, catalogVars, GoTo
  <2> QED BY <1>6, <2>1, SessionMoves, CreateKeeps DEF GradeTypes
<1>7. ASSUME NEW s \in Graded, Keeps(s, cat[s], ss[s], ss'[s]), \E fields : Session(s, fields),
             ss[s].at # "idle", SessionStep, tmp' \in {tmp, [of |-> s], [of |-> "gone"]}
      PROVE  Kept
  <2>1. tmp'.of \in Graded \cup {"gone"}
    BY <1>7 DEF GradeTypes
  <2> QED BY <1>7, <2>1, SessionMoves DEF SessionStep, catalogVars
<1>8. ASSUME NEW s \in Graded, ResetTree(s) \/ run_pro_setup_at_provision(s) \/ commit_baseline(s) PROVE Kept
  <2>1. ss[s].at # "idle" /\ SessionStep /\ UNCHANGED tmp /\ \E fields : Session(s, fields)
    BY <1>8 DEF ResetTree, run_pro_setup_at_provision, commit_baseline, GoTo
  <2> QED BY <1>7, <1>8, <2>1, ResetKeeps, SetupKeeps, BaselineKeeps
<1>9. ASSUME NEW s \in Graded, StepFails(s) \/ RemoveFile(s) PROVE Kept
  <2>1. ss[s].at # "idle" /\ SessionStep /\ tmp' \in {tmp, [of |-> "gone"]} /\ \E fields : Session(s, fields)
    BY <1>9 DEF StepFails, RemoveFile, GradeTypes, SessionIsTyped, Writing
  <2> QED BY <1>7, <1>9, <2>1, RemoveKeeps
<1>10. ASSUME NEW s \in Graded, StageFile(s) \/ CopyFile(s) \/ FileWritten(s) PROVE Kept
  <2>1. ss[s].at # "idle" /\ SessionStep /\ tmp' \in {tmp, [of |-> s]} /\ \E fields : Session(s, fields)
    BY <1>10 DEF StageFile, CopyFile, FileWritten, GradeTypes, SessionIsTyped, Writing
  <2> QED BY <1>7, <1>10, <2>1, StageKeeps, CopyKeeps, WrittenKeeps
<1>11. ASSUME NEW s \in Graded, ApplyDatasetPatch(s) \/ ApplyTestPatch(s) PROVE Kept
  <2>1. ss[s].at # "idle" /\ SessionStep /\ UNCHANGED tmp /\ \E fields : Session(s, fields)
    BY <1>11 DEF ApplyDatasetPatch, ApplyTestPatch
  <2> QED BY <1>7, <1>11, <2>1, DatasetPatchKeeps, TestPatchKeeps
<1>12. ASSUME NEW s \in Graded, AgentEdits(s) \/ AgentCommits(s) \/ write_file(s) \/ BeginGold(s) PROVE Kept
  <2>1. ss[s].at # "idle" /\ SessionStep /\ UNCHANGED tmp /\ \E fields : Session(s, fields)
    BY <1>12 DEF AgentEdits, AgentCommits, write_file, BeginGold
  <2> QED BY <1>7, <1>12, <2>1, EditsKeep, CommitsKeep, WriteKeeps, GoldKeeps
<1>13. ASSUME NEW s \in Graded, recycle(s) \/ pool_submit(s) \/ terminate(s) PROVE Kept
  <2>1. ss[s].at # "idle" /\ SessionStep /\ UNCHANGED tmp /\ \E fields : Session(s, fields)
    BY <1>13 DEF recycle, pool_submit, terminate, GoTo
  <2> QED BY <1>7, <1>13, <2>1, RecycleKeeps, SubmitKeeps, TerminateKeeps
<1>14. ASSUME NEW s \in Graded, evaluate_diff(s) \/ RunTests(s) \/ Grade(s) PROVE Kept
  <2>1. ss[s].at # "idle" /\ SessionStep /\ UNCHANGED tmp /\ \E fields : Session(s, fields)
    BY <1>14 DEF evaluate_diff, RunTests, Grade, GoTo
  <2> QED BY <1>7, <1>14, <2>1, DiffKeeps, TestsKeep, GradeKeeps
<1> QED BY <1>1, <1>2, <1>3, <1>4, <1>5, <1>6, <1>8, <1>9, <1>10, <1>11, <1>12, <1>13, <1>14 DEF GNext

LEMMA GradeStarts == ASSUME GInit PROVE GradeTypes /\ GradeInv /\ CleanInv
<1>1. \A row : /\ SessionIsTyped(row, SessionStart)
               /\ UnsolvedIsSound(row, SessionStart) /\ CleanIsSound(row, SessionStart)
  BY DEF SessionIsTyped, UnsolvedIsSound, CleanIsSound, SessionStart, GradeFields, InProvision, Opened
<1>2. GradeTypes
  BY <1>1 DEF GInit, GradeTypes
<1> QED BY <1>1, <1>2 DEF GInit, GradeInv, CleanInv

\* A session whose agent solved nothing is not graded as resolved (reset_to_base,
\* evaluate): not for what an earlier user of the recycled session did, had
\* committed or had submitted, whatever files the sessions take from each other.
THEOREM RewardIsEarned == ASSUME GradingConstants PROVE GSpec => []NoFreeReward
<1>1. GInit => GradeTypes /\ GradeInv
  BY GradeStarts
<1>2. GradeTypes /\ GradeInv /\ [GNext]_gvars => (GradeTypes /\ GradeInv)'
  BY GradeStep
<1>3. GradeTypes /\ GradeInv => NoFreeReward
  <2> SUFFICES ASSUME GradeInv, NEW s \in Graded, ss[s].verdict = "resolved", Own(s), cat[s].base, ss[s].intact,
                      "tangle" \notin ss[s].tree, ss[s].lossy => cat[s].variant # "pro", ~ ss[s].worked
               PROVE  FALSE
    BY DEF NoFreeReward
  <2>1. PICK row, q : row = cat[s] /\ q = ss[s]
    OBVIOUS
  <2>2. UnsolvedIsSound(row, q) /\ SessionIsTyped(row, q) /\ Unsolved(row, q)
    BY <2>1 DEF GradeInv, GradeTypes, Own, OwnRow, Unsolved
  <2>3. q.at = "ended" /\ "tangle" \notin q.tree /\ (q.lossy => ~ Pro(row)) /\ q.verdict = "resolved"
    BY <2>1, <2>2 DEF SessionIsTyped, Pro
  <2> QED BY <2>2, <2>3 DEF UnsolvedIsSound
<1> QED BY <1>1, <1>2, <1>3, PTL DEF GSpec

\* The gold patch is graded as resolved (SweSession::provision,
\* apply_gold_contract, evaluate), for every variant, contract and history of a
\* session no agent has changed, where the files that a session writes are the
\* ones it finds.
THEOREM GoldStaysResolved == ASSUME GradingConstants PROVE GSpec /\ []WritesArrive => []GoldResolves
<1>1. GInit => GradeTypes /\ CleanInv
  BY GradeStarts
<1>2. GradeTypes /\ CleanInv /\ WritesArrive /\ [GNext]_gvars => (GradeTypes /\ CleanInv)'
  BY GradeStep
<1>3. GradeTypes /\ CleanInv => GoldResolves
  <2> SUFFICES ASSUME GradeTypes, CleanInv, NEW s \in Graded, ss[s].verdict = "unresolved", Own(s), ss[s].gold,
                      ss[s].clean, ~ ss[s].lossy
               PROVE  FALSE
    BY DEF GoldResolves
  <2>1. PICK row, q : row = cat[s] /\ q = ss[s]
    OBVIOUS
  <2>2. CleanIsSound(row, q) /\ SessionIsTyped(row, q) /\ OwnRow(row) /\ q.clean
    BY <2>1 DEF CleanInv, GradeTypes, Own, OwnRow
  <2>3. q.at = "ended" /\ q.gold /\ ~ q.lossy /\ q.verdict = "unresolved"
    BY <2>1, <2>2 DEF SessionIsTyped
  <2> QED BY <2>2, <2>3 DEF CleanIsSound
<1> QED BY <1>1, <1>2, <1>3, PTL DEF GSpec

\* They are where a worker has one session at a time
\* (CliContainerBackend::write): then the gold patch needs no more.
LEMMA AloneItArrives ==
    ASSUME GradingConstants, \A s, t \in Graded : s = t
    PROVE  GSpec => []WritesArrive
<1>1. GInit => GradeTypes
  BY GradeStarts
<1>2. GradeTypes /\ [GNext]_gvars => GradeTypes'
  BY GradeStep
<1>3. GradeTypes => WritesArrive
  <2> SUFFICES ASSUME GradeTypes, NEW s \in Graded PROVE ss[s].file.of \in {"none", "missing", s}
    BY DEF WritesArrive
  <2>1. ss[s].file.of \in Graded \cup {"none", "missing"}
    BY DEF GradeTypes, SessionIsTyped
  <2> QED BY <2>1
<1> QED BY <1>1, <1>2, <1>3, PTL DEF GSpec

THEOREM AloneGoldResolves ==
    ASSUME GradingConstants, \A s, t \in Graded : s = t
    PROVE  GSpec => []GoldResolves
BY AloneItArrives, GoldStaysResolved, PTL

=============================================================================
