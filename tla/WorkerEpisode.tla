---------------------------- MODULE WorkerEpisode ----------------------------
(* Execution of native episodes on a worker (uenv-worker: episode/executor, *)
(* pool/warmup_pool, plugin/host, backend/process): concurrent executions    *)
(* share a pool of warm plugin processes of one environment type, run the    *)
(* reset / model / step loop and seal the trajectory they collected.  The    *)
(* future of an execution may be dropped at an await (cancellation, episode  *)
(* timeout).  todo[t] is what execution t still has to do: a sequence of     *)
(* pairs <<operation, instance>>, the innermost call first.                  *)
EXTENDS Queues

CONSTANTS
    Tasks,          \* executions, one episode each
    Instances,      \* ids of plugin instances
    none,           \* no instance
    WarmupSize,     \* cfg.warmup_size
    MaxEpisodes,    \* cfg.max_episode_count
    MaxSteps        \* episode.max_steps

WorkerConstants == none \notin Instances

VARIABLES
    todo,           \* what each execution still has to do
    lease,          \* instance each execution holds
    queue,          \* warm_queues[env_type]
    tracked,        \* instance -> [status, count]
    active,         \* state.active
    host,           \* PluginHost.instances
    alive,          \* plugin processes that run
    used,           \* ids given out (PLUGIN_INSTANCE_SEQ)
    stepped,        \* steps executed by each execution
    inflight,       \* executions with an entry in executor.inflight
    seals,          \* times the trajectory of each execution was sealed
    ended           \* how each execution ended

wvars == <<todo, lease, queue, tracked, active, host, alive, used, stepped, inflight, seals, ended>>
pool == <<queue, tracked, active>>
procs == <<host, alive, used>>
record == <<stepped, inflight, seals, ended>>

Plain(op) == <<op, none>>
Op(t) == todo[t][1][1]
Arg(t) == todo[t][1][2]
At(t, op) == todo[t] # <<>> /\ Op(t) = op
Rest(t) == Tail(todo[t])
Continue(t, seq) == todo' = [todo EXCEPT ![t] = seq]
Without(f, i) == [j \in DOMAIN f \ {i} |-> f[j]]
Put(f, i, v) == [j \in DOMAIN f \cup {i} |-> IF j = i THEN v ELSE f[j]]
InQueue == {queue[k] : k \in 1..Len(queue)}

WInit ==
    /\ todo = [t \in Tasks |-> <<>>]
    /\ lease = [t \in Tasks |-> none]
    /\ \E warm \in {{}} \cup {{i} : i \in Instances} :
         /\ queue = [k \in 1..Cardinality(warm) |-> CHOOSE i \in warm : TRUE]
         /\ tracked = [i \in warm |-> [status |-> "warm", count |-> 0]]
         /\ host = warm /\ alive = warm /\ used = warm
    /\ active = {}
    /\ stepped = [t \in Tasks |-> 0]
    /\ inflight = {}
    /\ seals = [t \in Tasks |-> 0]
    /\ ended = [t \in Tasks |-> "no"]

(* An error returned with "?": to the caller that ignores it ("let _ ="), or *)
(* out of the execution, which seals what it registered.                     *)
Swallowed(t) == {k \in 1..Len(todo[t]) : todo[t][k][1] = "swallow"}
Abort(t) ==
    Continue(t, IF Swallowed(t) # {}
                THEN SubSeq(todo[t], 1 + CHOOSE k \in Swallowed(t) : TRUE, Len(todo[t]))
                ELSE IF t \in inflight THEN <<Plain("seal"), Plain("error")>> ELSE <<Plain("error")>>)

(* An unsupported parallel mode fails the episode before it has touched anything. *)
execute_episode(t) ==
    /\ ended[t] = "no" /\ todo[t] = <<>>
    /\ \/ Continue(t, <<Plain("acquire"), Plain("config")>>) /\ UNCHANGED ended
       \/ ended' = [ended EXCEPT ![t] = "refused"] /\ UNCHANGED todo
    /\ UNCHANGED <<lease, pool, procs, stepped, inflight, seals>>

(* WarmupPool::acquire: the popped candidate is in no set until it is found healthy. *)
AcquireWarm(t) ==
    /\ At(t, "acquire")
    /\ IF queue # <<>>
       THEN /\ queue' = Tail(queue)
            /\ Continue(t, <<<<"check", Head(queue)>>>> \o Rest(t))
       ELSE /\ Continue(t, <<Plain("spawn"), Plain("join")>> \o Rest(t))
            /\ UNCHANGED queue
    /\ UNCHANGED <<lease, tracked, active, procs, record>>

CheckCandidate(t) ==
    /\ At(t, "check")
    /\ LET i == Arg(t) IN
       \/ /\ i \in host \cap alive
          /\ IF i \in active
             THEN Abort(t) /\ UNCHANGED <<lease, active, tracked>>
             ELSE /\ active' = active \cup {i}
                  /\ tracked' = IF i \in DOMAIN tracked THEN [tracked EXCEPT ![i].status = "active"] ELSE tracked
                  /\ lease' = [lease EXCEPT ![t] = i]
                  /\ Continue(t, <<Plain("fill")>> \o Rest(t))
       \/ /\ Continue(t, <<<<"destroy", i>>, Plain("fill"), Plain("acquire")>> \o Rest(t))
          /\ UNCHANGED <<lease, active, tracked>>
    /\ UNCHANGED <<queue, procs, record>>

AcquireNew(t) ==
    /\ At(t, "join")
    /\ LET i == Arg(t) IN
         IF i \in active
         THEN Abort(t) /\ UNCHANGED <<active, lease>> /\ tracked' = Put(tracked, i, [status |-> "active", count |-> 0])
         ELSE /\ tracked' = Put(tracked, i, [status |-> "active", count |-> 0])
              /\ active' = active \cup {i}
              /\ lease' = [lease EXCEPT ![t] = i]
              /\ Continue(t, <<Plain("fill")>> \o Rest(t))
    /\ UNCHANGED <<queue, procs, record>>

fill_pool(t) ==
    /\ At(t, "fill")
    /\ Continue(t, IF Len(queue) >= WarmupSize THEN Rest(t)
                   ELSE <<Plain("spawn"), Plain("stock")>> \o todo[t])
    /\ UNCHANGED <<lease, pool, procs, record>>

FillStock(t) ==
    /\ At(t, "stock")
    /\ tracked' = Put(tracked, Arg(t), [status |-> "warm", count |-> 0])
    /\ queue' = Append(queue, Arg(t))
    /\ Continue(t, Rest(t))
    /\ UNCHANGED <<lease, active, procs, record>>

(* PluginHost::spawn: the child runs before the host manages it; when the call *)
(* fails or is dropped in between, the child is killed with its handle.        *)
spawn(t) ==
    /\ At(t, "spawn")
    /\ \/ \E i \in Instances \ used :
            /\ used' = used \cup {i} /\ alive' = alive \cup {i}
            /\ Continue(t, <<<<"manage", i>>>> \o Rest(t))
       \/ Abort(t) /\ UNCHANGED <<used, alive>>
    /\ UNCHANGED <<lease, pool, host, record>>

SpawnManaged(t) ==
    /\ At(t, "manage")
    /\ \/ /\ Arg(t) \in alive
          /\ host' = host \cup {Arg(t)}
          /\ Continue(t, <<<<"ready", Arg(t)>>>> \o Rest(t))
          /\ UNCHANGED alive
       \/ /\ alive' = alive \ {Arg(t)}
          /\ Abort(t)
          /\ UNCHANGED host
    /\ UNCHANGED <<lease, pool, used, record>>

(* The instance goes to the step that asked for it, or stays with the host. *)
wait_plugin_ready(t) ==
    /\ At(t, "ready")
    /\ \/ /\ Arg(t) \in host \cap alive
          /\ Continue(t, <<<<Rest(t)[1][1], Arg(t)>>>> \o Tail(Rest(t)))
       \/ Abort(t)
    /\ UNCHANGED <<lease, pool, procs, record>>

destroy_instance(t) ==
    /\ At(t, "destroy")
    /\ LET i == Arg(t) IN
         IF i \in DOMAIN tracked
         THEN /\ tracked' = [tracked EXCEPT ![i].status = "evicting"]
              /\ Continue(t, <<<<"close", i>>, <<"forget", i>>>> \o Rest(t))
         ELSE Continue(t, Rest(t)) /\ UNCHANGED tracked
    /\ UNCHANGED <<lease, queue, active, procs, record>>

close(t) ==
    /\ At(t, "close")
    /\ host' = host \ {Arg(t)}
    /\ alive' = IF Arg(t) \in host THEN alive \ {Arg(t)} ELSE alive
    /\ Continue(t, Rest(t))
    /\ UNCHANGED <<lease, pool, used, record>>

ForgetDestroyed(t) ==
    /\ At(t, "forget")
    /\ queue' = Keep(queue, InQueue \ {Arg(t)})
    /\ active' = active \ {Arg(t)}
    /\ tracked' = Without(tracked, Arg(t))
    /\ Continue(t, Rest(t))
    /\ UNCHANGED <<lease, procs, record>>

ReleaseBeforeCheckMutant(t) ==
    /\ At(t, "release")
    /\ queue' = Append(queue, lease[t])
    /\ Continue(t, <<<<"recycle", lease[t]>>>> \o Rest(t))
    /\ UNCHANGED <<lease, active, tracked, procs, record>>

(* WarmupPool::release: an instance that served enough episodes goes, another *)
(* is reset, checked and put back; long idle ones are evicted on the way.     *)
release(t) ==
    /\ At(t, "release")
    /\ LET i == lease[t] IN
         IF i \notin active THEN Abort(t) /\ UNCHANGED <<active, tracked>>
         ELSE /\ active' = active \ {i}
              /\ IF i \notin DOMAIN tracked
                 THEN Continue(t, Rest(t)) /\ UNCHANGED tracked
                 ELSE LET n == tracked[i].count + 1 IN
                      /\ tracked' = [tracked EXCEPT ![i] = [status |-> "cooling", count |-> n]]
                      /\ Continue(t, (IF n >= MaxEpisodes THEN <<<<"destroy", i>>, Plain("fill")>>
                                      ELSE <<<<"recycle", i>>>>) \o Rest(t))
    /\ lease' = [lease EXCEPT ![t] = none]
    /\ UNCHANGED <<queue, procs, record>>

ReleaseRecycle(t) ==
    /\ At(t, "recycle")
    /\ LET i == Arg(t) IN
       \/ /\ i \in host \cap alive
          /\ tracked' = IF i \in DOMAIN tracked THEN [tracked EXCEPT ![i].status = "warm"] ELSE tracked
          /\ queue' = Append(queue, i)
          /\ Continue(t, <<Plain("evict"), Plain("fill")>> \o Rest(t))
       \/ /\ Continue(t, <<<<"destroy", i>>, Plain("fill")>> \o Rest(t))
          /\ UNCHANGED <<tracked, queue>>
    /\ UNCHANGED <<lease, active, procs, record>>

(* The idle ones are listed under the lock and destroyed after it. *)
evict_idle(t) ==
    /\ At(t, "evict")
    /\ \E idle \in SUBSET (InQueue \cap DOMAIN tracked) :
         LET listed == Keep(queue, idle) IN
         Continue(t, [k \in 1..Len(listed) |-> <<"destroy", listed[k]>>] \o Rest(t))
    /\ UNCHANGED <<lease, pool, procs, record>>

(* build_reset_config fails without giving the instance back. *)
ResetConfig(t) ==
    /\ At(t, "config")
    /\ \/ inflight' = inflight \cup {t} /\ Continue(t, <<Plain("reset")>>)
       \/ Abort(t) /\ UNCHANGED inflight
    /\ UNCHANGED <<lease, pool, procs, stepped, seals, ended>>

reset(t) ==
    /\ At(t, "reset")
    /\ \/ lease[t] \in host \cap alive /\ Continue(t, <<Plain("model")>>)
       \/ Abort(t)
    /\ UNCHANGED <<lease, pool, procs, record>>

GiveBackThen(end) == <<Plain("release"), Plain("swallow"), Plain("seal"), Plain(end)>>

infer(t) ==
    /\ At(t, "model")
    /\ \/ Continue(t, <<Plain("step")>>)
       \/ \E end \in {"failed", "error"} : Continue(t, GiveBackThen(end))
    /\ UNCHANGED <<lease, pool, procs, record>>

(* The step fails and gives the instance back; the reward cannot be resolved *)
(* and it does not; or the step counts and may be the last.                  *)
step(t) ==
    /\ At(t, "step")
    /\ \/ Continue(t, GiveBackThen("error")) /\ UNCHANGED stepped
       \/ lease[t] \in host \cap alive /\ Abort(t) /\ UNCHANGED stepped
       \/ /\ lease[t] \in host \cap alive
          /\ stepped' = [stepped EXCEPT ![t] = @ + 1]
          /\ \/ Continue(t, <<Plain("release"), Plain("finish")>>)
             \/ stepped[t] + 1 < MaxSteps /\ Continue(t, <<Plain("model")>>)
    /\ UNCHANGED <<lease, pool, procs, inflight, seals, ended>>

swallow(t) ==
    /\ At(t, "swallow")
    /\ Continue(t, Rest(t))
    /\ UNCHANGED <<lease, pool, procs, record>>

Sealed(t) == IF t \in inflight THEN [seals EXCEPT ![t] = @ + 1] ELSE seals

seal_inflight(t) ==
    /\ At(t, "seal")
    /\ seals' = Sealed(t) /\ inflight' = inflight \ {t}
    /\ Continue(t, Rest(t))
    /\ UNCHANGED <<lease, pool, procs, stepped, ended>>

ReturnError(t) ==
    /\ \E end \in {"error", "failed"} : At(t, end) /\ ended' = [ended EXCEPT ![t] = end]
    /\ Continue(t, <<>>)
    /\ UNCHANGED <<lease, pool, procs, stepped, inflight, seals>>

FinishUnsealedMutant(t) ==
    /\ At(t, "finish")
    /\ \E end \in {"completed", "failed"} :
         /\ ended' = [ended EXCEPT ![t] = end]
         /\ IF end = "completed" THEN seals' = Sealed(t) /\ inflight' = inflight \ {t}
                                 ELSE UNCHANGED <<seals, inflight>>
    /\ Continue(t, <<>>)
    /\ UNCHANGED <<lease, pool, procs, stepped>>

(* Completed, or failed for want of the rollout metadata; sealed either way. *)
Finish(t) ==
    /\ At(t, "finish")
    /\ \E end \in {"completed", "failed"} : ended' = [ended EXCEPT ![t] = end]
    /\ seals' = Sealed(t) /\ inflight' = inflight \ {t}
    /\ Continue(t, <<>>)
    /\ UNCHANGED <<lease, pool, procs, stepped>>

DroppedAtAwait(t) ==
    /\ todo[t] # <<>> /\ Op(t) \notin {"swallow", "seal", "error", "failed", "finish"}
    /\ alive' = IF Op(t) = "manage" THEN alive \ {Arg(t)} ELSE alive
    /\ Continue(t, <<>>)
    /\ UNCHANGED <<lease, pool, host, used, stepped>>

(* cancel_episode: the partial trajectory is thrown away. *)
CancelExecution(t) ==
    /\ DroppedAtAwait(t)
    /\ inflight' = inflight \ {t}
    /\ ended' = [ended EXCEPT ![t] = "cancelled"]
    /\ UNCHANGED seals

(* episode timeout: seal_timeout_trajectory keeps it. *)
TimeoutExecution(t) ==
    /\ DroppedAtAwait(t)
    /\ seals' = Sealed(t) /\ inflight' = inflight \ {t}
    /\ ended' = [ended EXCEPT ![t] = "timeout"]

PluginExits(i) ==
    /\ i \in alive
    /\ alive' = alive \ {i}
    /\ UNCHANGED <<todo, lease, pool, host, used, record>>

WDone == (\A t \in Tasks : ended[t] # "no") /\ UNCHANGED wvars

WNext ==
    \/ \E t \in Tasks :
         \/ execute_episode(t) \/ AcquireWarm(t) \/ CheckCandidate(t) \/ AcquireNew(t)
         \/ fill_pool(t) \/ FillStock(t) \/ spawn(t) \/ SpawnManaged(t) \/ wait_plugin_ready(t)
         \/ destroy_instance(t) \/ close(t) \/ ForgetDestroyed(t)
         \/ release(t) \/ ReleaseRecycle(t) \/ evict_idle(t)
         \/ ResetConfig(t) \/ reset(t) \/ infer(t) \/ step(t) \/ swallow(t)
         \/ seal_inflight(t) \/ ReturnError(t) \/ Finish(t)
         \/ CancelExecution(t) \/ TimeoutExecution(t)
    \/ \E i \in Instances : PluginExits(i)
    \/ WDone

WSpec == WInit /\ [][WNext]_wvars

(***************************************************************************)
(* Properties                                                              *)
(***************************************************************************)
Holding(t) == lease[t] # none /\ todo[t] # <<>>

(* No other episode holds the instance and it does not wait in the warm queue. *)
UsedByOne ==
    \A t \in Tasks : (Holding(t) /\ lease[t] \in active) =>
        /\ lease[t] \notin InQueue
        /\ \A u \in Tasks \ {t} : Holding(u) /\ lease[u] \in active => lease[u] # lease[t]

(* Every process is in the host's table, where closing and shutdown find it, *)
(* or in the hands of the call that starts it.                               *)
ProcessesAreManaged ==
    \A i \in alive : i \in host \/ \E t \in Tasks : At(t, "manage") /\ Arg(t) = i

(* The instance an episode runs on is nobody else's until the episode gives  *)
(* it back, while releases, evictions and fills of other executions go on;   *)
(* and no failed, cancelled or timed out execution leaves a plugin process   *)
(* behind that nothing can stop.                                             *)
ExclusiveUse == UsedByOne /\ ProcessesAreManaged

(* An episode that got as far as its reset leaves exactly one sealed          *)
(* trajectory whatever way it ends, a cancelled one leaves none, and no       *)
(* partial trajectory stays in the executor's table after the end.            *)
OneTrajectory ==
    \A t \in Tasks : ended[t] # "no" =>
        /\ t \notin inflight
        /\ seals[t] <= 1
        /\ ended[t] \in {"completed", "failed"} => seals[t] = 1
        /\ ended[t] = "cancelled" => seals[t] = 0
        /\ stepped[t] > 0 /\ ended[t] # "cancelled" => seals[t] = 1

=============================================================================
