----------------------------- MODULE AdapterCore -----------------------------
(***************************************************************************)
(* The adapter core of uenv-bridge: the gRPC front through which a trainer *)
(* submits batches and streams of samples.  A sample is checked, turned    *)
(* into an episode request of the server, and the episode's result is      *)
(* turned back into the result of the sample.                              *)
(*                                                                         *)
(* The server behind EpisodeService is kept as the table of the episodes   *)
(* it knows: one outcome per episode id, a second submission of the same   *)
(* request waits for the same outcome, one with another request is a       *)
(* conflict.  Payloads are the keys they carry; texts are left out.        *)
(***************************************************************************)
EXTENDS Integers, Sequences, FiniteSets, SequencesExt

CONSTANTS
    Calls,          \* gRPC calls of the trainer
    Scripts,        \* [Calls -> the calls' inputs: [kind, samples, batch]]
    MaxPending,     \* UENV_MAX_PENDING_BATCHES
    MaxStream,      \* UENV_MAX_STREAM_SAMPLES
    ChannelSize,    \* the 32 of the result channel
    Outcomes,       \* the ends of an episode that are explored
    Stops           \* whether the process may be told to stop

VARIABLES
    pending,        \* pending_batches
    call,           \* what each call is doing
    slot,           \* slot[c][i]: the i-th sample of call c that was read
    chan,           \* chan[c]: the result channel of a stream
    got,            \* got[c]: what the client of c received
    submitted,      \* the server's episodes by id
    lifecycle       \* of the process: "up", "draining", "checkpointed"

coreVars == <<pending, call, slot, chan, got, submitted, lifecycle>>

NoText == "none"
Samples(c) == Scripts[c].samples

\* Samples come in sequence, and an end of an episode is not a running one.
CoreConstants ==
    /\ \A c \in Calls : Samples(c) \in Seq(Range(Samples(c)))
    /\ \A o \in Outcomes : o.status # "running"

-----------------------------------------------------------------------------
(* From a sample to an episode request.                                    *)

\* The modes the server supports; the empty text is the synchronous mode.
normalize_parallel_mode(raw) ==
    IF raw \in {NoText, "sync"} THEN "sync"
    ELSE IF raw \in {"one_step_off_policy", "fully_async"} THEN raw ELSE "unsupported"

\* The typed field of the envelope and the one in the environment's
\* configuration have to agree where both are given.
env_package_field(typed, legacy) ==
    IF typed # NoText /\ legacy # NoText /\ typed # legacy THEN "conflicting"
    ELSE IF typed # NoText THEN typed ELSE legacy

ProtocolKeys == {"parallel_mode", "rollout_param_version", "enqueue_ts", "scheduling_priority"}

\* The sample's context without the keys that belong to the protocol.
contextual_metadata(keys) == keys \ ProtocolKeys

SweKeys == {"instance_id", "execution_mode"}
CodeKeys == {"task_id", "test_code", "execution_mode"}

\* The keys of the worker's payload: the common ones, and those of the
\* environment's configuration that the environment type forwards.
sample_to_worker_payload(s) ==
    {"request_id", "question", "dataset", "env_config", "metadata"}
        \union (s.env \intersect {"response_text"})
        \union (IF s.endpoint THEN {"model_endpoint", "model_name"} ELSE {})
        \union (CASE s.env_type = "swe" -> s.env \intersect SweKeys
                  [] s.env_type = "code" -> s.env \intersect CodeKeys
                  [] OTHER -> {})

\* A rule reward is passed on, a ground truth becomes one.
sample_to_worker_reward_config(kind) == IF kind = "ground_truth" THEN "rule_reward" ELSE kind

\* The scheduling group: the sample's batch, else the call's, else the
\* correlation id.
SchedulingGroup(s, fallback) ==
    CHOOSE g \in {s.batch_id, fallback, s.correlation_id} :
        \/ g = s.batch_id /\ g # NoText
        \/ g = fallback /\ s.batch_id = NoText /\ g # NoText
        \/ s.batch_id = NoText /\ fallback = NoText

sample_to_episode_request(s, fallback) ==
    [episode_id |-> s.request_id,
     parallel_mode |-> normalize_parallel_mode(s.parallel_mode),
     payload |-> sample_to_worker_payload(s),
     reward |-> sample_to_worker_reward_config(s.reward),
     metadata |-> contextual_metadata(s.context),
     batch |-> s.batch_id,
     group |-> SchedulingGroup(s, fallback),
     package |-> env_package_field(s.package, s.env_package),
     timeout_seconds |-> IF s.timeout > 0 THEN s.timeout ELSE 300]

\* The errors of the conversion are those of the mode and of the package.
Convertible(s) ==
    /\ normalize_parallel_mode(s.parallel_mode) # "unsupported"
    /\ env_package_field(s.package, s.env_package) # "conflicting"

\* Every sample names itself, its batch and its framework, and no two
\* samples of a batch have the same name.
validate_batch(samples) ==
    /\ \A s \in Range(samples) :
           s.request_id # NoText /\ s.batch_id # NoText /\ s.framework # NoText
    /\ \A i, j \in DOMAIN samples : samples[i].request_id = samples[j].request_id => i = j

\* What a call has to be like to be executed.
IsAcceptable(samples) == validate_batch(samples) /\ \A s \in Range(samples) : Convertible(s)

-----------------------------------------------------------------------------
(* From the episodes' results to the samples'.                             *)

SomeIndexMutant(samples) ==
    [id \in {s.request_id : s \in Range(samples)} |->
        [batch_id |-> Last(samples).batch_id, sample_index |-> Last(samples).sample_index]]

\* Where the result of an episode belongs: the batch and the index of the
\* sample the episode is named after.
sample_context_by_request_id(samples) ==
    [id \in {s.request_id : s \in Range(samples)} |->
        LET s == CHOOSE t \in Range(samples) : t.request_id = id
        IN  [batch_id |-> s.batch_id, sample_index |-> s.sample_index]]

\* As many results as samples, each for one sample.
validate_episode_results(results, context) ==
    /\ Len(results) = Cardinality(DOMAIN context)
    /\ \A r \in Range(results) : r.episode_id \in DOMAIN context
    /\ \A i, j \in DOMAIN results : results[i].episode_id = results[j].episode_id => i = j

\* What the trajectory of a result becomes: its steps, an envelope around an
\* id, or nothing.
build_trajectory_json(r) == CASE r.trajectory = "steps" -> "steps"
                              [] r.trajectory = "id" -> "envelope"
                              [] OTHER -> "empty"

episode_result_to_sample_result(r, context) ==
    [request_id |-> r.episode_id,
     batch_id |-> context[r.episode_id].batch_id,
     sample_index |-> context[r.episode_id].sample_index,
     status |-> r.status,
     done |-> r.status \in {"completed", "failed", "timeout"},
     trajectory_json |-> build_trajectory_json(r)]

\* CoreError as a status of the call.
InvalidArgument == "invalid_argument"
Internal == "internal"

-----------------------------------------------------------------------------
(* The calls.                                                              *)

CoreInit ==
    /\ pending = 0
    /\ call = [c \in Calls |-> [phase |-> "idle", seen |-> 0, read |-> 0, input |-> "open"]]
    /\ slot = [c \in Calls |-> <<>>]
    /\ chan = [c \in Calls |-> <<>>]
    /\ got = [c \in Calls |-> <<>>]
    /\ submitted = <<>>
    /\ lifecycle = "up"

IsBatch(c) == Scripts[c].kind = "batch"
Phase(c, p) == call[c].phase = p
Go(c, p) == call' = [call EXCEPT ![c].phase = p]

\* The call is counted before the limit is looked at.
Enter(c) ==
    /\ Phase(c, "idle")
    /\ lifecycle # "checkpointed"
    /\ pending' = pending + 1
    /\ call' = [call EXCEPT ![c].phase = "counted", ![c].seen = pending + 1]
    /\ UNCHANGED <<slot, chan, got, submitted, lifecycle>>

\* PendingBatchGuard: dropped when the call's handler, or the stream's task,
\* is.
GuardDropped == pending' = pending - 1

Refuses(c) ==
    /\ Phase(c, "counted") /\ call[c].seen > MaxPending
    /\ GuardDropped
    /\ Go(c, "refused")
    /\ UNCHANGED <<slot, chan, got, submitted, lifecycle>>

\* A batch is checked and converted as a whole; nothing is submitted when one
\* of its samples is not valid.
BatchBegins(c) ==
    LET samples == Samples(c)
    IN  /\ IsBatch(c) /\ Phase(c, "counted") /\ call[c].seen <= MaxPending
        /\ IF IsAcceptable(samples)
           THEN /\ slot' = [slot EXCEPT ![c] = [i \in DOMAIN samples |-> [state |-> "new"]]]
                /\ Go(c, "running")
                /\ UNCHANGED <<pending, got>>
           ELSE /\ got' = [got EXCEPT ![c] = <<[error |-> InvalidArgument]>>]
                /\ Go(c, "answered")
                /\ GuardDropped
                /\ UNCHANGED slot
        /\ UNCHANGED <<chan, submitted, lifecycle>>

\* The response of a stream is the channel; a task of its own reads the
\* samples and holds the guard.
StreamBegins(c) ==
    /\ ~IsBatch(c) /\ Phase(c, "counted") /\ call[c].seen <= MaxPending
    /\ Go(c, "streaming")
    /\ UNCHANGED <<pending, slot, chan, got, submitted, lifecycle>>

Running(c) == Phase(c, "running") \/ Phase(c, "streaming")
RequestOf(c, i) ==
    sample_to_episode_request(Samples(c)[i], IF IsBatch(c) THEN Scripts[c].batch ELSE NoText)
Put(c, i, s) == slot' = [slot EXCEPT ![c][i] = s]

FailedResult(id) == [episode_id |-> id, status |-> "failed", trajectory |-> "empty"]

\* submit_episode of one request: refused while the server shuts down, answered
\* by the episode of this id when it has ended, a conflict when that is
\* another request's; every error is a failed result.
submit_sample(c, i) ==
    LET req == RequestOf(c, i)
        id == req.episode_id
        known == id \in DOMAIN submitted
    IN  /\ Running(c) /\ i \in DOMAIN slot[c] /\ slot[c][i].state = "new"
        /\ IF lifecycle # "up" \/ (known /\ submitted[id].request # req)
           THEN Put(c, i, [state |-> "done", result |-> FailedResult(id)]) /\ UNCHANGED submitted
           ELSE /\ Put(c, i, [state |-> "waits"])
                /\ submitted' = IF known THEN submitted
                              ELSE [e \in DOMAIN submitted \union {id} |->
                                       IF e = id THEN [request |-> req, status |-> "running",
                                                       trajectory |-> "empty"]
                                       ELSE submitted[e]]
        /\ UNCHANGED <<pending, call, chan, got, lifecycle>>

\* The server ends an episode, whoever still waits for it.
EpisodeEnds(id) ==
    /\ id \in DOMAIN submitted /\ submitted[id].status = "running"
    /\ \E o \in Outcomes :
           submitted' = [submitted EXCEPT ![id].status = o.status, ![id].trajectory = o.trajectory]
    /\ UNCHANGED <<pending, call, slot, chan, got, lifecycle>>

SubmitReturns(c, i) ==
    LET id == RequestOf(c, i).episode_id
    IN  /\ Running(c) /\ i \in DOMAIN slot[c] /\ slot[c][i].state = "waits"
        /\ submitted[id].status # "running"
        /\ Put(c, i, [state |-> "done",
                      result |-> [episode_id |-> id, status |-> submitted[id].status,
                                  trajectory |-> submitted[id].trajectory]])
        /\ UNCHANGED <<pending, call, chan, got, submitted, lifecycle>>

\* All the futures of a batch have returned: the results are checked and
\* converted, in the order of the samples.
execute_batch(c) ==
    LET results == [i \in DOMAIN slot[c] |-> slot[c][i].result]
        context == sample_context_by_request_id(Samples(c))
    IN  /\ IsBatch(c) /\ Phase(c, "running")
        /\ \A i \in DOMAIN slot[c] : slot[c][i].state = "done"
        /\ got' = [got EXCEPT ![c] =
               IF validate_episode_results(results, context)
               THEN [i \in DOMAIN results |-> episode_result_to_sample_result(results[i], context)]
               ELSE <<[error |-> Internal]>>]
        /\ GuardDropped
        /\ Go(c, "answered")
        /\ UNCHANGED <<slot, chan, submitted, lifecycle>>

\* The client of a batch is gone: its handler is dropped with the guard, the
\* episodes go on.
BatchDropped(c) ==
    /\ IsBatch(c) /\ Phase(c, "running")
    /\ GuardDropped
    /\ Go(c, "gone")
    /\ UNCHANGED <<slot, chan, got, submitted, lifecycle>>

-----------------------------------------------------------------------------
(* The task of a stream: one loop over the samples that arrive and the     *)
(* executions that end.                                                    *)

Streaming(c) == ~IsBatch(c) /\ Phase(c, "streaming")
Handles(c) == {i \in DOMAIN slot[c] : slot[c][i].state # "sent"}
HasReceiver(c) == call[c].input # "gone"

\* A sample is read while fewer than the allowed number are executed.
StreamReads(c) ==
    /\ Streaming(c) /\ call[c].input = "open" /\ HasReceiver(c)
    /\ Cardinality(Handles(c)) < MaxStream
    /\ call[c].read < Len(Samples(c))
    /\ call' = [call EXCEPT ![c].read = @ + 1]
    /\ LET s == Samples(c)[call[c].read + 1]
       IN  slot' = [slot EXCEPT ![c] = Append(@,
               IF IsAcceptable(<<s>>) THEN [state |-> "new"]
               ELSE [state |-> "done", error |-> InvalidArgument])]
    /\ UNCHANGED <<pending, chan, got, submitted, lifecycle>>

\* The client has sent all its samples.
StreamInputDone(c) ==
    /\ Streaming(c) /\ call[c].input = "open"
    /\ Cardinality(Handles(c)) < MaxStream
    /\ call[c].read = Len(Samples(c))
    /\ call' = [call EXCEPT ![c].input = "done"]
    /\ UNCHANGED <<pending, slot, chan, got, submitted, lifecycle>>

Item(c, i) ==
    IF "error" \in DOMAIN slot[c][i] THEN [error |-> slot[c][i].error]
    ELSE episode_result_to_sample_result(slot[c][i].result,
                                         sample_context_by_request_id(<<Samples(c)[i]>>))

\* An execution has ended and its item has found room in the channel; without
\* a receiver the loop ends, and the executions that are left are aborted.
StreamJoins(c) ==
    \E i \in Handles(c) :
        /\ Streaming(c) /\ slot[c][i].state = "done"
        /\ IF HasReceiver(c)
           THEN /\ Len(chan[c]) < ChannelSize
                /\ chan' = [chan EXCEPT ![c] = Append(@, Item(c, i))]
                /\ slot' = [slot EXCEPT ![c][i].state = "sent"]
                /\ UNCHANGED <<call, pending>>
           ELSE Go(c, "gone") /\ GuardDropped /\ UNCHANGED <<slot, chan>>
        /\ UNCHANGED <<got, submitted, lifecycle>>

\* The loop ends when the input has ended and no execution is left; the
\* client is told when it has read the channel.
StreamEnds(c) ==
    /\ Streaming(c) /\ call[c].input # "open" /\ Handles(c) = {}
    /\ GuardDropped
    /\ Go(c, IF HasReceiver(c) THEN "ended" ELSE "gone")
    /\ UNCHANGED <<slot, chan, got, submitted, lifecycle>>

\* tonic passes the next item on; after an error item the response is over
\* and the channel has no receiver any more.
ClientReads(c) ==
    /\ chan[c] # <<>> /\ (Streaming(c) \/ Phase(c, "ended")) /\ HasReceiver(c)
    /\ got' = [got EXCEPT ![c] = Append(@, Head(chan[c]))]
    /\ chan' = [chan EXCEPT ![c] = Tail(@)]
    /\ IF "error" \in DOMAIN Head(chan[c])
       THEN call' = [call EXCEPT ![c].input = "gone"]
       ELSE UNCHANGED call
    /\ UNCHANGED <<pending, slot, submitted, lifecycle>>

\* The client of a stream is gone; its task is not dropped.
StreamAbandoned(c) ==
    /\ Streaming(c) /\ HasReceiver(c)
    /\ call' = [call EXCEPT ![c].input = "gone"]
    /\ UNCHANGED <<pending, slot, chan, got, submitted, lifecycle>>

-----------------------------------------------------------------------------
(* graceful_shutdown: no new episodes, then a wait for the active ones     *)
(* that is bounded by the grace period, then a checkpoint of the store.    *)

begin_shutdown ==
    /\ Stops /\ lifecycle = "up" /\ lifecycle' = "draining"
    /\ UNCHANGED <<pending, call, slot, chan, got, submitted>>

\* The deadline ends the wait with episodes still active.
Checkpoint ==
    /\ lifecycle = "draining" /\ lifecycle' = "checkpointed"
    /\ UNCHANGED <<pending, call, slot, chan, got, submitted>>

-----------------------------------------------------------------------------
CoreNext ==
    \/ begin_shutdown \/ Checkpoint
    \/ \E id \in DOMAIN submitted : EpisodeEnds(id)
    \/ \E c \in Calls :
        \/ Enter(c) \/ Refuses(c) \/ BatchBegins(c) \/ StreamBegins(c) \/ execute_batch(c)
        \/ BatchDropped(c) \/ StreamReads(c) \/ StreamInputDone(c) \/ StreamJoins(c)
        \/ StreamEnds(c) \/ ClientReads(c) \/ StreamAbandoned(c)
        \/ \E i \in DOMAIN slot[c] : submit_sample(c, i) \/ SubmitReturns(c, i)

CoreSpec == CoreInit /\ [][CoreNext]_coreVars

-----------------------------------------------------------------------------
\* r is the result of the i-th sample of call c: it carries the sample's batch
\* and index, and the outcome of the episode that ran the sample's request; it
\* is a failure when the server was shutting down or the id is another
\* request's.
ResultOf(c, i, r) ==
    LET s == Samples(c)[i]
        id == s.request_id
    IN  /\ r.request_id = id /\ r.batch_id = s.batch_id /\ r.sample_index = s.sample_index
        /\ \/ /\ r.status = "failed"
              /\ lifecycle # "up" \/ (id \in DOMAIN submitted /\ submitted[id].request # RequestOf(c, i))
           \/ /\ id \in DOMAIN submitted /\ submitted[id].request = RequestOf(c, i)
              /\ r.status = submitted[id].status
              /\ r.trajectory_json = build_trajectory_json(submitted[id])

\* The answer to a batch has, in the order of the samples, the result of every
\* sample, whatever other calls with the same ids do meanwhile; only a batch
\* that is not valid is answered with an error.
AnsweredInOrder ==
    \A c \in Calls : IsBatch(c) /\ Phase(c, "answered") =>
        IF IsAcceptable(Samples(c))
        THEN /\ Len(got[c]) = Len(Samples(c))
             /\ \A i \in DOMAIN got[c] : ResultOf(c, i, got[c][i])
        ELSE got[c] = <<[error |-> InvalidArgument]>>

\* A stream that comes to its end without an error has given its client one
\* result for every sample the client sent.
StreamAnswersAll ==
    \A c \in Calls : Phase(c, "ended") /\ chan[c] = <<>> /\ HasReceiver(c) =>
        /\ Len(got[c]) = Len(Samples(c))
        /\ \A i \in DOMAIN Samples(c) : \E j \in DOMAIN got[c] : ResultOf(c, i, got[c][j])

\* A call of the bridge that ends well is answered in full: a batch with the
\* results of its samples in their order, a stream with one for each.
AnsweredInFull == AnsweredInOrder /\ StreamAnswersAll

=============================================================================
