------------------------------ MODULE ModelTurn ------------------------------
(* The conversation of a generic episode with the model (uenv-worker:        *)
(* episode/model_client, rollout_meta, payload, reward_engine, async_context *)
(* and llm): which endpoint is called, retries, what is read from an answer, *)
(* how the answers of the turns add up to the rollout data of the result.    *)
(* A token is the pair <<turn, position>>; the log-prob and the id a body    *)
(* reports for a token are written as that token.                            *)
EXTENDS Queues

CONSTANTS
    MaxTurns,       \* episode.max_steps
    DefaultRetries  \* llm.max_retries

VARIABLES
    req,            \* what the episode and the worker's configuration say
    mphase,         \* where the conversation is
    turn,           \* step_index
    tries,          \* attempts of this turn
    meta,           \* episode_rollout_meta
    said,           \* tokens of the answers that were accepted, in order
    reward          \* total reward, and the error that ended the episode

TurnConstants == MaxTurns \in Nat /\ DefaultRetries \in Nat
mvars == <<req, mphase, turn, tries, meta, said, reward>>

Modes == {"", "sync", "one_step_off_policy", "fully_async", "offline"}
Urls == {"", "file", "http", "https"}
Texts == {"absent", "blank", "text"}
Request == [mode : Modes, typedUrl : Urls, url : Urls, key : BOOLEAN, retries : 0..2,
            question : Texts, nested : Texts, observation : Texts,
            scorer : {"none", "plugin", "worker"}, target : {"absent", "hit", "miss"}]

(* A body of a successful call about n tokens.  Each place that may speak of *)
(* them leaves some out: items of logprobs.content with a log-prob (lp) and  *)
(* an id, token_logprobs (flat) with nulls where lp has none, and a list of  *)
(* ids of which some are no integers (listed: those that are; none, too,     *)
(* when there is no list).  Versions are in the body and in the headers.     *)
Bodies == UNION {[n : {n}, content : BOOLEAN, lp : SUBSET (1..n), ids : SUBSET (1..n), flat : BOOLEAN,
                  listed : SUBSET (1..n), body : {"no", "param", "both"}, header : {"no", "policy", "both"}] : n \in 1..2}
NoMeta == [param |-> FALSE, policy |-> FALSE, lps |-> <<>>, ids |-> <<>>, mask |-> 0]

normalize_parallel_mode(m) == IF m = "" THEN "sync" ELSE m
is_async_mode(m) == normalize_parallel_mode(m) \in {"one_step_off_policy", "fully_async"}
is_valid_llm_endpoint(u) == u \in {"http", "https"}
llm_call_ready(u, key) == is_valid_llm_endpoint(u) /\ (u = "https" => key)

(* The endpoint named by the episode wins when it is one, however unusable. *)
resolve_llm_target(r) == IF is_valid_llm_endpoint(r.typedUrl) THEN r.typedUrl ELSE r.url
max_retries(r) == IF r.retries > 0 THEN r.retries ELSE IF DefaultRetries > 1 THEN DefaultRetries ELSE 1

(* The first question that is not blank, at the top level or nested. *)
payload_question(r) == IF "text" \in {r.question, r.nested} THEN "text" ELSE "absent"

reward_target(r) == r.target
resolve_reward(r) ==
    IF r.scorer # "worker" \/ reward_target(r) = "absent" THEN {0, 1}
    ELSE {IF r.target = "hit" THEN 1 ELSE 0}

(* Roles of the messages of a turn; none when there is nothing to say. *)
build_model_messages(r, k, seen, acted) ==
    LET asks == payload_question(r) = "text"
        sees == seen = "text"
    IN  IF k <= 1 THEN (IF asks \/ sees THEN <<"user">> ELSE <<>>)
        ELSE <<"user">> \o (IF acted THEN <<"assistant">> ELSE <<>>) \o (IF sees THEN <<"user">> ELSE <<>>)

Tokens(k, n) == [i \in 1..n |-> <<k, i>>]
Of(k, n, S) == Keep(Tokens(k, n), {<<k, i>> : i \in S})

(* An item of content without its log-prob is an error; token_logprobs drops *)
(* its nulls, and the error is that nothing is left.                         *)
parse_logprobs(b, k) ==
    IF b.content
    THEN IF \A i \in 1..b.n : i \in b.lp THEN Tokens(k, b.n) ELSE <<>>
    ELSE IF b.flat THEN Of(k, b.n, b.lp) ELSE <<>>

(* The list without what is no integer; the ids of content when none is left. *)
parse_response_ids(b, k) ==
    IF b.listed # {} THEN Of(k, b.n, b.listed)
    ELSE IF b.content THEN Of(k, b.n, b.ids) ELSE <<>>

(* Versions in the body hide those of the headers; a parameter version alone names the policy. *)
parse_model_version(b) ==
    LET from == IF b.body # "no" THEN b.body ELSE b.header
    IN  [param |-> from \in {"param", "both"}, policy |-> from # "no"]

AnswerMeta(b, k) ==
    LET v == parse_model_version(b)
        ids == parse_response_ids(b, k)
    IN  [param |-> v.param, policy |-> v.policy, lps |-> parse_logprobs(b, k), ids |-> ids, mask |-> Len(ids)]

(* What is read from an answer of n tokens to turn k. *)
Answers(k) == {[n |-> b.n, meta |-> AnswerMeta(b, k)] : b \in Bodies}

ValidateVersionOnlyMutant(m) == m.param /\ m.policy /\ m.lps # <<>> /\ m.ids # <<>>

validate_for_async(m) ==
    m.param /\ m.policy /\ m.lps # <<>> /\ m.ids # <<>> /\ Len(m.lps) = Len(m.ids)

absorb(m, o) ==
    [param |-> m.param \/ o.param, policy |-> m.policy \/ o.policy,
     lps |-> m.lps \o o.lps, ids |-> m.ids \o o.ids, mask |-> m.mask + o.mask]

Typical == [mode |-> "fully_async", typedUrl |-> "http", url |-> "", key |-> FALSE, retries |-> 2,
            question |-> "text", nested |-> "absent", observation |-> "text",
            scorer |-> "worker", target |-> "hit"]

(* Requests that differ from a typical one in their mode, in what they are *)
(* sent with, in their texts, or in how they are scored.                   *)
Differs(r, fields) == \A f \in DOMAIN Typical \ fields : r[f] = Typical[f]
SentOtherwise(r) == Differs(r, {"mode", "typedUrl", "url", "key", "retries"})
SaysOtherwise(r) ==
    /\ Differs(r, {"mode", "question", "nested", "observation", "typedUrl", "scorer", "target"})
    /\ r.typedUrl \in {"file", "http"} /\ r.scorer # "plugin" /\ r.target # "hit"

MInit ==
    /\ req \in Request
    /\ \/ Differs(req, {"mode"})
       \/ req.mode \in {"sync", "fully_async"} /\ (SentOtherwise(req) \/ SaysOtherwise(req))
    /\ mphase = "turn" /\ turn = 1 /\ tries = 0
    /\ meta = NoMeta /\ said = <<>> /\ reward = 0

EndWith(state) == mphase' = state /\ UNCHANGED <<req, turn, tries, meta, said, reward>>

(* The rule target stands in for the model when there is neither one nor a question. *)
infer_with_rollout_context ==
    /\ mphase = "turn"
    /\ LET url == resolve_llm_target(req)
           ready == llm_call_ready(url, req.key)
           short == ~ready /\ payload_question(req) = "absent" /\ reward_target(req) # "absent"
       IN  CASE req.mode = "offline" -> EndWith("failed")
             [] short -> EndWith(IF is_async_mode(req.mode) THEN "failed" ELSE "answered")
             [] ~ready /\ ~short -> EndWith("failed")
             [] OTHER -> \E acted \in BOOLEAN :
                    EndWith(IF build_model_messages(req, turn, req.observation, acted) = <<>> THEN "failed" ELSE "call")

(* A refused or lost call is repeated; the answer to a sync episode is taken as it is. *)
CallFails ==
    /\ mphase = "call"
    /\ tries' = tries + 1
    /\ mphase' = IF tries + 1 < max_retries(req) THEN "call" ELSE "failed"
    /\ UNCHANGED <<req, turn, meta, said, reward>>

CallMalformed == mphase = "call" /\ EndWith("failed")

CallAnswers(a) ==
    /\ mphase = "call"
    /\ IF ~is_async_mode(req.mode) THEN EndWith("answered")
       ELSE IF validate_for_async(a.meta)
            THEN /\ meta' = absorb(meta, a.meta)
                 /\ said' = said \o Tokens(turn, a.n)
                 /\ mphase' = "answered"
                 /\ UNCHANGED <<req, turn, tries, reward>>
            ELSE EndWith("failed")

(* The environment steps: it ends, or the next turn begins. *)
StepEnv ==
    /\ mphase = "answered"
    /\ \E r \in resolve_reward(req) : reward' = reward + r
    /\ \/ mphase' = "end" /\ UNCHANGED <<turn, tries>>
       \/ turn < MaxTurns /\ mphase' = "turn" /\ turn' = turn + 1 /\ tries' = 0
    /\ UNCHANGED <<req, meta, said>>

validate_async_completed ==
    /\ mphase = "end"
    /\ EndWith(IF is_async_mode(req.mode) /\ ~validate_for_async(meta) THEN "failed" ELSE "completed")

MEnd == mphase \in {"failed", "completed"} /\ UNCHANGED mvars

MNext ==
    \/ infer_with_rollout_context \/ CallFails \/ CallMalformed
    \/ mphase = "call" /\ \E a \in Answers(turn) : CallAnswers(a)
    \/ StepEnv \/ validate_async_completed \/ MEnd

TurnSpec == MInit /\ [][MNext]_mvars

InOrder(s) ==
    \A i, j \in DOMAIN s : i < j => s[i][1] < s[j][1] \/ (s[i][1] = s[j][1] /\ s[i][2] < s[j][2])
TurnsOf(s) == {s[i][1] : i \in DOMAIN s}
AllHave(s, k) == \A i \in DOMAIN said : said[i][1] = k => said[i] \in Range(s)

(* A completed episode of an asynchronous mode carries rollout data of every *)
(* turn, with both versions known: as many log-probs as ids and marks, each  *)
(* of a token that was said, none twice and all in the order they were said. *)
(* A log-prob and the id at its place are of one turn, and of one token      *)
(* unless the answer of that turn had a null for a log-prob: then the two    *)
(* lists may each lack another token, and only their lengths are compared.   *)
(* An episode of sync mode carries none; and no call was made that the       *)
(* endpoint's key or the retries of the request do not allow.                *)
RolloutAligned ==
    /\ mphase = "completed" =>
         IF is_async_mode(req.mode)
         THEN /\ meta.param /\ meta.policy /\ said # <<>>
              /\ Len(meta.lps) = Len(meta.ids) /\ meta.mask = Len(meta.ids)
              /\ InOrder(meta.lps) /\ InOrder(meta.ids)
              /\ Range(meta.lps) \cup Range(meta.ids) \subseteq Range(said)
              /\ TurnsOf(meta.lps) = 1..turn
              /\ \A i \in DOMAIN meta.lps :
                    /\ meta.ids[i][1] = meta.lps[i][1]
                    /\ AllHave(meta.lps, meta.lps[i][1]) => meta.ids[i] = meta.lps[i]
         ELSE meta = NoMeta
    /\ mphase = "call" => llm_call_ready(resolve_llm_target(req), req.key) /\ tries < max_retries(req)

=============================================================================
