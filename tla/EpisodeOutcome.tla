--------------------------- MODULE EpisodeOutcome ---------------------------
(***************************************************************************)
(* What the persistent episode path of uenv-server promises about one      *)
(* episode_id, to the clients that submit it and to the workers that       *)
(* execute it: there is at most one outcome, it never changes (not across  *)
(* retries, cancellations and server restarts either), every client that   *)
(* is answered is answered with it, and a worker is told that its result   *)
(* was accepted only if that result is the outcome.                        *)
(***************************************************************************)
CONSTANTS
    Clients,        \* callers of SubmitEpisode
    Leases,         \* dispatch leases of the episode
    Results,        \* possible results
    NoResult,       \* no result yet
    WorkerResult(_) \* the result the worker of a lease reports

VARIABLES
    outcome,  \* the durable result of the episode, or NoResult
    answer,   \* what each client's latest call returned; NoResult: nothing yet
              \* or an error
    accepted  \* leases whose worker has been told its result was accepted

outcomeVars == <<outcome, answer, accepted>>

OutcomeInit ==
    /\ outcome = NoResult
    /\ answer = [c \in Clients |-> NoResult]
    /\ accepted = {}

Decide ==
    /\ outcome = NoResult
    /\ outcome' \in Results
    /\ UNCHANGED <<answer, accepted>>

\* Some calls return: with the outcome, or with an error.  A new call forgets
\* the previous answer.
Answer ==
    /\ answer' \in [Clients -> Results \union {NoResult}]
    /\ \A c \in Clients : answer'[c] \in {answer[c], outcome, NoResult}
    /\ UNCHANGED <<outcome, accepted>>

Accept ==
    /\ \E l \in Leases :
          /\ outcome = WorkerResult(l)
          /\ accepted' = accepted \union {l}
    /\ UNCHANGED <<outcome, answer>>

OutcomeNext == Decide \/ Answer \/ Accept

OutcomeSpec == OutcomeInit /\ [][OutcomeNext]_outcomeVars

=============================================================================
