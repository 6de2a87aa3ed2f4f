------------------------------ MODULE AgentPool ------------------------------
(***************************************************************************)
(* The registry of agents (agent_pool/registry.rs): which pool an agent    *)
(* episode is routed to, and how many episodes a pool admits at a time.    *)
(*                                                                         *)
(* Every pool has a semaphore.  Its permits are brought in line with the   *)
(* capacity of the pool's live agents when an agent registers and when an  *)
(* episode is submitted to the pool, not when an agent falls silent or is  *)
(* heard again.  Missing permits are added at once; permits too many are   *)
(* taken back by a background task that absorbs whatever is or becomes     *)
(* free.  An episode does not queue: it tries for a permit, sleeps and     *)
(* tries again until its deadline (submit_swe_agent_episode).              *)
(*                                                                         *)
(* Pools are numbered in the order of their names.  The bridges and labels *)
(* of an agent are what it offers when it registers, one of Offers.        *)
(***************************************************************************)
EXTENDS Queues, FiniteSetsExt

CONSTANTS
    Agents,
    Pools,          \* pool names, as numbers
    Offers,         \* what agents register with: [pool, max_concurrent, bridges, labels]
    Requests,       \* what episodes ask for: [pool, bridge, variant, selector]
    VariantPool,    \* routing configuration: variant -> pool, for some variants
    PoolEpisodes,
    MaxRegistrations,   \* bound: registrations
    MaxAges             \* bound: agents that fall silent

PoolConstants ==
    /\ IsFiniteSet(Agents)
    /\ \A offer \in Offers : offer.pool \in Pools /\ offer.max_concurrent \in Nat

AnyPool == 0
AnyBridge == {}
NoPool == -1

VARIABLES
    agents,     \* registered agents: {} or {the agent's entry}
    admission,  \* per pool: [granted, free, due, debt]
    episode,    \* [at, pool] of each episode
    registrations, ages

agentPoolVars == <<agents, admission, episode, registrations, ages>>

-----------------------------------------------------------------------------
(* What the registry reads of an agent.                                    *)

capacity_of(a) == IF a.max_concurrent > 0 THEN a.max_concurrent ELSE 1
effective_load(a) == Max({a.reserved_load, a.reported_load})
bridge_matches(a, bridge) == bridge = AnyBridge \/ bridge \subseteq a.bridges
labels_match(a, selector) == selector \subseteq a.labels

Live(reg, p) == {x \in Agents : \E a \in reg[x] : a.pool = p /\ ~a.stale}
EntryOf(reg, x) == CHOOSE a \in reg[x] : TRUE

\* The sum of what the live agents of a pool have.
OverLive(reg, p, has(_)) ==
    SumOver([x \in Agents |-> IF x \in Live(reg, p) THEN has(EntryOf(reg, x)) ELSE 0], Agents)

\* Capacity of the live agents of a pool, and what of it is not in use.
FreeOf(a) == Max({0, capacity_of(a) - effective_load(a)})
pool_capacity(reg, p) == OverLive(reg, p, capacity_of)
pool_free_capacity(reg, p) == OverLive(reg, p, FreeOf)

-----------------------------------------------------------------------------
(* Routing.                                                                *)

Servable(reg, p, bridge) == \E x \in Live(reg, p) : bridge_matches(EntryOf(reg, x), bridge)

Narrow(candidates, wanted) == IF candidates \cap wanted = {} THEN candidates ELSE candidates \cap wanted

\* max_by of the free capacity; the smaller name wins a tie.
Best(reg, candidates) ==
    Min({p \in candidates : \A q \in candidates : pool_free_capacity(reg, q) <= pool_free_capacity(reg, p)})

\* A pool that is named is used or the episode fails.  Otherwise the pools
\* with a live agent that has the bridge are narrowed by the variant's pool
\* and by the labels, each only if something is left.
resolve_pool_id(reg, req) ==
    IF req.pool # AnyPool
    THEN IF Servable(reg, req.pool, req.bridge) THEN req.pool ELSE NoPool
    ELSE LET candidates == {p \in Pools : Servable(reg, p, req.bridge)}
             variant == {VariantPool[v] : v \in req.variant \cap DOMAIN VariantPool}
             labelled == {p \in Pools : \E x \in Live(reg, p) :
                             /\ bridge_matches(EntryOf(reg, x), req.bridge)
                             /\ labels_match(EntryOf(reg, x), req.selector)}
             afterVariant == Narrow(candidates, variant)
         IN IF candidates = {} THEN NoPool
            ELSE Best(reg, IF req.selector = {} THEN afterVariant ELSE Narrow(afterVariant, labelled))

-----------------------------------------------------------------------------
(* Admission.                                                              *)

\* Free permits go to the background task first.
Absorb(adm) ==
    LET taken == Min({adm.free, adm.debt})
    IN [adm EXCEPT !.free = @ - taken, !.debt = @ - taken]

\* Permits follow the capacity; what is too many becomes due to a task that
\* is spawned and has not run yet.
SyncTo(adm, target) ==
    CASE target > adm.granted -> Absorb([adm EXCEPT !.granted = target, !.free = @ + (target - adm.granted)])
      [] target < adm.granted -> [adm EXCEPT !.granted = target, !.due = @ + (adm.granted - target)]
      [] target = adm.granted -> adm

sync_pool_admission(reg, pools) ==
    [p \in Pools |-> IF p \in pools THEN SyncTo(admission[p], pool_capacity(reg, p)) ELSE admission[p]]

\* The task runs: from now on it absorbs every free permit.
ShrinkStarts(p) ==
    LET adm == admission[p] IN
    /\ adm.due > 0
    /\ admission' = [admission EXCEPT ![p] = Absorb([adm EXCEPT !.due = 0, !.debt = adm.debt + adm.due])]
    /\ UNCHANGED <<agents, episode, registrations, ages>>

-----------------------------------------------------------------------------
(* Agents.                                                                 *)

RegisterNewPoolOnlyMutant(x, offer) ==
    /\ registrations < MaxRegistrations
    /\ registrations' = registrations + 1
    /\ agents' = [agents EXCEPT ![x] = {[pool |-> offer.pool, max_concurrent |-> offer.max_concurrent,
            bridges |-> offer.bridges, labels |-> offer.labels,
            reserved_load |-> 0, reported_load |-> 0, stale |-> FALSE]}]
    /\ admission' = sync_pool_admission(agents', {offer.pool})
    /\ UNCHANGED <<episode, ages>>

\* register replaces the entry, and with it its loads; the pool the agent
\* came from is brought in line too.
register(x, offer) ==
    /\ registrations < MaxRegistrations
    /\ registrations' = registrations + 1
    /\ agents' = [agents EXCEPT ![x] = {[pool |-> offer.pool, max_concurrent |-> offer.max_concurrent,
            bridges |-> offer.bridges, labels |-> offer.labels,
            reserved_load |-> 0, reported_load |-> 0, stale |-> FALSE]}]
    /\ admission' = sync_pool_admission(agents', {offer.pool} \cup {a.pool : a \in agents[x]})
    /\ UNCHANGED <<episode, ages>>

SetEntry(x, field, value) == agents' = [agents EXCEPT ![x] = {[a EXCEPT ![field] = value] : a \in @}]

heartbeat_agent(x, active) ==
    /\ agents[x] # {}
    /\ agents' = [agents EXCEPT ![x] = {[a EXCEPT !.stale = FALSE, !.reported_load = active] : a \in @}]
    /\ agents' # agents
    /\ UNCHANGED <<admission, episode, registrations, ages>>

\* The heartbeat timeout passes.
Ages(x) ==
    /\ ages < MaxAges
    /\ \E a \in agents[x] : ~a.stale
    /\ ages' = ages + 1
    /\ SetEntry(x, "stale", TRUE)
    /\ UNCHANGED <<admission, episode, registrations>>

\* A poll reserves a slot of its own agent, a completion gives it back.
try_reserve_exact_agent(x) ==
    /\ \E a \in agents[x] :
         /\ ~a.stale /\ effective_load(a) < capacity_of(a)
         /\ SetEntry(x, "reserved_load", a.reserved_load + 1)
    /\ UNCHANGED <<admission, episode, registrations, ages>>

decrement_load(x) ==
    /\ \E a \in agents[x] : a.reserved_load > 0 /\ SetEntry(x, "reserved_load", a.reserved_load - 1)
    /\ UNCHANGED <<admission, episode, registrations, ages>>

-----------------------------------------------------------------------------
(* Episodes.                                                               *)

\* The pool is resolved and its admission brought in line once, at submit.
Submit(e, req) ==
    /\ episode[e].at = "new"
    /\ LET p == resolve_pool_id(agents, req) IN
       IF p = NoPool
       THEN /\ episode' = [episode EXCEPT ![e] = [at |-> "ended", pool |-> 0]]
            /\ UNCHANGED admission
       ELSE /\ episode' = [episode EXCEPT ![e] = [at |-> "trying", pool |-> p]]
            /\ admission' = sync_pool_admission(agents, {p})
    /\ UNCHANGED <<agents, registrations, ages>>

try_acquire(e) ==
    /\ episode[e].at = "trying"
    /\ admission[episode[e].pool].free > 0
    /\ admission' = [admission EXCEPT ![episode[e].pool].free = @ - 1]
    /\ episode' = [episode EXCEPT ![e].at = "admitted"]
    /\ UNCHANGED <<agents, registrations, ages>>

\* Deadline or cancellation while trying.
GiveUp(e) ==
    /\ episode[e].at = "trying"
    /\ episode' = [episode EXCEPT ![e].at = "ended"]
    /\ UNCHANGED <<agents, admission, registrations, ages>>

EndEpisode(e) ==
    LET p == episode[e].pool  adm == admission[p] IN
    /\ episode[e].at = "admitted"
    /\ admission' = [admission EXCEPT ![p] = Absorb([adm EXCEPT !.free = adm.free + 1])]
    /\ episode' = [episode EXCEPT ![e].at = "ended"]
    /\ UNCHANGED <<agents, registrations, ages>>

-----------------------------------------------------------------------------
PoolInit ==
    /\ agents = [x \in Agents |-> {}]
    /\ admission = [p \in Pools |-> [granted |-> 0, free |-> 0, due |-> 0, debt |-> 0]]
    /\ episode = [e \in PoolEpisodes |-> [at |-> "new", pool |-> 0]]
    /\ registrations = 0 /\ ages = 0

PoolNext ==
    \/ \E x \in Agents :
         \/ \E offer \in Offers : register(x, offer)
         \/ \E active \in 0 .. 1 : heartbeat_agent(x, active)
         \/ Ages(x) \/ try_reserve_exact_agent(x) \/ decrement_load(x)
    \/ \E p \in Pools : ShrinkStarts(p)
    \/ \E e \in PoolEpisodes :
         \/ \E req \in Requests : Submit(e, req)
         \/ try_acquire(e) \/ GiveUp(e) \/ EndEpisode(e)

PoolSpec == PoolInit /\ [][PoolNext]_agentPoolVars

-----------------------------------------------------------------------------
\* As long as no agent fell silent every pool is granted exactly the capacity
\* of its agents, also after an agent moved from one pool to another.
GrantFollowsRegistrations ==
    ages = 0 => \A p \in Pools : admission[p].granted = pool_capacity(agents, p)

=============================================================================
