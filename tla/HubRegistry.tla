----------------------------- MODULE HubRegistry -----------------------------
(***************************************************************************)
(* The environment and stack registry of uenv-hub (repository.rs, the      *)
(* write orchestration in service.rs, stack.rs and the sync endpoint).     *)
(*                                                                         *)
(* A handler is a sequence of store calls: reads take one connection of    *)
(* the pool each, a transaction is atomic (SQLite serialises the writers,  *)
(* and a version is unique per environment by constraint).  What a handler *)
(* read before its transaction may be out of date when the transaction     *)
(* runs.  Versions are numbers in precedence order; a constraint is the    *)
(* set of versions it matches.  Packages and their versions are only       *)
(* added; the staging of their files is PackagePublish.                    *)
(***************************************************************************)
EXTENDS Integers, FiniteSets, FiniteSetsExt

CONSTANTS
    Envs,           \* environment types
    Packages,       \* agent scaffold packages
    EnvVersions,    \* versions, ordered as numbers
    PreReleases,    \* those with a pre-release tag
    Stacks,         \* requests for an episode stack: [id, mode, env, wants, pkg, gateway]
    GatewayBound,   \* environments that run on another host than the agent
    Drives(_, _),   \* environments that version v of scaffold p declares
    Calls,          \* concurrent requests
    Recorded,       \* kinds of audit entries kept in this instance
    MaySync,        \* whether a mirror follows the registry in this instance
    MaxClock,       \* bound: seconds
    MaxYanks        \* bound: yanks and deletions

RegistryConstants == EnvVersions \subseteq Nat \ {0} /\ IsFiniteSet(EnvVersions)

Unset == "none"
NoVersion == 0
AnyLatest == {}     \* the constraint "latest"
NoCall == [op |-> "idle"]

VARIABLES
    env,        \* rows of envs: [state, latest, updated]
    ver,        \* rows of env_versions per environment
    pkg,        \* versions of each package; latest is the highest of them
    stack,      \* rows of episode_stack_versions
    call,       \* the request each handler works on
    audit,      \* audit log: what was recorded of which resource
    clock,
    yanks,
    sync        \* the mirror of a server: [since, seen, pending]

registryVars == <<env, ver, pkg, stack, call, audit, clock, yanks, sync>>

-----------------------------------------------------------------------------
(* version.rs                                                              *)
Highest(vs) == IF vs = {} THEN NoVersion ELSE Max(vs)

\* The highest release, or the highest pre-release when there is no release.
latest(vs) == IF vs \ PreReleases # {} THEN Highest(vs \ PreReleases) ELSE Highest(vs)

\* The highest version that satisfies a constraint.
resolve(vs, constraint) == Highest(vs \intersect constraint)

-----------------------------------------------------------------------------
(* Reads.                                                                  *)
Live(e) == env[e].state = "live"
version_strings(e) == {r.version : r \in {x \in ver[e] : ~x.yanked}}

latest_eligible_versions(e, rows) == {r.version : r \in {x \in rows : ~x.yanked /\ x.eligible}}

\* What a consumer gets: none when the environment is deleted or nothing
\* qualifies.
latest_manifest(e) == IF Live(e) THEN latest(latest_eligible_versions(e, ver[e])) ELSE NoVersion
resolve_manifest(e, constraint) == IF Live(e) THEN resolve(version_strings(e), constraint) ELSE NoVersion

task_env_facts(e, wants) == IF wants = AnyLatest THEN latest_manifest(e) ELSE resolve_manifest(e, wants)
scaffold_facts(p) == latest(pkg[p])

Eligible(e, v) == \E r \in ver[e] : r.version = v /\ r.eligible

\* The structural check: a scaffold is declared in agent mode and only there.
validate(s) == (s.mode = "agent") <=> (s.pkg # Unset)

\* cross_check: a version pinned by a constraint must not be barred by the
\* gate, the scaffold must list the environment, and its commands must reach
\* the host of the environment.
cross_check(s, v, pv) ==
    /\ s.wants = AnyLatest \/ Eligible(s.env, v)
    /\ s.pkg # Unset => Drives(s.pkg, pv) = {} \/ s.env \in Drives(s.pkg, pv)
    /\ s.mode = "agent" /\ s.env \in GatewayBound => s.gateway

-----------------------------------------------------------------------------
(* Transactions.                                                           *)
Recompute(e, rows) == latest(latest_eligible_versions(e, rows))

YankKeepsLatestMutant(e, rows, ts) ==
    /\ ver' = [ver EXCEPT ![e] = rows]
    /\ env' = [env EXCEPT ![e].updated = ts]

\* Every transaction that changes the versions recomputes latest_version.
SetVersions(e, rows, ts) ==
    /\ ver' = [ver EXCEPT ![e] = rows]
    /\ env' = [env EXCEPT ![e].latest = Recompute(e, rows), ![e].updated = ts]

Begin(c, r) == call[c] = NoCall /\ call' = [call EXCEPT ![c] = r]
End(c) == call' = [call EXCEPT ![c] = NoCall]
ToAudit(c, what, which) == call' = [call EXCEPT ![c] = [op |-> "audit", what |-> what, which |-> which]]

\* create_env on a deleted environment: the row comes back with its versions.
resurrect_env(c, e) ==
    /\ env[e].state = "deleted"
    /\ env' = [env EXCEPT ![e].state = "live", ![e].updated = clock]
    /\ ToAudit(c, "create", <<e, NoVersion>>)
    /\ UNCHANGED <<ver, pkg, stack, audit, clock, yanks, sync>>

create_env(c, e) ==
    /\ call[c] = NoCall
    /\ env[e].state = "absent"
    /\ env' = [env EXCEPT ![e] = [state |-> "live", latest |-> NoVersion, updated |-> clock]]
    /\ ToAudit(c, "create", <<e, NoVersion>>)
    /\ UNCHANGED <<ver, pkg, stack, audit, clock, yanks, sync>>

update_env(c, e) ==
    /\ call[c] = NoCall
    /\ Live(e)
    /\ env' = [env EXCEPT ![e].updated = clock]
    /\ ToAudit(c, "update", <<e, NoVersion>>)
    /\ UNCHANGED <<ver, pkg, stack, audit, clock, yanks, sync>>

soft_delete_env(c, e) ==
    /\ call[c] = NoCall
    /\ yanks < MaxYanks
    /\ Live(e)
    /\ env' = [env EXCEPT ![e].state = "deleted", ![e].updated = clock]
    /\ ToAudit(c, "delete", <<e, NoVersion>>)
    /\ yanks' = yanks + 1
    /\ UNCHANGED <<ver, pkg, stack, audit, clock, sync>>

\* service::publish_version up to the check of its dependency: the
\* environment is live and another live one satisfies the constraint.
publish_version(c, e, v, eligible, dep) ==
    /\ Live(e)
    /\ dep # Unset => dep # e /\ resolve_manifest(dep, EnvVersions) # NoVersion
    /\ Begin(c, [op |-> "version", env |-> e, version |-> v, eligible |-> eligible])
    /\ UNCHANGED <<env, ver, pkg, stack, audit, clock, yanks, sync>>

\* publish_version_gated up to the transaction: the row is found again, the
\* version is new, and the time is taken.
CheckNew(c) ==
    /\ call[c].op = "version"
    /\ LET r == call[c]
       IN  IF Live(r.env) /\ ~\E x \in ver[r.env] : x.version = r.version
           THEN call' = [call EXCEPT ![c] = [op |-> "insert", env |-> r.env, version |-> r.version,
                                             eligible |-> r.eligible, ts |-> clock]]
           ELSE End(c)
    /\ UNCHANGED <<env, ver, pkg, stack, audit, clock, yanks, sync>>

\* The transaction: the unique constraint makes it fail when another call
\* published the version meanwhile.
publish_version_gated(c) ==
    /\ call[c].op = "insert"
    /\ LET r == call[c]
           row == [version |-> r.version, eligible |-> r.eligible, yanked |-> FALSE, at |-> r.ts]
       IN  IF \E x \in ver[r.env] : x.version = r.version
           THEN /\ End(c)
                /\ UNCHANGED <<env, ver>>
           ELSE /\ SetVersions(r.env, ver[r.env] \union {row}, r.ts)
                /\ ToAudit(c, "publish", <<r.env, r.version>>)
    /\ UNCHANGED <<pkg, stack, audit, clock, yanks, sync>>

yank_version(c, e, v) ==
    /\ call[c] = NoCall
    /\ yanks < MaxYanks
    /\ Live(e)
    /\ \E x \in ver[e] : x.version = v
    /\ SetVersions(e, {IF x.version = v THEN [x EXCEPT !.yanked = TRUE] ELSE x : x \in ver[e]}, clock)
    /\ ToAudit(c, "yank", <<e, v>>)
    /\ yanks' = yanks + 1
    /\ UNCHANGED <<pkg, stack, audit, clock, sync>>

publish_package_version(c, p, v) ==
    /\ call[c] = NoCall
    /\ v \notin pkg[p]
    /\ pkg' = [pkg EXCEPT ![p] = @ \union {v}]
    /\ ToAudit(c, "publish", <<p, v>>)
    /\ UNCHANGED <<env, ver, stack, audit, clock, yanks, sync>>

-----------------------------------------------------------------------------
(* Episode stacks.                                                         *)

\* service::publish_stack: the references resolve, one read after the other,
\* and pair; then the row is inserted.
StackReadsEnv(c, s) ==
    /\ validate(s)
    /\ task_env_facts(s.env, s.wants) # NoVersion
    /\ Begin(c, [op |-> "stack", stack |-> s, v |-> task_env_facts(s.env, s.wants)])
    /\ UNCHANGED <<env, ver, pkg, stack, audit, clock, yanks, sync>>

StackChecks(c) ==
    /\ call[c].op = "stack"
    /\ LET s == call[c].stack
           pv == IF s.pkg = Unset THEN NoVersion ELSE scaffold_facts(s.pkg)
       IN  IF (s.pkg = Unset \/ pv # NoVersion) /\ cross_check(s, call[c].v, pv)
           THEN call' = [call EXCEPT ![c].op = "stackinsert"]
           ELSE End(c)
    /\ UNCHANGED <<env, ver, pkg, stack, audit, clock, yanks, sync>>

publish_stack(c) ==
    /\ call[c].op = "stackinsert"
    /\ LET s == call[c].stack
       IN  IF \E x \in stack : x.id = s.id
           THEN /\ End(c)
                /\ UNCHANGED stack
           ELSE /\ stack' = stack \union {[id |-> s.id, env |-> s.env, wants |-> s.wants,
                                           pkg |-> s.pkg, yanked |-> FALSE]}
                /\ ToAudit(c, "publish", <<s.id, NoVersion>>)
    /\ UNCHANGED <<env, ver, pkg, audit, clock, yanks, sync>>

\* The route calls the store itself; no audit entry follows.
yank_stack(x) ==
    /\ yanks < MaxYanks
    /\ x \in stack
    /\ stack' = (stack \ {x}) \union {[x EXCEPT !.yanked = TRUE]}
    /\ yanks' = yanks + 1
    /\ UNCHANGED <<env, ver, pkg, call, audit, clock, sync>>

\* resolve_stack finds a version for every component.
Resolves(x) ==
    /\ task_env_facts(x.env, x.wants) # NoVersion
    /\ x.pkg # Unset => scaffold_facts(x.pkg) # NoVersion

-----------------------------------------------------------------------------
(* Audit and incremental sync.                                             *)
AuditEntry(c) ==
    /\ call[c].op = "audit"
    /\ \/ audit' = audit \union ({<<call[c].what, call[c].which>>} \intersect (Recorded \X {call[c].which}))
       \/ UNCHANGED audit                       \* the insert failed, or the handler was dropped
    /\ End(c)
    /\ UNCHANGED <<env, ver, pkg, stack, clock, yanks, sync>>

changed_since(ts) ==
    UNION {{<<e, r.version>> : r \in {x \in ver[e] : x.at > ts \/ env[e].updated > ts}} :
              e \in {x \in Envs : Live(x)}}

\* list_envs?since: the rows are read first and the time is taken afterwards.
SyncQuery ==
    /\ MaySync
    /\ sync.pending = Unset
    /\ sync' = [sync EXCEPT !.seen = @ \union changed_since(sync.since),
                            !.pending = "time"]
    /\ UNCHANGED <<env, ver, pkg, stack, call, audit, clock, yanks>>

SyncReply ==
    /\ sync.pending = "time"
    /\ sync' = [sync EXCEPT !.since = clock, !.pending = Unset]
    /\ UNCHANGED <<env, ver, pkg, stack, call, audit, clock, yanks>>

Tick ==
    /\ clock < MaxClock
    /\ clock' = clock + 1
    /\ UNCHANGED <<env, ver, pkg, stack, call, audit, yanks, sync>>

-----------------------------------------------------------------------------
RegistryInit ==
    /\ env = [e \in Envs |-> [state |-> "absent", latest |-> NoVersion, updated |-> 0]]
    /\ ver = [e \in Envs |-> {}]
    /\ pkg = [p \in Packages |-> {}]
    /\ stack = {}
    /\ call = [c \in Calls |-> NoCall]
    /\ audit = {}
    /\ clock = 1
    /\ yanks = 0
    /\ sync = [since |-> 0, seen |-> {}, pending |-> Unset]

Handle(c) ==
    \/ \E e \in Envs :
        \/ create_env(c, e) \/ update_env(c, e) \/ soft_delete_env(c, e)
        \/ call[c] = NoCall /\ resurrect_env(c, e)
        \/ \E v \in EnvVersions, b \in BOOLEAN, d \in Envs \union {Unset} : publish_version(c, e, v, b, d)
        \/ \E v \in EnvVersions : yank_version(c, e, v)
    \/ CheckNew(c) \/ publish_version_gated(c) \/ AuditEntry(c)
    \/ \E p \in Packages, v \in EnvVersions : publish_package_version(c, p, v)
    \/ \E s \in Stacks : StackReadsEnv(c, s)
    \/ StackChecks(c) \/ publish_stack(c)

RegistryNext ==
    \/ \E c \in Calls : Handle(c)
    \/ \E x \in stack : yank_stack(x)
    \/ SyncQuery \/ SyncReply \/ Tick

RegistrySpec == RegistryInit /\ [][RegistryNext]_registryVars

-----------------------------------------------------------------------------
(* Properties.                                                             *)

\* Types: rows name known versions, one row per version.
RegistryTypeOK ==
    /\ \A e \in Envs :
        /\ env[e].state \in {"absent", "live", "deleted"}
        /\ env[e].latest \in EnvVersions \union {NoVersion}
        /\ \A r \in ver[e] : r.version \in EnvVersions /\ r.eligible \in BOOLEAN /\ r.yanked \in BOOLEAN
        /\ \A r, x \in ver[e] : r.version = x.version => r = x
    /\ \A p \in Packages : pkg[p] \subseteq EnvVersions

\* latest_version of the row is what resolving latest would compute: the
\* highest release that is neither yanked nor barred by the gate, in every
\* order of concurrent publishes, yanks, deletions and resurrections.
LatestIsEligible ==
    \A e \in Envs :
        LET open == {r \in ver[e] : ~r.yanked /\ r.eligible}
        IN  IF open = {}
            THEN env[e].latest = NoVersion
            ELSE /\ \E r \in open : r.version = env[e].latest
                 /\ \A r \in open : r.version > env[e].latest => r.version \in PreReleases
                 /\ env[e].latest \in PreReleases => \A r \in open : r.version \in PreReleases

\* A mirror that asks for the changes since the time of its last answer has
\* got every version published by that time.
SyncMissesNothing ==
    sync.pending = Unset =>
        \A e \in Envs : \A r \in ver[e] :
            Live(e) /\ env[e].updated <= sync.since => <<e, r.version>> \in sync.seen

\* A stack that passed the checks of its publication can still be launched.
StacksStayLaunchable == \A x \in stack : ~x.yanked => Resolves(x)

\* Every withdrawal of a stack is in the audit log once no handler is at work.
MutationsAreAudited ==
    (\A c \in Calls : call[c] = NoCall) => \A x \in stack : x.yanked => <<"yank", <<x.id, NoVersion>>>> \in audit

=============================================================================
