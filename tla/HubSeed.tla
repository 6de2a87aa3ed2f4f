------------------------------- MODULE HubSeed -------------------------------
(***************************************************************************)
(* What the Hub does before it serves (seed.rs, build_state): at every     *)
(* start it makes sure that its standard environments, example packages    *)
(* and stacks are published, on a database that may come from an earlier   *)
(* release, that users have changed since, and from sources beside it that *)
(* may have changed or be missing.                                         *)
(*                                                                         *)
(* Seeding is a fixed sequence of steps, each of them skipped when what it *)
(* publishes is there.  A package is published by putting its files under  *)
(* a directory of their version, each created anew, and then inserting its *)
(* row; an error there ends the seeding but not the start.  The process    *)
(* may be killed, or the database fail, between any two steps.             *)
(* A version is a number in precedence order, a digest is the content.     *)
(***************************************************************************)
EXTENDS Integers, Sequences, FiniteSets, FiniteSetsExt, Functions

CONSTANTS
    UserEnvs,       \* environments users change
    UserVersions,   \* versions they publish
    UserIdentities, \* what they set through the API
    Changing,       \* packages whose sources change
    Contents,       \* contents of a source file
    MaxChanges,     \* bound: changes by users and of the sources
    MaxStarts       \* bound: starts

VARIABLES
    envs,       \* rows of envs: [state, id]
    versions,   \* rows of env_versions: [version, yanked, pin, seeded]
    packages,   \* rows of the packages: their artifacts, at most one set each
    disk,       \* files under the directory of a package version
    sources,    \* files beside the Hub: [dir, files]
    stacks,     \* published stacks
    hub,        \* what the process does: [at, step, req, next]
    touched,    \* environments users changed since the start
    changes, starts

seedVars == <<envs, versions, packages, disk, sources, stacks, hub, touched, changes, starts>>
storeVars == <<envs, versions, packages, stacks>>

-----------------------------------------------------------------------------
(* What is seeded, in its order.  Version 0.2.0 is 20, 1.0.0 is 100.       *)

Env(e) == [do |-> "env", env |-> e]
EnvVersion(e, v) == [do |-> "version", env |-> e, version |-> v]
Yank(e) == [do |-> "yank", env |-> e, legacy |-> 100, current |-> 20]
Package(p) == [do |-> "package", package |-> p]
Stack(s) == [do |-> "stack", stack |-> s]

seed_envs ==
    <<Env("qa"), EnvVersion("qa", 20), EnvVersion("qa", 30), Yank("qa"), Env("math"), EnvVersion("math", 20), Yank("math"),
      Env("code"), EnvVersion("code", 20), Yank("code"), Env("swe"), EnvVersion("swe", 10), Env("agent"), EnvVersion("agent", 10),
      [do |-> "retire"]>>

seed_packages ==
    <<Package("verified"), Package("pro"), Package("smith"), Package("openhands"), Package("toolenv"), Package("rubric"),
      [do |-> "pin", package |-> "rubric", file |-> "main", env |-> "qa", version |-> 31],
      Package("math_smoke"), Package("dscodebench")>>

seed_episode_stacks == <<Stack("verified"), Stack("smith"), Stack("qa")>>

Steps == seed_envs \o seed_packages \o seed_episode_stacks

Id(life, by, aliases) == [life |-> life, by |-> by, aliases |-> aliases]
Identity ==
    [qa |-> Id("canonical", "none", {"math"}), math |-> Id("deprecated", "qa", {}), code |-> Id("canonical", "none", {}),
     swe |-> Id("canonical", "none", {"swebench"}), agent |-> Id("active", "none", {})]

\* BENCHMARKS_MISFILED_AS_ENVS, one of those for qa and the others.
Retired == [swebenchpro |-> "swe", dscodebench |-> "code", scitab |-> "qa"]
SeedEnvs == DOMAIN Identity \cup DOMAIN Retired

\* The files of a package in the order they are written, and which of them
\* come from its sources.
Catalog == [order |-> <<"main", "images", "tar">>, sources |-> {"main", "tar"}]
Bundle(S) == [order |-> <<"manifest", "main">>, sources |-> S]
PackagesOf ==
    [verified |-> Catalog, pro |-> Catalog, smith |-> Catalog, openhands |-> Bundle({"manifest", "main"}),
     toolenv |-> Bundle({"main"}), rubric |-> [order |-> <<"main">>, sources |-> {"main"}],
     math_smoke |-> Bundle({"main"}), dscodebench |-> Bundle({"main"})]

\* Environment and packages of a stack, its scaffold among them.
StacksOf ==
    [verified |-> [env |-> "swe", packages |-> {"openhands", "verified"}],
     smith |-> [env |-> "swe", packages |-> {"openhands", "smith"}], qa |-> [env |-> "qa", packages |-> {}]]

\* What the constants are: users change some of these environments, and their
\* sources are some of these packages'.
IsIdentity(id) == id = Id(id.life, id.by, id.aliases)
SeedConstants ==
    /\ UserEnvs \subseteq SeedEnvs /\ UserVersions \subseteq Nat
    /\ (\A id \in UserIdentities : IsIdentity(id)) /\ Changing \subseteq DOMAIN PackagesOf

NoPin == 0
Generated == 0    \* the content of a file the Hub writes itself
ListsArchives == 1       \* the content of a list of images that names an archive
Unparsed == 2       \* the content of a catalog that does not parse
Names == DOMAIN PackagesOf
NoFiles == [f \in {} |-> 0]
Down == [at |-> "down", step |-> 0, req |-> NoFiles, next |-> 0]

Row(v, pin) == [version |-> v, yanked |-> FALSE, pin |-> pin, seeded |-> TRUE]

\* An empty database, or that of an earlier release whose environments have
\* a placeholder version and no identity.
SeedInit ==
    /\ \E earlier \in BOOLEAN :
         /\ envs = [e \in SeedEnvs |-> [state |-> IF earlier THEN "live" ELSE "absent", id |-> Id("active", "none", {})]]
         /\ versions = [e \in SeedEnvs |-> IF earlier THEN {[Row(100, NoPin) EXCEPT !.seeded = FALSE]} ELSE {}]
    /\ \E dir \in BOOLEAN : sources =
         [p \in Names |-> [dir |-> dir, files |-> [f \in IF dir THEN PackagesOf[p].sources ELSE {} |-> 1]]]
    /\ packages = [p \in Names |-> {}] /\ stacks = {} /\ disk = [p \in Names |-> NoFiles]
    /\ hub = Down /\ touched = {} /\ changes = 0 /\ starts = 0

IsLive(e) == envs[e].state = "live"
Offered(e) == {r.version : r \in {x \in versions[e] : ~x.yanked}}
Latest(s) == IF s = {} THEN 0 ELSE Max(s)

\* GET versions/latest, a 404 being 0.
Resolved(e) == IF IsLive(e) THEN Latest(Offered(e)) ELSE 0
Published(p) == packages[p] # {}

-----------------------------------------------------------------------------
(* Steps on the database.                                                  *)

Step == Steps[hub.step]
Doing(kind) == hub.at = "seeding" /\ hub.step <= Len(Steps) /\ Step.do = kind
Advance == hub' = [hub EXCEPT !.step = @ + 1]

\* EnvPatch has no way to clear superseded_by.
Patched(old, new) == [new EXCEPT !.by = IF new.by = "none" THEN old.by ELSE new.by]

\* A missing row is created, a deleted one comes back with its versions, the
\* identity of a live one is put right.
ensure_env ==
    LET e == Step.env  id == Identity[e] IN
    /\ Doing("env") /\ Advance
    /\ envs' = [envs EXCEPT ![e] =
                    IF IsLive(e) THEN [envs[e] EXCEPT !.id = Patched(envs[e].id, id)]
                    ELSE [state |-> "live", id |-> id]]
    /\ UNCHANGED <<versions, packages, stacks, disk, sources, touched, changes, starts>>

With(e, v, pin) ==
    IF \E r \in versions[e] : r.version = v THEN versions
    ELSE [versions EXCEPT ![e] = @ \cup {Row(v, pin)}]

\* Yanks one version among the rows.
Yanking(rows, v) == {[r EXCEPT !.yanked = @ \/ r.version = v] : r \in rows}

ensure_env_version ==
    /\ Doing("version") /\ Advance
    /\ versions' = With(Step.env, Step.version, NoPin)
    /\ UNCHANGED <<envs, packages, stacks, disk, sources, touched, changes, starts>>

\* The placeholder of an earlier release would stay the highest version.
yank_legacy_placeholder ==
    LET e == Step.env IN
    /\ Doing("yank") /\ Advance
    /\ versions' = [versions EXCEPT ![e] =
                        IF {Step.legacy, Step.current} \subseteq Offered(e)
                        THEN Yanking(@, Step.legacy) ELSE @]
    /\ UNCHANGED <<envs, packages, stacks, disk, sources, touched, changes, starts>>

retire_benchmarks_registered_as_environments ==
    /\ Doing("retire") /\ Advance
    /\ envs' = [e \in SeedEnvs |->
                    IF e \in DOMAIN Retired /\ IsLive(e)
                    THEN [envs[e] EXCEPT !.id.life = "deprecated", !.id.by = Retired[e]] ELSE envs[e]]
    /\ UNCHANGED <<versions, packages, stacks, disk, sources, touched, changes, starts>>

-----------------------------------------------------------------------------
(* Packages.  Each kind has its own way to put a request together from     *)
(* what its sources hold now: none, or the files with their contents.      *)

Has(p, f) == f \in DOMAIN sources[p].files
Content(p, f) == sources[p].files[f]
NoRequest == {}

\* discover_swe_image_tars, build_images_manifest: the images file lists the
\* archives beside the catalog.
ImageList(p) == IF Has(p, "tar") THEN ListsArchives ELSE Generated

\* A catalog that is missing, or is not an object, is no package.
seed_swe_package(p) ==
    IF ~Has(p, "main") \/ Content(p, "main") = Unparsed THEN NoRequest
    ELSE {[f \in {"main", "images"} \cup {x \in {"tar"} : Has(p, x)} |->
             IF f = "images" THEN ImageList(p) ELSE Content(p, f)]}

\* What is there of the bundle; a manifest is written when it has none.
seed_agent_bridge_openhands(p) ==
    IF ~sources[p].dir THEN NoRequest
    ELSE {[f \in DOMAIN sources[p].files \cup {"manifest"} |->
             IF Has(p, f) THEN Content(p, f) ELSE Generated]}

\* What is there of a bundle, if anything, under a list written here.
WithList(p) ==
    IF ~sources[p].dir \/ sources[p].files = NoFiles THEN NoRequest
    ELSE {[f \in DOMAIN sources[p].files \cup {"manifest"} |->
             IF f = "manifest" THEN Generated ELSE Content(p, f)]}

seed_agent_bridge_toolenv == WithList("toolenv")
seed_math_smoke_fixtures == WithList("math_smoke")
seed_dscodebench_mvp == WithList("dscodebench")

\* The rules of the scorer are needed, its harness is not.
publish_qa_rubric_scorer(p) ==
    IF sources[p].dir /\ Has(p, "main") THEN {sources[p].files} ELSE NoRequest

Requests(p) ==
    CASE p \in {"verified", "pro", "smith"} -> seed_swe_package(p)
      [] p = "openhands" -> seed_agent_bridge_openhands(p)
      [] p = "toolenv" -> seed_agent_bridge_toolenv
      [] p = "rubric" -> publish_qa_rubric_scorer(p)
      [] p = "math_smoke" -> seed_math_smoke_fixtures
      [] p = "dscodebench" -> seed_dscodebench_mvp

RowFirstMutant ==
    LET p == Step.package IN
    /\ Doing("package")
    /\ \/ (Published(p) \/ Requests(p) = NoRequest) /\ Advance /\ UNCHANGED packages
       \/ ~Published(p)
          /\ \E r \in Requests(p) : /\ hub' = [hub EXCEPT !.at = "staging", !.req = r, !.next = 1]
                                   /\ packages' = [packages EXCEPT ![p] = {r}]
    /\ UNCHANGED <<envs, versions, stacks, disk, sources, touched, changes, starts>>

seed_package ==
    LET p == Step.package IN
    /\ Doing("package")
    /\ \/ (Published(p) \/ Requests(p) = NoRequest) /\ Advance
       \/ ~Published(p)
          /\ \E r \in Requests(p) : hub' = [hub EXCEPT !.at = "staging", !.req = r, !.next = 1]
    /\ UNCHANGED <<storeVars, disk, sources, touched, changes, starts>>

\* An error of a package ends the seeding, and the Hub serves.
SeedingEnds == hub' = [Down EXCEPT !.at = "serving"]

\* The archive is copied from its place when its turn comes, the other files
\* were read with the request.
Copied(p, f) ==
    IF f # "tar" THEN {hub.req[f]} ELSE IF Has(p, f) THEN {Content(p, f)} ELSE {}

\* A file that is there already, left by a process that was killed, is an error.
stage_seeded_artifact ==
    LET p == Step.package
        f == PackagesOf[p].order[hub.next] IN
    /\ hub.at = "staging" /\ hub.next <= Len(PackagesOf[p].order)
    /\ \/ f \notin DOMAIN hub.req /\ hub' = [hub EXCEPT !.next = @ + 1] /\ UNCHANGED disk
       \/ f \in DOMAIN hub.req /\ (f \in DOMAIN disk[p] \/ Copied(p, f) = {}) /\ SeedingEnds /\ UNCHANGED disk
       \/ f \in DOMAIN hub.req /\ f \notin DOMAIN disk[p]
          /\ \E c \in Copied(p, f) :
               /\ disk' = [disk EXCEPT ![p] = [g \in DOMAIN @ \cup {f} |-> IF g = f THEN c ELSE @[g]]]
               /\ hub' = [hub EXCEPT !.next = @ + 1, !.req[f] = c]
    /\ UNCHANGED <<storeVars, sources, touched, changes, starts>>

publish_package ==
    LET p == Step.package IN
    /\ hub.at = "staging" /\ hub.next > Len(PackagesOf[p].order)
    /\ packages' = [packages EXCEPT ![p] = {hub.req}]
    /\ hub' = [hub EXCEPT !.at = "seeding", !.step = @ + 1]
    /\ UNCHANGED <<envs, versions, stacks, disk, sources, touched, changes, starts>>

\* seed_qa_rubric_scorer, once the package is there: the new version of the
\* environment pins the digest that the published manifest has.
seed_qa_rubric_scorer ==
    LET p == Step.package  f == Step.file IN
    /\ Doing("pin") /\ Advance
    /\ versions' = IF \E a \in packages[p] : f \in DOMAIN a
                   THEN With(Step.env, Step.version, (CHOOSE a \in packages[p] : TRUE)[f])
                   ELSE versions
    /\ UNCHANGED <<envs, packages, stacks, disk, sources, touched, changes, starts>>

\* A stack is skipped as long as a component of it is not published.
ensure_stack ==
    LET s == StacksOf[Step.stack] IN
    /\ Doing("stack") /\ Advance
    /\ stacks' = stacks \cup {x \in {Step.stack} : Resolved(s.env) # 0 /\ \A p \in s.packages : Published(p)}
    /\ UNCHANGED <<envs, versions, packages, disk, sources, touched, changes, starts>>

-----------------------------------------------------------------------------
(* The process.                                                            *)

build_state ==
    /\ hub.at = "down" /\ starts < MaxStarts
    /\ hub' = [hub EXCEPT !.at = "seeding", !.step = 1]
    /\ starts' = starts + 1 /\ touched' = {}
    /\ UNCHANGED <<storeVars, disk, sources, changes>>

Serve ==
    /\ hub.at = "seeding" /\ hub.step > Len(Steps)
    /\ hub' = [Down EXCEPT !.at = "serving"]
    /\ UNCHANGED <<storeVars, disk, sources, touched, changes, starts>>

\* Killed, stopped, or a database error while it seeds the environments.
Stop ==
    /\ hub.at # "down" /\ hub' = Down
    /\ UNCHANGED <<storeVars, disk, sources, touched, changes, starts>>

-----------------------------------------------------------------------------
(* What users and operators do.                                            *)

Change == changes < MaxChanges /\ changes' = changes + 1
Touch(e) == Change /\ hub.at = "serving" /\ IsLive(e) /\ touched' = touched \cup {e}

UserPublishes(e, v) ==
    /\ Touch(e) /\ ~\E r \in versions[e] : r.version = v
    /\ versions' = [versions EXCEPT ![e] = @ \cup {[Row(v, NoPin) EXCEPT !.seeded = FALSE]}]
    /\ UNCHANGED <<envs, packages, stacks, disk, sources, hub, starts>>

UserYanks(e, v) ==
    /\ Touch(e) /\ v \in Offered(e)
    /\ versions' = [versions EXCEPT ![e] = Yanking(@, v)]
    /\ UNCHANGED <<envs, packages, stacks, disk, sources, hub, starts>>

UserPatches(e, id) ==
    /\ Touch(e)
    /\ envs' = [envs EXCEPT ![e].id = Patched(@, id)]
    /\ UNCHANGED <<versions, packages, stacks, disk, sources, hub, starts>>

UserDeletes(e) ==
    /\ Touch(e)
    /\ envs' = [envs EXCEPT ![e].state = "deleted"]
    /\ UNCHANGED <<versions, packages, stacks, disk, sources, hub, starts>>

\* The checkout beside the Hub is brought to another revision.
SourcesChange(p) ==
    /\ Change
    /\ \E S \in SUBSET PackagesOf[p].sources, c \in Contents :
          sources' = [sources EXCEPT ![p] = [dir |-> TRUE, files |-> [f \in S |-> c]]]
    /\ UNCHANGED <<storeVars, disk, hub, touched, starts>>

SeedNext ==
    \/ ensure_env \/ ensure_env_version \/ yank_legacy_placeholder
    \/ retire_benchmarks_registered_as_environments
    \/ seed_package \/ stage_seeded_artifact \/ publish_package \/ seed_qa_rubric_scorer \/ ensure_stack
    \/ build_state \/ Serve \/ Stop
    \/ \E e \in UserEnvs :
         \/ \E v \in UserVersions : UserPublishes(e, v)
         \/ \E v \in Offered(e) : UserYanks(e, v)
         \/ \E id \in UserIdentities : UserPatches(e, id)
         \/ UserDeletes(e)
    \/ \E p \in Changing : SourcesChange(p)

SeedSpec == SeedInit /\ [][SeedNext]_seedVars

-----------------------------------------------------------------------------
\* A version that pins the digest of a scorer pins bytes that this Hub serves,
\* although the file, the row and the pin are written by different steps,
\* perhaps of different starts between which the source file changed.
PinnedScorerIsServed ==
    \A i \in 1 .. Len(Steps) : Steps[i].do = "pin" =>
        LET s == Steps[i] IN
        \A r \in versions[s.env] : r.version = s.version /\ r.seeded =>
            /\ \E a \in packages[s.package] : s.file \in DOMAIN a /\ a[s.file] = r.pin
            /\ s.file \in DOMAIN disk[s.package] /\ disk[s.package][s.file] = r.pin

\* After a start every standard environment resolves, and not to the
\* placeholder of an earlier release, until a user changes it.  (Unless the
\* standard version itself has been yanked.)
StandardIsLatest ==
    hub.at = "serving" =>
        \A i \in 1 .. Len(Steps) : Steps[i].do = "yank" =>
            LET s == Steps[i] IN
            s.env \notin touched /\ s.current \in Offered(s.env) => Resolved(s.env) \notin {0, s.legacy}

\* After a start the standard environments have their identity again, except
\* a successor that a user set and that nothing can clear.
IdentityIsRestored ==
    hub.at = "serving" =>
        /\ \A e \in DOMAIN Identity \ touched :
             IsLive(e) /\ envs[e].id = Patched(envs[e].id, Identity[e])
        /\ \A e \in DOMAIN Retired \ touched : IsLive(e) => envs[e].id.by = Retired[e]

\* The files of a published package are on disk with the contents of its row,
\* although a start that was killed may have left files of older sources.
SeededBytes ==
    \A p \in Names : \A a \in packages[p] :
        \A f \in DOMAIN a : f \in DOMAIN disk[p] /\ disk[p][f] = a[f]

\* Together: what a started Hub offers under its standard names.
SeededIsOffered == SeededBytes /\ PinnedScorerIsServed /\ StandardIsLatest /\ IdentityIsRestored

=============================================================================
