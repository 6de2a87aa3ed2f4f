------------------------------ MODULE EnvRelease ------------------------------
(***************************************************************************)
(* The commands of `uenv env` that bring an environment from its sources to*)
(* the Hub: import a manifest, label and build its image, align the scorer *)
(* with the production rules, pin those rules in the manifest, pass the    *)
(* gate, publish, and fetch the pinned rules again.                        *)
(*                                                                         *)
(* The aligner, the container engine and the developer's editor are        *)
(* external; a content of the rules is a number, which stands for its      *)
(* digest as well.  A command that fails leaves everything as it was.      *)
(***************************************************************************)
EXTENDS EnvImport

CONSTANTS
    Projects,    \* directories: [dockerfile, compose, openenv, models, requirements], each of the first four optional
    Contracts,   \* contents of an explicit --interface file
    Options,     \* [env_type, version, registry] of an import
    Images,      \* inspect data of images built elsewhere
    Metrics,     \* [consistent, over, agrees] an alignment may measure
    Lifecycles,  \* what a developer may declare of the environment's lifecycle
    Evidence,    \* versions of the evidence package
    ProjectEvidence, \* None, or what a project holds for offline use: [wheels, pyc, mismatch]
    Allowlists,  \* lists of the intranet's registries
    MaxRules,    \* bound on the edits of the rules
    MaxPublished \* bound on the published versions

VARIABLES
    project, manifest, image, rules, report,
    evidence,    \* evidence version -> the rules hosted with it, optional
    published,   \* version -> manifest
    identity,    \* lifecycle of the environment on the Hub, optional
    fetched      \* [version, rules] of the last verified fetch

releaseVars == <<project, manifest, image, rules, report, evidence, published, identity, fetched>>

ReleaseInit ==
    /\ project \in Projects
    /\ image \in {None} \union {{[inspect |-> i, of |-> None]} : i \in Images}
    /\ manifest = None /\ rules = 1 /\ report = None
    /\ evidence = [v \in {} |-> None] /\ published = [v \in {} |-> None] /\ identity = None /\ fetched = None

-----------------------------------------------------------------------------
(* Imports.                                                                *)

\* An existing manifest is replaced only with --force.
WriteManifest(made, force) ==
    /\ manifest = None \/ force
    /\ \E m \in made : manifest' = {m}

run_import_openenv(opts, force) ==
    /\ WriteManifest(UNION {openenv_convert(spec, project.models, opts, project.requirements) :
                                spec \in UNION {from_yaml(doc) : doc \in project.openenv}}, force)
    /\ UNCHANGED <<project, image, rules, report, evidence, published, identity, fetched>>

\* A directory gives its Dockerfile and its compose file, a .json file only the
\* inspect data it holds; --inspect adds them to a directory.
ContainerSource(use) ==
    [dockerfile |-> IF use = "inspect" THEN None ELSE {parse_dockerfile(d) : d \in project.dockerfile},
     inspect |-> IF use = "directory" THEN None ELSE {i.inspect : i \in image},
     compose |-> IF use = "inspect" THEN None ELSE UNION {parse_compose(s, None) : s \in project.compose}]

SourceIsRead(use) ==
    /\ use # "directory" => image # None
    /\ use # "inspect" /\ project.compose # None => ContainerSource(use).compose # None
    /\ \E part \in {"dockerfile", "inspect", "compose"} : ContainerSource(use)[part] # None

\* An explicit schema file goes before models.py, which only a directory has.
contract(use, explicit) ==
    OrElse(explicit, IF use = "inspect" THEN None ELSE {interface_from_models(c) : c \in project.models})

run_import_docker(use, explicit, opts, force) ==
    /\ SourceIsRead(use)
    /\ WriteManifest(container_convert(ContainerSource(use), contract(use, explicit), opts,
                                       use # "inspect" /\ project.requirements), force)
    /\ UNCHANGED <<project, image, rules, report, evidence, published, identity, fetched>>

-----------------------------------------------------------------------------
(* Labels and image.                                                       *)

\* What the manifest declares, and nothing else, becomes a label.
run_emit_labels(m) ==
    LET sides == {k \in Sides : m.interface[k] # None}
        optional == {k \in {"entrypoint", "health_path"} :
                        (IF k = "entrypoint" THEN m.entrypoint ELSE m.health) # None}
    IN  [k \in {"env_type", "version"} \union sides \union optional |->
            CASE k = "env_type" -> m.env_type [] k = "version" -> m.version
              [] k = "entrypoint" -> The(m.entrypoint) [] k = "health_path" -> The(m.health)
              [] OTHER -> The(m.interface[k])]

\* The engine keeps the configuration of the last stage and reads quoted
\* values as they were meant.
BuiltConfig(src) ==
    LET Step(c, i) == Instruction(IF i.kw = "FROM" THEN [EmptySpec EXCEPT !.vars = c.vars] ELSE c,
                                  [i EXCEPT !.escaped = FALSE])
    IN  FoldLeft(Step, EmptySpec, src)

\* `build -t <image>` with those labels over the Dockerfile's own.  The image
\* may have another tag.
EnvBuild(m, other) ==
    LET df == IF project.dockerfile = None THEN EmptySpec ELSE BuiltConfig(The(project.dockerfile))
    IN  [inspect |-> [repo_tags |-> SetToSeq(other) \o <<The(m.image)>>, repo_digests |-> <<>>,
                      top_level_digest |-> FALSE, id |-> {"built"}, entrypoint |-> df.entrypoint, cmd |-> df.cmd,
                      healthcheck |-> df.healthcheck, labels |-> Over(run_emit_labels(m), df.labels)],
         of |-> {m}]

Build(other) ==
    /\ \E m \in manifest : m.image # None /\ image' = {EnvBuild(m, other)}
    /\ UNCHANGED <<project, manifest, rules, report, evidence, published, identity, fetched>>

-----------------------------------------------------------------------------
(* Rules, alignment and evidence.                                          *)

EditRules ==
    /\ rules < MaxRules
    /\ rules' = rules + 1
    /\ UNCHANGED <<project, manifest, image, report, evidence, published, identity, fetched>>

\* The aligner says which rules it measured, or (an older one) does not.
Align(m, named) ==
    /\ report' = {[metrics |-> m, rules |-> IF named THEN {rules} ELSE None]}
    /\ UNCHANGED <<project, manifest, image, rules, evidence, published, identity, fetched>>

\* A version of a package is published once.
run_publish_rubric(v, scorer) ==
    /\ report # None
    /\ v \notin DOMAIN evidence
    /\ evidence' = Over([w \in {v} |-> IF scorer THEN {rules} ELSE None], evidence)
    /\ UNCHANGED <<project, manifest, image, rules, report, published, identity, fetched>>

DigestUncheckedMutant(r) == TRUE
\* The rules that are pinned are the ones the report says it measured.
MeasuredDigest(r) == r.rules \in {None, {rules}}

\* The coordinate of the rules is not looked up: what the package holds shows
\* when they are fetched.
run_rubric_import(ref) ==
    /\ \E m \in manifest, r \in report :
        LET scorer == {[version |-> v, digest |-> rules] : v \in ref}
            spec == [metrics |-> {r.metrics}, digests |-> TRUE, scorer |-> scorer, measured |-> r.rules]
        IN  /\ ref # None => MeasuredDigest(r)
            /\ rubric_validate(spec)
            /\ manifest' = {[m EXCEPT !.rubric = {spec}]}
    /\ UNCHANGED <<project, image, rules, report, evidence, published, identity, fetched>>

\* The Hub serves what the package holds under the artifact's name; only bytes
\* with the pinned digest are written.
run_fetch_scorer(v) ==
    /\ v \in DOMAIN published
    /\ \E r \in published[v].rubric : \E s \in r.scorer :
        /\ s.version \in DOMAIN evidence
        /\ \E bytes \in evidence[s.version] :
            bytes = s.digest /\ fetched' = {[version |-> v, rules |-> bytes]}
    /\ UNCHANGED <<project, manifest, image, rules, report, evidence, published, identity>>

-----------------------------------------------------------------------------
(* Gate and publication.                                                   *)

\* The gate only reports: it reads the models, the wheels and the compiled
\* files of the project when one is given, and publication does not ask it.
run_conformance_gate(m, allow, strict, offline) ==
    LET answer == conformance(m, IF offline = None THEN None ELSE project.models, offline, allow)
    IN  IF strict THEN answer.strict ELSE answer.passed

\* The developer declares the identity in the manifest.
DeclareIdentity(l) ==
    /\ manifest' = {[m EXCEPT !.lifecycle = {l}] : m \in manifest}
    /\ UNCHANGED <<project, image, rules, report, evidence, published, identity, fetched>>

\* Only what the manifest declares changes the identity: an imported one
\* declares nothing.
identity_patch(m) == OrElse(m.lifecycle, identity)

\* The first publication creates the environment.
publish_manifest ==
    /\ \E m \in manifest :
        /\ Cardinality(DOMAIN published) < MaxPublished
        /\ validate_manifest(m)
        /\ m.version \notin DOMAIN published
        /\ identity' = OrElse(identity_patch(m), {"active"})
        /\ published' = Over([v \in {m.version} |-> m], published)
    /\ UNCHANGED <<project, manifest, image, rules, report, evidence, fetched>>

ReleaseNext ==
    \/ \E o \in Options, force \in BOOLEAN : run_import_openenv(o, force)
    \/ \E use \in {"directory", "both", "inspect"}, c \in Contracts, o \in Options, force \in BOOLEAN :
        run_import_docker(use, c, o, force)
    \/ \E other \in {None, {[host |-> "none", name |-> "other", tag |-> "latest"]},
                     {[host |-> "public", name |-> "other", tag |-> "latest"]}} : Build(other)
    \/ EditRules
    \/ \E m \in Metrics, named \in BOOLEAN : Align(m, named)
    \/ \E v \in Evidence, scorer \in BOOLEAN : run_publish_rubric(v, scorer)
    \/ \E ref \in {None} \union {{v} : v \in Evidence} : run_rubric_import(ref)
    \/ \E l \in Lifecycles : DeclareIdentity(l)
    \/ publish_manifest
    \/ \E v \in DOMAIN published : run_fetch_scorer(v)

ReleaseSpec == ReleaseInit /\ [][ReleaseNext]_releaseVars

-----------------------------------------------------------------------------
(* Properties.                                                             *)

\* The manifest that an import from the image alone would write.
Reimported(i) ==
    container_convert([dockerfile |-> None, inspect |-> {i}, compose |-> None], None,
                      [env_type |-> None, version |-> None, registry |-> None], FALSE)

\* An image built with the labels of a manifest describes itself: an import
\* from the image alone gives back everything a valid manifest declared of the
\* environment's name, version, contract and start, and what passed the gate
\* passes it again (unless somebody gave the image a public tag).
ImageDescribesItself ==
    \A b \in image : \A m \in b.of : validate_manifest(m) =>
        \E n \in Reimported(b.inspect) :
            /\ n.env_type = m.env_type /\ n.version = m.version
            /\ \A k \in Sides : m.interface[k] \subseteq n.interface[k]
            /\ m.entrypoint \subseteq n.entrypoint /\ m.health \subseteq n.health
            /\ \A allow \in Allowlists, strict \in BOOLEAN :
                (/\ \E offline \in ProjectEvidence : run_conformance_gate(m, allow, strict, offline)
                 /\ \A t \in DOMAIN b.inspect.repo_tags : ~public_registry_of(b.inspect.repo_tags[t]))
                    => run_conformance_gate(n, allow, strict, None)

\* An import that reported nothing passes the gate: what the importers warn of
\* covers what the gate refuses, except a schema that does not compile and a
\* base image that only a label names, which the importers take as they are.
CleanImportPasses ==
    \A m \in manifest :
        (/\ m.findings = {} /\ m.rubric = None
         /\ ~Broken(m)
         /\ m.base = None \/ project.dockerfile # None)
            => run_conformance_gate(m, {}, FALSE, None)

\* Rules that fetch-scorer verified are the ones the published report was
\* measured with, when the aligner said which: neither an edit of the rules
\* after the alignment nor another evidence package gets through.
FetchedRulesWereMeasured ==
    \A f \in fetched : \A r \in published[f.version].rubric : r.measured \in {None, {f.rules}}

=============================================================================
