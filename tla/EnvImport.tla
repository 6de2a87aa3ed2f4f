------------------------------ MODULE EnvImport ------------------------------
(***************************************************************************)
(* The importers of uenv-hub: a container source (a Dockerfile, the inspect*)
(* data of an image, a compose service) or an OpenEnv project becomes a    *)
(* manifest (container.rs, openenv.rs), and the conformance gate judges a  *)
(* manifest (manifest.rs, conformance.rs, rubric.rs).                      *)
(*                                                                         *)
(* An optional value is the empty set or a set of one.  A reference to an  *)
(* image is [host, name, tag]: host is "none" when the reference names no  *)
(* registry, "public" for a registry of PUBLIC_REGISTRIES, else the host.  *)
(* A schema is [form, props]: the names of its properties, and whether it  *)
(* is an "object", does not compile as a schema ("broken"), is JSON that is*)
(* no object ("scalar") or text that is no JSON ("garbled").               *)
(***************************************************************************)
EXTENDS Naturals, Sequences, FiniteSets, SequencesExt

Sides == {"action", "observation", "state"}
None == {}
OrElse(x, y) == IF x # None THEN x ELSE y
The(x) == CHOOSE v \in x : TRUE
FirstOf(s) == IF s = <<>> THEN None ELSE {Head(s)}
Get(f, k) == IF k \in DOMAIN f THEN {f[k]} ELSE None
Over(f, g) == [k \in DOMAIN f \union DOMAIN g |-> IF k \in DOMAIN f THEN f[k] ELSE g[k]]
NoLabels == [k \in {} |-> None]

-----------------------------------------------------------------------------
(* manifest.rs: what a reference points to.                                *)

public_registry_of(r) == r.host = "public"
resolves_to_docker_hub(r) == r.host = "none"
is_semver(v) == v \notin {"22.04", "latest"}

-----------------------------------------------------------------------------
(* The Dockerfile: a sequence of instructions [kw, key, val]; the value of *)
(* FROM is [var, or]: a literal when var is None, else a variable and its  *)
(* default.                                                                *)

\* An unknown variable without a default is left as it is written: a name
\* without a registry host.
expand_vars(e, vars) ==
    CASE e.var = None -> The(e.or)
      [] e.var # None /\ The(e.var) \in DOMAIN vars -> vars[The(e.var)]
      [] e.var # None /\ The(e.var) \notin DOMAIN vars /\ e.or # None -> The(e.or)
      [] OTHER -> [host |-> "none", name |-> "$var", tag |-> "latest"]

\* A quoted value loses its quotes but not the escapes inside it: a schema
\* written as a JSON string is not JSON when it is read back.
unquote_word(i) == IF i.escaped THEN [form |-> "garbled", props |-> {}] ELSE i.val

network_reason(i) == i.val = "online"

EmptySpec == [stages |-> <<>>, vars |-> NoLabels, labels |-> NoLabels, entrypoint |-> None, cmd |-> None,
              healthcheck |-> None, requirements |-> FALSE, network |-> FALSE]

Instruction(spec, i) ==
    CASE i.kw \in {"ARG", "ENV"} -> [spec EXCEPT !.vars = Over([k \in {i.key} |-> expand_vars(i.val, spec.vars)], @)]
      [] i.kw = "FROM" -> [spec EXCEPT !.stages = Append(@, expand_vars(i.val, spec.vars))]
      [] i.kw = "LABEL" -> [spec EXCEPT !.labels = Over([k \in {i.key} |-> unquote_word(i)], @)]
      [] i.kw = "ENTRYPOINT" -> [spec EXCEPT !.entrypoint = {i.val}]
      [] i.kw = "CMD" -> [spec EXCEPT !.cmd = {i.val}]
      [] i.kw = "HEALTHCHECK" -> [spec EXCEPT !.healthcheck = IF i.val = "NONE" THEN None ELSE {i.val}]
      [] i.kw = "COPY" -> [spec EXCEPT !.requirements = @ \/ i.val = "requirements.txt"]
      [] i.kw = "RUN" -> [spec EXCEPT !.network = @ \/ network_reason(i)]
      [] OTHER -> spec

parse_dockerfile(src) == FoldLeft(Instruction, EmptySpec, src)

\* The image of the last stage; it may be the name of an earlier stage.
runtime_base(spec) == IF spec.stages = <<>> THEN None ELSE {Last(spec.stages)}

\* Only a probe over HTTP names a path.
extract_health_path(cmd) == IF cmd \in {"/health", "/ready"} THEN {cmd} ELSE None

-----------------------------------------------------------------------------
(* Inspect data of an image and a compose service.                         *)

pinned_ref(ins) == OrElse(FirstOf(ins.repo_digests), FirstOf(ins.repo_tags))

manifest_digest(ins) == IF ins.repo_digests # <<>> \/ ins.top_level_digest THEN {"manifest"} ELSE None

\* The first tag of an explicit private host, else of a public registry, else
\* one without a host.
launchable_tag(ins) ==
    LET Rank(r) == IF public_registry_of(r) THEN 1 ELSE IF resolves_to_docker_hub(r) THEN 2 ELSE 0
        least(i) == \A j \in DOMAIN ins.repo_tags :
                        \/ Rank(ins.repo_tags[j]) > Rank(ins.repo_tags[i])
                        \/ Rank(ins.repo_tags[j]) = Rank(ins.repo_tags[i]) /\ j >= i
    IN  {ins.repo_tags[i] : i \in {j \in DOMAIN ins.repo_tags : least(j)}}

\* Of several services one must be named: nothing is guessed.
parse_compose(services, service) ==
    IF service # None THEN {s \in services : s.name = The(service)}
    ELSE IF Cardinality(services) = 1 THEN services ELSE None

-----------------------------------------------------------------------------
(* The contract.                                                           *)

\* models.py is a sequence of statements [kw, name, base]; a class takes every
\* annotated name up to the next class as a field, the ones inside its methods
\* as well.
Statement(classes, s) ==
    CASE s.kw = "class" -> Append(classes, [name |-> s.name, base |-> s.base, fields |-> {}])
      [] s.kw = "field" /\ classes # <<>> -> [classes EXCEPT ![Len(classes)].fields = @ \union {s.name}]
      [] OTHER -> classes
parse_python_models(src) == FoldLeft(Statement, <<>>, src)

\* What the base classes of OpenEnv carry.
base_fields(kind) ==
    CASE kind = "observation" -> {"done", "reward", "metadata"}
      [] kind = "state" -> {"episode_id", "step_count"}
      [] OTHER -> {}

\* The class that the specification names, else the first of the right base.
schema_for(classes, declared, kind) ==
    LET Named == SelectSeq(classes, LAMBDA c : {c.name} = declared)
        Derived == SelectSeq(classes, LAMBDA c : c.base = kind)
        class == OrElse(FirstOf(Named), FirstOf(Derived))
    IN  {[form |-> "object", props |-> base_fields(kind) \union c.fields] : c \in class}

interface_from_models(models) == [k \in Sides |-> schema_for(parse_python_models(models), None, k)]

interface_from_labels(labels) == [k \in Sides |-> {s \in Get(labels, k) : s.form \notin {"garbled", "scalar"}}]

NoInterface == [k \in Sides |-> None]

-----------------------------------------------------------------------------
(* container.rs: convert.  A source is [dockerfile, inspect, compose], each*)
(* optional; the options are [env_type, version, registry].                *)

LabelsOf(src) ==
    LET Of(parts) == IF parts = None THEN NoLabels ELSE The(parts).labels
    IN  Over(Of(src.inspect), Of(src.dockerfile))

\* The first part that has the field, in the given order of precedence.
FieldOf(part, field) == UNION {p[field] : p \in part}

ref_for_naming(src) ==
    OrElse(UNION {FirstOf(i.repo_tags) : i \in src.inspect},
    OrElse(FieldOf(src.compose, "image"), UNION {pinned_ref(i) : i \in src.inspect}))

EnvType(src, labels, opts) ==
    OrElse(opts.env_type, OrElse(Get(labels, "env_type"), OrElse(Get(labels, "title"),
    OrElse({r.name : r \in ref_for_naming(src)}, {c.name : c \in src.compose})))) \ {""}

OciVersionFirstMutant(src, labels, opts) ==
    OrElse(opts.version, OrElse({v \in OrElse(Get(labels, "oci_version"), Get(labels, "version")) : is_semver(v)},
    OrElse({v \in {r.tag : r \in ref_for_naming(src)} : is_semver(v)}, {"fallback"})))
\* Only what has the shape of a version becomes the version: a base image
\* carries the version of its own distribution.
Version(src, labels, opts) ==
    LET labelled == OrElse(Get(labels, "version"), Get(labels, "oci_version"))
        tagged == {r.tag : r \in ref_for_naming(src)}
    IN  OrElse(opts.version, OrElse({v \in labelled : is_semver(v)},
        OrElse({v \in tagged : is_semver(v)}, {"fallback"})))

\* With an internal registry the manifest names that registry, whatever the
\* source names and also when it names nothing.
ImageUrl(declared, opts, env_type, version) ==
    IF opts.registry # None
    THEN {[host |-> The(opts.registry), name |-> env_type, tag |-> version]} ELSE declared

declared_image(src) ==
    OrElse(UNION {OrElse(launchable_tag(i), pinned_ref(i)) : i \in src.inspect}, FieldOf(src.compose, "image"))

Digest(src) == UNION {OrElse(manifest_digest(i), i.id) : i \in src.inspect}

\* A command is a sequence of words.
join_cmd(entrypoint, cmd) ==
    LET Words(x) == IF x = None THEN <<>> ELSE The(x)
    IN  {Words(entrypoint) \o Words(cmd)} \ {<<>>}

Entrypoint(src, labels) ==
    LET Of(parts) == UNION {join_cmd(p.entrypoint, p.cmd) : p \in parts}
    IN  OrElse(Get(labels, "entrypoint"), OrElse(Of(src.inspect), OrElse(Of(src.dockerfile), FieldOf(src.compose, "command"))))

HealthPath(src, labels) ==
    OrElse(Get(labels, "health_path"),
        UNION {extract_health_path(c) : c \in OrElse(FieldOf(src.inspect, "healthcheck"),
            OrElse(FieldOf(src.dockerfile, "healthcheck"), FieldOf(src.compose, "healthcheck")))})

\* The labels fill the sides that the caller's contract leaves open.
Interface(contract, labels) ==
    LET caller == IF contract = None THEN NoInterface ELSE The(contract)
    IN  [k \in Sides |-> OrElse(caller[k], interface_from_labels(labels)[k])]

\* The warnings and errors of the import, by place.  Ports are left out.
External(r) == public_registry_of(r) \/ resolves_to_docker_hub(r)
container_findings(src, labels, opts, m) ==
    LET labelled == OrElse(Get(labels, "version"), Get(labels, "oci_version"))
    IN  {place \in {"version", "interface", "image.url", "image", "base_image", "build", "health", "digest"} :
            CASE place = "version" -> opts.version = None /\ (m.version = "fallback" \/ \E v \in labelled : ~is_semver(v))
              [] place = "interface" -> \E k \in Sides : m.interface[k] = None \/ \E s \in Get(labels, k) : s.form \in {"garbled", "scalar"}
              [] place = "image.url" -> opts.registry = None /\ \E r \in m.image : External(r)
              [] place = "image" -> m.image = None
              [] place = "base_image" -> \E d \in src.dockerfile : \E r \in runtime_base(d) : External(r)
              [] place = "build" -> \E d \in src.dockerfile : d.network
              [] place = "health" -> m.health = None
              [] place = "digest" -> m.image # None /\ src.inspect = None}

\* The manifest, or None when nothing tells what the environment is called.
container_convert(src, contract, opts, requirements) ==
    LET labels == LabelsOf(src)
        version == The(Version(src, labels, opts))
        Manifest(e) ==
            LET url == ImageUrl(declared_image(src), opts, e, version)
            IN  [env_type |-> e, version |-> version, interface |-> Interface(contract, labels),
                 image |-> url, digest |-> IF url = None THEN None ELSE Digest(src),
                 base |-> OrElse(UNION {runtime_base(d) : d \in src.dockerfile}, Get(labels, "base_name")),
                 entrypoint |-> Entrypoint(src, labels), health |-> HealthPath(src, labels),
                 deps |-> requirements \/ \E d \in src.dockerfile : d.requirements,
                 rubric |-> None, lifecycle |-> None, findings |-> {}]
    IN  {[Manifest(e) EXCEPT !.findings = container_findings(src, labels, opts, Manifest(e))] :
            e \in EnvType(src, labels, opts)}

-----------------------------------------------------------------------------
(* openenv.rs: from_yaml and convert.  A document maps keys to values; a   *)
(* specification is [name, version, image, app, classes], the class each   *)
(* side declares.                                                          *)

\* A class is declared by its name or by a map that holds its name.
class_ref(node) == {IF n.map THEN n.class_name ELSE n.scalar : n \in node} \ {""}

from_yaml(doc) ==
    {[name |-> name, version |-> Get(doc, "version"), app |-> Get(doc, "app"),
      image |-> OrElse(Get(doc, "default_image"), Get(doc, "image")),
      classes |-> [k \in Sides |-> class_ref(Get(doc, k))]] : name \in Get(doc, "name") \ {""}}

openenv_findings(spec, opts, m) ==
    {place \in {"version", "interface", "image.url", "image"} :
        CASE place = "version" -> opts.version = None /\ spec.version = None
          [] place = "interface" -> \E k \in Sides : m.interface[k] = None
          [] place = "image.url" -> opts.registry = None /\ \E r \in m.image : public_registry_of(r)
          [] place = "image" -> m.image = None}

OpenEnvManifest(e, version, interface, spec, opts, requirements) ==
    [env_type |-> e, version |-> version, interface |-> interface,
     image |-> ImageUrl(spec.image, opts, e, version), digest |-> None, base |-> None,
     entrypoint |-> spec.app, health |-> {"/health"},
     deps |-> requirements, rubric |-> None, lifecycle |-> None, findings |-> {}]

openenv_convert(spec, models, opts, requirements) ==
    LET version == The(OrElse(opts.version, OrElse(spec.version, {"fallback"})))
        classes == IF models = None THEN <<>> ELSE parse_python_models(The(models))
        interface == [k \in Sides |-> schema_for(classes, spec.classes[k], k)]
        Manifest(e) == OpenEnvManifest(e, version, interface, spec, opts, requirements)
    IN  {[Manifest(e) EXCEPT !.findings = openenv_findings(spec, opts, Manifest(e))] :
            e \in OrElse(opts.env_type, {spec.name}) \ {""}}

-----------------------------------------------------------------------------
(* rubric.rs: a rubric is [metrics, digests, scorer]; metrics say whether  *)
(* they are consistent, how many cases the scorer pays for that the        *)
(* reference does not, and whether the agreement is high enough.           *)

rubric_validate(r) == \A m \in r.metrics : m.consistent

rubric_gate(rubric) == \A r \in rubric : r.metrics # None /\ \A m \in r.metrics : m.over = 0 /\ m.agrees

-----------------------------------------------------------------------------
(* manifest.rs and conformance.rs.  A check gives "pass", "warn", "fail" or*)
(* "skip"; schemas are well formed unless they are "broken".               *)

Broken(m) == \E k \in Sides : \E s \in m.interface[k] : s.form # "object"

validate_manifest(m) ==
    /\ is_semver(m.version)
    /\ ~Broken(m)
    /\ \A r \in m.rubric : rubric_validate(r)

Refs(m) == m.image \union m.base

C02(m) == IF \A k \in Sides : m.interface[k] # None THEN "pass" ELSE "fail"
C03(m) == IF Broken(m) THEN "fail" ELSE "pass"
\* Only the names of the properties are compared, with the first class of each
\* base even if the specification declares another.
C04(m, models) ==
    IF models = None THEN "skip"
    ELSE LET classes == parse_python_models(The(models))
             Names(schema) == UNION {s.props : s \in schema}
         IN  IF classes = <<>> THEN "warn"
             ELSE IF \A k \in Sides : schema_for(classes, None, k) # None =>
                        Names(schema_for(classes, None, k)) = Names(m.interface[k]) THEN "pass" ELSE "fail"

\* Without a list of the intranet's registries only known public ones are
\* refused; with one, every other host is, and a reference without a host is
\* a warning.
C06(m, allow) ==
    IF allow = {} THEN IF \E r \in Refs(m) : public_registry_of(r) THEN "fail" ELSE "pass"
    ELSE IF \E r \in Refs(m) : ~resolves_to_docker_hub(r) /\ r.host \notin allow THEN "fail"
    ELSE IF \E r \in Refs(m) : resolves_to_docker_hub(r) THEN "warn" ELSE "pass"
C07(m) == IF m.image # None /\ m.digest # None THEN "pass" ELSE "warn"
C09(m) == IF m.entrypoint # None \/ m.image # None THEN "pass" ELSE "fail"
C10(m) == IF m.health # None THEN "pass" ELSE "warn"
offline_check(m, offline) ==
    IF offline = None THEN "skip"
    ELSE LET ev == The(offline) IN
         IF ev.mismatch \/ (ev.wheels = 0 /\ m.deps) THEN "fail" ELSE IF ev.pyc = 0 THEN "warn" ELSE "pass"
rubric_check(m) ==
    IF m.rubric = None THEN "skip"
    ELSE LET r == The(m.rubric) IN
         IF ~rubric_validate(r) \/ ~rubric_gate(m.rubric) THEN "fail" ELSE IF r.digests THEN "pass" ELSE "warn"
rubric_scorer_check(m) ==
    IF m.rubric = None THEN "skip" ELSE IF The(m.rubric).scorer = None THEN "warn" ELSE "pass"

\* What the gate says of a manifest; the examples are there and conform.
conformance(m, models, offline, allow) ==
    LET checks == {IF validate_manifest(m) THEN "pass" ELSE "fail", C02(m), C03(m), C04(m, models), C06(m, allow),
                   C07(m), C09(m), C10(m), offline_check(m, offline), rubric_check(m), rubric_scorer_check(m)}
    IN  [passed |-> "fail" \notin checks, strict |-> checks \subseteq {"pass", "skip"}]

=============================================================================
