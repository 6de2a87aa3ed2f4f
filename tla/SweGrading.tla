------------------------------ MODULE SweGrading ------------------------------
(* What a SWE evaluation decides (uenv-worker: runtime.rs for the catalog,   *)
(* swe/env_package, swe/image_cache, swe/session, swe/runtime_contract,      *)
(* swe/grader and the external graders).  A worker loads the rows of its     *)
(* instances; a session brings the repository of its container to the        *)
(* initial state of the row's contract, an agent or the gold patch changes   *)
(* it, and the evaluation applies the test patch and grades a test run.      *)
(* Sessions are threads that share the host's temporary file.                *)
(*                                                                           *)
(* A tree is the set of changes made to the repository at its base commit.   *)
EXTENDS Integers, FiniteSets

CONSTANTS
    Graded,         \* sessions, each for an instance of its own
    Variants,       \* benchmark variants in the catalogs
    MaxDirs,        \* synced EnvPackage directories
    PullByDefault,  \* UENV_SWE_IMAGE_PULL_POLICY of the process allows pulling
    MaxEdits,       \* changes an agent makes in a session
    MaxRecycles     \* recycles of a session

\* The marks of the temporary file are not names of sessions.
GradingConstants == Graded \cap {"none", "missing", "gone"} = {}

VARIABLES
    start,          \* how far the worker's start has come
    dirs,           \* package directories left to read
    fromPackage,    \* loaded_from_package
    cat,            \* session -> the row of its instance, or NoRow
    preload,        \* the package whose image tars are used, or NoPackage
    images,         \* session -> local image references
    ss,             \* session -> its state
    tmp             \* the file /tmp/uenv-swe-write-<pid> of the host

gvars == <<start, dirs, fromPackage, cat, preload, images, ss, tmp>>

catalogVars == <<start, dirs, fromPackage, cat, preload>>

-----------------------------------------------------------------------------
(* Contracts: which patch makes the initial state, whether it is committed,  *)
(* what the gold patch is, and which grader decides.                         *)

NoContract == [provision |-> "absent"]

ForVariantMutant(v) ==
    CASE v = "smith" -> [provision |-> "apply", commit |-> TRUE, gold |-> "apply", external |-> TRUE]
      [] v = "pro" -> [provision |-> "none", commit |-> FALSE, gold |-> "apply", external |-> TRUE]
      [] OTHER -> [provision |-> "none", commit |-> FALSE, gold |-> "apply", external |-> FALSE]

for_variant(v) ==
    CASE v = "smith" -> [provision |-> "apply", commit |-> TRUE, gold |-> "reverse", external |-> TRUE]
      [] v = "pro" -> [provision |-> "none", commit |-> FALSE, gold |-> "apply", external |-> TRUE]
      [] OTHER -> [provision |-> "none", commit |-> FALSE, gold |-> "apply", external |-> FALSE]

(* An overlay that only names an external grader: the sections it leaves out *)
(* have their defaults and replace the variant's.                            *)
RewardOverlay == [provision |-> "none", commit |-> FALSE, gold |-> "apply", external |-> TRUE]
merge_overlay(contract, overlay) == overlay

(* A row of a catalog: whether it names a base commit, and its own contract. *)
Rows == [variant : Variants, base : BOOLEAN, contract : {NoContract}]
NoRow == [variant |-> "none"]
runtime_contract(row) == IF row.contract = NoContract THEN for_variant(row.variant) ELSE row.contract

apply_default_runtime_contract(row, overlay) ==
    IF row = NoRow \/ row.contract # NoContract \/ overlay = NoContract THEN row
    ELSE [row EXCEPT !.contract = merge_overlay(for_variant(row.variant), overlay)]

(* InstanceStore::merge_from: the later catalog wins. *)
merge_from(old, new) == [s \in Graded |-> IF new[s] = NoRow THEN old[s] ELSE new[s]]
SomeRows == [Graded -> Rows \cup {NoRow}]

-----------------------------------------------------------------------------
(* The worker's start: package directories, else the Hub, else a local file, *)
(* then the extra catalog.                                                   *)

NoPackage == [tars |-> -1, policy |-> "absent"]
Tars == {"absent", "named", "misnamed", "broken"}
Policies == {"absent", "local_only", "allow_public"}
Packages == {p \in [tars : 0..1, tar : [Graded -> Tars], policy : Policies] :
                (\E s \in Graded : p.tar[s] # "absent") => p.tars = 1}

SessionStart ==
    [at |-> "idle", wr |-> "none", file |-> [of |-> "none"], tree |-> {}, head |-> {}, recycling |-> FALSE,
     gold |-> FALSE, clean |-> TRUE, intact |-> TRUE, worked |-> FALSE, edits |-> 0, recycles |-> 0,
     report |-> [f2p |-> "absent", p2p |-> "absent", summary |-> FALSE], lossy |-> FALSE,
     verdict |-> "none", terminated |-> FALSE]

GInit ==
    /\ start = "packages" /\ dirs = MaxDirs /\ fromPackage = FALSE
    /\ cat = [s \in Graded |-> NoRow]
    /\ preload = NoPackage
    /\ images \in [Graded -> {{}, {"base"}}]
    /\ ss = [s \in Graded |-> SessionStart]
    /\ tmp = [of |-> "gone"]

(* A directory without manifest or catalog is passed over; one whose catalog *)
(* does not parse still counts when the package for image tars is chosen:    *)
(* the one with the most, the first of equals.                               *)
LoadPackage ==
    /\ start = "packages" /\ dirs > 0
    /\ dirs' = dirs - 1
    /\ \/ UNCHANGED <<fromPackage, cat, preload>>
       \/ \E pkg \in Packages, parsed \in BOOLEAN :
            /\ preload' = IF preload.tars >= pkg.tars THEN preload ELSE pkg
            /\ IF parsed
               THEN /\ \E rows \in SomeRows, overlay \in {NoContract, RewardOverlay} :
                         cat' = merge_from(cat, [s \in Graded |->
                                                    apply_default_runtime_contract(rows[s], overlay)])
                    /\ fromPackage' = TRUE
               ELSE UNCHANGED <<fromPackage, cat>>
    /\ UNCHANGED <<start, images, ss, tmp>>

PackagesRead ==
    /\ start = "packages" /\ dirs = 0
    /\ start' = IF fromPackage THEN "extra" ELSE "hub"
    /\ UNCHANGED <<dirs, fromPackage, cat, preload, images, ss, tmp>>

(* The Hub may be off, answer, answer what does not parse, or fail: then the *)
(* local file of the variant is read.  An empty result makes the worker read *)
(* its local catalog.                                                        *)
load_swe_catalog ==
    /\ start \in {"hub", "local"}
    /\ \E rows \in SomeRows : cat' = merge_from(cat, rows)
    /\ start' = IF start = "hub" /\ cat' = [s \in Graded |-> NoRow] THEN "local" ELSE "extra"
    /\ UNCHANGED <<dirs, fromPackage, preload, images, ss, tmp>>

merge_extra_catalog ==
    /\ start = "extra"
    /\ \E rows \in {cat} \cup SomeRows : cat' = merge_from(cat, rows)
    /\ start' = "ready"
    /\ UNCHANGED <<dirs, fromPackage, preload, images, ss, tmp>>

-----------------------------------------------------------------------------
(* Images. *)

TarOf(s) == IF preload = NoPackage THEN "absent" ELSE preload.tar[s]
allows_pull == IF preload.policy = "absent" THEN PullByDefault ELSE preload.policy = "allow_public"

(* Whether the image is there afterwards: it was present, its tar is loaded  *)
(* under the right name, or a pull is allowed and, direct or from a mirror,  *)
(* succeeds.                                                                 *)
pull_image_with_mirrors == BOOLEAN
ensure_image(s) ==
    IF "base" \in images[s] THEN {TRUE} ELSE IF allows_pull THEN pull_image_with_mirrors ELSE {FALSE}
ensure_image_with_tar(s) ==
    CASE "base" \in images[s] \/ TarOf(s) = "named" -> {TRUE}
      [] "base" \notin images[s] /\ TarOf(s) = "broken" -> {FALSE}
      [] OTHER -> ensure_image(s)

(* Prewarming also leaves a warm tag, which later sessions prefer. *)
prewarm_images(s) ==
    /\ start = "ready" /\ cat[s] # NoRow /\ ss[s].at = "idle" /\ "warm" \notin images[s]
    /\ TRUE \in ensure_image_with_tar(s)
    /\ images' = [images EXCEPT ![s] = {"base", "warm"}]
    /\ UNCHANGED <<catalogVars, ss, tmp>>

-----------------------------------------------------------------------------
(* The steps of a session. *)

Session(s, fields) == ss' = [ss EXCEPT ![s] = [f \in DOMAIN ss[s] |-> IF f \in DOMAIN fields THEN fields[f] ELSE ss[s][f]]]
GoTo(s, at) == Session(s, [at |-> at])

(* A command in a container that was removed fails. *)
ensure_active(s) == ~ ss[s].terminated
SessionStep == UNCHANGED <<catalogVars, images>>

(* create_session: an unknown instance is refused, a missing image too. *)
CreateSession(s) ==
    /\ start = "ready" /\ ss[s].at = "idle"
    /\ \/ cat[s] = NoRow /\ GoTo(s, "gone") /\ UNCHANGED images
       \/ /\ cat[s] # NoRow
          /\ \E ready \in ensure_image_with_tar(s) :
               /\ GoTo(s, IF ready THEN "reset" ELSE "gone")
               /\ images' = [images EXCEPT ![s] = IF ready THEN @ \cup {"base"} ELSE @]
    /\ UNCHANGED <<catalogVars, tmp>>

ResetToHeadMutant(s) == ss[s].head

(* git reset --hard <base or HEAD> and git clean -fd. *)
reset_script_keep_built(s) == IF cat[s].base THEN {} ELSE ss[s].head

(* The reset starts the tree over; only with a base commit is nothing of an  *)
(* earlier agent left.                                                       *)
ResetTree(s) ==
    /\ ss[s].at = "reset" /\ ensure_active(s)
    /\ LET tree == reset_script_keep_built(s) IN
       Session(s, [at |-> "setup", tree |-> tree, head |-> tree, worked |-> FALSE, gold |-> FALSE, intact |-> TRUE,
                   clean |-> cat[s].base \/ ss[s].clean])
    /\ SessionStep /\ UNCHANGED tmp

(* The setup command of a Pro row checks the test files out. *)
run_pro_setup_at_provision(s) ==
    /\ ss[s].at = "setup" /\ ensure_active(s)
    /\ Session(s, [tree |-> ss[s].tree \cup (IF cat[s].variant = "pro" THEN {"tests"} ELSE {}),
                   at |-> IF runtime_contract(cat[s]).provision = "none" THEN "commit" ELSE "initial"])
    /\ SessionStep /\ UNCHANGED tmp

(* commit_baseline fails when there is nothing to commit. *)
commit_baseline(s) ==
    /\ ss[s].at = "commit" /\ ensure_active(s)
    /\ IF ~ runtime_contract(cat[s]).commit THEN GoTo(s, "open")
       ELSE /\ ss[s].tree # ss[s].head
            /\ Session(s, [at |-> "open", head |-> ss[s].tree])
    /\ SessionStep /\ UNCHANGED tmp

(* Where an error leads: one of a provision drops the session and its        *)
(* container; a recycle that failed leaves the session as it is; an          *)
(* evaluation ends without a verdict.                                        *)
Failed(s) ==
    CASE ss[s].at \in {"reset", "setup", "initial", "commit"} /\ ~ ss[s].recycling -> [at |-> "gone", wr |-> "none"]
      [] ss[s].at \in {"reset", "setup", "initial", "commit"} /\ ss[s].recycling ->
            [at |-> "open", wr |-> "none", clean |-> FALSE, intact |-> FALSE]
      [] ss[s].at = "write" -> [at |-> "open", wr |-> "none"]
      [] OTHER -> [at |-> "ended", wr |-> "none"]

StepFails(s) ==
    /\ ss[s].at \notin {"idle", "open", "ended", "gone"}
    /\ ss[s].wr \in {"none", "written"}
    /\ Session(s, Failed(s))
    /\ SessionStep /\ UNCHANGED tmp

-----------------------------------------------------------------------------
(* Writing a file into a container: the backend writes the content to one    *)
(* file per process, copies that into the container and removes it.          *)

Writing == {"initial", "gold", "tests", "ids", "write"}

StageFile(s) ==
    /\ ss[s].at \in Writing /\ ss[s].wr = "none"
    /\ tmp' = [of |-> s]
    /\ Session(s, [wr |-> "staged"])
    /\ SessionStep

CopyFile(s) ==
    /\ ss[s].wr = "staged"
    /\ Session(s, [wr |-> "copied", file |-> IF tmp.of = "gone" \/ ~ ensure_active(s) THEN [of |-> "missing"] ELSE tmp])
    /\ SessionStep /\ UNCHANGED tmp

RemoveFile(s) ==
    /\ ss[s].wr = "copied"
    /\ tmp' = [of |-> "gone"]
    /\ Session(s, IF ss[s].file.of = "missing" THEN Failed(s) ELSE [wr |-> "written"])
    /\ SessionStep

(* git apply, else patch: what is applied already, or conflicts with what an *)
(* agent changed, is left out without an error, and so is a patch for        *)
(* another repository.                                                       *)
Clashes(change, tree) == (IF change = "dataset" THEN "fix" ELSE "tangle") \in tree
apply_patch_with_reverse(change, reverse, tree, own) ==
    LET applied == IF reverse THEN tree \ {change} ELSE tree \cup {change} IN
    IF ~ own THEN {tree} ELSE IF Clashes(change, tree) THEN {tree, applied} ELSE {applied}

(* The dataset's patch, as the contract wants it: before the session opens,  *)
(* or as the solution of a gold episode.                                     *)
ApplyDatasetPatch(s) ==
    /\ ss[s].at \in {"initial", "gold"} /\ ss[s].wr = "written" /\ ensure_active(s)
    /\ LET contract == runtime_contract(cat[s])
           mode == IF ss[s].at = "gold" THEN contract.gold ELSE contract.provision
       IN \E tree \in apply_patch_with_reverse("dataset", mode = "reverse", ss[s].tree, ss[s].file.of = s) :
            Session(s, [at |-> IF ss[s].at = "gold" THEN "diff" ELSE "commit", wr |-> "none", tree |-> tree,
                        worked |-> ss[s].worked \/ ss[s].at = "gold"])
    /\ SessionStep /\ UNCHANGED tmp

FileWritten(s) ==
    /\ ss[s].at \in {"write", "ids"} /\ ss[s].wr = "written"
    /\ Session(s, [at |-> IF ss[s].at = "ids" THEN "run" ELSE "open", wr |-> "none"])
    /\ SessionStep /\ UNCHANGED tmp

-----------------------------------------------------------------------------
(* The agent works in the open session, or the gold patch takes its place.   *)

AgentEdits(s) ==
    /\ ss[s].at = "open" /\ ss[s].edits < MaxEdits /\ ensure_active(s)
    /\ \E change \in {"fix", "break", "tangle"} \ ss[s].tree :
         Session(s, [tree |-> ss[s].tree \cup {change}, edits |-> ss[s].edits + 1, clean |-> FALSE,
                     worked |-> ss[s].worked \/ change = "fix"])
    /\ SessionStep /\ UNCHANGED tmp

AgentCommits(s) ==
    /\ ss[s].at = "open" /\ ss[s].tree # ss[s].head /\ ss[s].edits > 0 /\ ensure_active(s)
    /\ Session(s, [head |-> ss[s].tree])
    /\ SessionStep /\ UNCHANGED tmp

write_file(s) ==
    /\ ss[s].at = "open" /\ ss[s].edits < MaxEdits /\ ensure_active(s)
    /\ Session(s, [at |-> "write", edits |-> ss[s].edits + 1])
    /\ SessionStep /\ UNCHANGED tmp

BeginGold(s) ==
    /\ ss[s].at = "open"
    /\ Session(s, [at |-> "gold", gold |-> TRUE])
    /\ SessionStep /\ UNCHANGED tmp

recycle(s) ==
    /\ ss[s].at \in {"open", "ended"} /\ ss[s].recycles < MaxRecycles
    /\ Session(s, [at |-> "reset", recycling |-> TRUE, recycles |-> ss[s].recycles + 1, verdict |-> "none"])
    /\ SessionStep /\ UNCHANGED tmp

pool_submit(s) ==
    /\ ss[s].at = "open"
    /\ GoTo(s, "diff")
    /\ SessionStep /\ UNCHANGED tmp

terminate(s) ==
    /\ ss[s].at \notin {"idle", "gone"} /\ ensure_active(s)
    /\ Session(s, [terminated |-> TRUE])
    /\ SessionStep /\ UNCHANGED tmp

-----------------------------------------------------------------------------
(* The evaluation. *)

(* git diff and the install command, whose failure is only a warning.  A     *)
(* long list of test ids is written to a file before the run.                *)
evaluate_diff(s) ==
    /\ ss[s].at = "diff" /\ ensure_active(s)
    /\ \E next \in IF cat[s].variant = "smith" THEN {"ids", "run"} ELSE {"tests"} : GoTo(s, next)
    /\ SessionStep /\ UNCHANGED tmp

ApplyTestPatch(s) ==
    /\ ss[s].at = "tests" /\ ss[s].wr = "written" /\ ensure_active(s)
    /\ \E tree \in apply_patch_with_reverse("tests", FALSE, ss[s].tree, ss[s].file.of = s) :
         \E next \in IF cat[s].variant = "pro" THEN {"run"} ELSE {"ids", "run"} :
           Session(s, [at |-> next, wr |-> "none", tree |-> tree])
    /\ SessionStep /\ UNCHANGED tmp

Buggy(row, tree) == "fix" \notin tree /\ (("dataset" \in tree) <=> (row.variant = "smith"))
TestsInPlace(row, tree) == row.variant = "smith" \/ "tests" \in tree

(* What the runner prints: tests an agent rewrote may say anything, missing  *)
(* ones nothing, and output beyond max_output_bytes is lost.  A Mocha        *)
(* summary counts all tests of the repository.                               *)
Reports(row, tree) ==
    LET f2p == IF "tangle" \in tree THEN {"pass", "fail", "absent"}
               ELSE IF ~ TestsInPlace(row, tree) THEN {"absent"}
               ELSE IF Buggy(row, tree) THEN {"fail"} ELSE {"pass"}
        p2p == IF "break" \in tree THEN {"fail"} ELSE {"pass"}
    IN {r \in [f2p : f2p, p2p : p2p, summary : BOOLEAN] :
           r.summary => row.variant = "pro" /\ r.f2p # "fail" /\ r.p2p # "fail"}
CutReports(r) == {[f2p |-> a, p2p |-> b, summary |-> r.summary] : a \in {r.f2p, "absent"}, b \in {r.p2p, "absent"}}

RunTests(s) ==
    /\ ss[s].at = "run" /\ ensure_active(s)
    /\ \E printed \in Reports(cat[s], ss[s].tree) : \E seen \in CutReports(printed) :
         Session(s, [at |-> "grade", report |-> seen, lossy |-> seen # printed])
    /\ SessionStep /\ UNCHANGED tmp

decide_reward(report) == {report.f2p = "pass" /\ report.p2p = "pass"}

(* The Pro grader takes a summary without failures for a pass of every test, *)
(* and looks an id the report lacks up by parts of other names.              *)
pro_test_passed(report, id) ==
    IF report[id] # "absent" THEN {report[id] = "pass"}
    ELSE {FALSE} \cup {report[other] = "pass" : other \in {"f2p", "p2p"} \ {id}}
SwebenchProGrader(report) ==
    {resolved \in BOOLEAN :
        \/ report.summary /\ resolved
        \/ \E a \in pro_test_passed(report, "f2p"), b \in pro_test_passed(report, "p2p") : resolved = (a /\ b)}

grader_for_spec(row, report) == IF row.variant = "pro" THEN SwebenchProGrader(report) ELSE decide_reward(report)

(* External graders: without a command the internal grader decides, whatever *)
(* the contract says.  Output that is no JSON is an error, except for Pro,   *)
(* where the exit code decides.                                              *)
try_external_pro_grade_from_env == {"unset", "external"}
try_external_smith_grade_from_env == {"unset", "external", "error"}
try_external_contract_grade == {"unset", "external", "error"}
External(row) ==
    IF ~ runtime_contract(row).external THEN {"unset"}
    ELSE CASE row.variant = "pro" -> try_external_pro_grade_from_env
           [] row.variant = "smith" -> try_external_smith_grade_from_env
           [] OTHER -> try_external_contract_grade

Grade(s) ==
    /\ ss[s].at = "grade" /\ ensure_active(s)
    /\ \E answer \in External(cat[s]), resolved \in grader_for_spec(cat[s], ss[s].report) :
         Session(s, [at |-> "ended",
                     verdict |-> CASE answer = "error" -> "none"
                                   [] answer = "external" -> "external"
                                   [] OTHER -> IF resolved THEN "resolved" ELSE "unresolved"])
    /\ SessionStep /\ UNCHANGED tmp

GNext ==
    \/ LoadPackage \/ PackagesRead \/ load_swe_catalog \/ merge_extra_catalog
    \/ \E s \in Graded :
         \/ prewarm_images(s) \/ CreateSession(s)
         \/ ResetTree(s) \/ run_pro_setup_at_provision(s) \/ commit_baseline(s) \/ StepFails(s)
         \/ StageFile(s) \/ CopyFile(s) \/ RemoveFile(s) \/ ApplyDatasetPatch(s) \/ FileWritten(s)
         \/ AgentEdits(s) \/ AgentCommits(s) \/ write_file(s) \/ BeginGold(s)
         \/ recycle(s) \/ pool_submit(s) \/ terminate(s)
         \/ evaluate_diff(s) \/ ApplyTestPatch(s) \/ RunTests(s) \/ Grade(s)

GSpec == GInit /\ [][GNext]_gvars

-----------------------------------------------------------------------------
Fits(row) == runtime_contract(row).provision = for_variant(row.variant).provision
Own(s) == cat[s] # NoRow /\ Fits(cat[s])

(* The gold patch of an instance is graded as resolved in a session no agent *)
(* has changed since it was provisioned or recycled to its base commit, when *)
(* no output was lost: what the contract applies when the session opens,     *)
(* what it applies as gold, the setup, the test patch and the grader fit     *)
(* together (SweSession::provision, apply_gold_contract, evaluate).          *)
GoldResolves ==
    \A s \in Graded :
        ss[s].verdict \in {"resolved", "unresolved"} /\ Own(s) /\ ss[s].gold /\ ss[s].clean /\ ~ ss[s].lossy
            => ss[s].verdict = "resolved"

(* A session whose agent solved nothing is not graded as resolved, also when *)
(* an earlier user of the recycled session did, had committed it or had      *)
(* submitted it: if the row names a base commit, the last recycle did not    *)
(* fail and the tests are unchanged; for Pro also only if no output was      *)
(* lost, as its grader looks missing tests up by parts of their names        *)
(* (reset_to_base, evaluate).                                                *)
NoFreeReward ==
    \A s \in Graded :
        ss[s].verdict = "resolved" /\ Own(s) /\ cat[s].base /\ ss[s].intact /\ "tangle" \notin ss[s].tree
          /\ (ss[s].lossy => cat[s].variant # "pro")
            => ss[s].worked

(* The file a session finds in its container is the one it wrote             *)
(* (SweSession::write_file and apply_patch through the backend's write).     *)
WritesArrive == \A s \in Graded : ss[s].file.of \in {"none", "missing", s}

=============================================================================
