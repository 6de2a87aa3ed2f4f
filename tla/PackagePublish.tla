--------------------------- MODULE PackagePublish ---------------------------
(***************************************************************************)
(* Publishing a process plugin as a package of the Hub: the command        *)
(* `uenv env publish-plugin` (uenv.rs, run_publish_plugin) and the Hub's   *)
(* handler behind it (package.rs, publish_inline_package).                 *)
(*                                                                         *)
(* A package version lives in two places: its files under the artifact     *)
(* root, created one by one and never overwritten, and its row with the    *)
(* digests, inserted in one transaction.  A third record, the version in   *)
(* the environment registry, is made by the command before the package.    *)
(* Commands run concurrently, the Hub may stop at any point and keeps its  *)
(* files and rows, and an answer may be lost: the operator then repeats    *)
(* the command.                                                            *)
(*                                                                         *)
(* The directory to publish is abstracted to a release: the sequence of    *)
(* the names of its files, the registry entry it asks for, and whether     *)
(* the Hub's validation accepts it.  The bytes (and so the digest) of a    *)
(* file are the pair of the release and the name.                          *)
(***************************************************************************)
EXTENDS Naturals, Sequences, FiniteSets, SequencesExt

CONSTANTS
    Publishers,     \* invocations of publish-plugin that may run
    PackageVersions, \* versions of the one package
    Releases,       \* directories to publish
    FilesOf,        \* file names of each release, in collection order
    EntryOf,        \* registry entry (entry point, minimum worker version)
    WellFormed,     \* releases that validate_publish_artifacts accepts
    MaxPublishRuns, \* bound: how often each command is run
    MaxStops        \* bound: stops of the Hub

\* A directory without files never reaches the Hub (run_publish_plugin).
PublishConstants ==
    /\ PackageVersions # {} /\ Releases # {} /\ WellFormed \subseteq Releases
    /\ \A r \in Releases : Len(FilesOf[r]) \in Nat /\ DOMAIN FilesOf[r] = 1 .. Len(FilesOf[r])
    /\ \A r \in WellFormed : FilesOf[r] # <<>>

Nothing == {}
FileNames == UNION {Range(FilesOf[r]) : r \in Releases}
Entries == {EntryOf[r] : r \in Releases}

VARIABLES
    publish_command, \* each command: [at, version, release]
    publish_runs,    \* invocations so far
    told,       \* what the last invocation reported: "ok", "failed" or nothing
    handler,    \* the Hub's handler of each command: [at, next]
    files,      \* artifact root: {} or {release} the bytes of each name are of
    row,        \* package rows: {} or {release}
    exists,     \* whether the environment exists in the registry
    registry,   \* registry versions: {} or {entry}
    abandoned,  \* versions whose staging was cut short or lost a race
    stops

publishVars == <<publish_command, publish_runs, told, handler, files, row, exists, registry, abandoned, stops>>

HubIdle == [at |-> "idle", next |-> 1]
hubState == <<handler, files, row, abandoned, stops>>

-----------------------------------------------------------------------------
(* The command.                                                            *)

PublishAt(c, place) == publish_command[c].at = place
GoTo(c, place) == publish_command' = [publish_command EXCEPT ![c].at = place]
Report(c, result) ==
    /\ GoTo(c, "done")
    /\ told' = [told EXCEPT ![c] = result]

\* The local checks and the collection of the files change nothing; a
\* directory that fails them never reaches the Hub.
run_publish_plugin(c, v, r) ==
    /\ PublishAt(c, "done") /\ publish_runs[c] < MaxPublishRuns
    /\ r \in WellFormed
    /\ publish_command' = [publish_command EXCEPT ![c] = [at |-> "lookup", version |-> v, release |-> r]]
    /\ publish_runs' = [publish_runs EXCEPT ![c] = @ + 1]
    /\ told' = [told EXCEPT ![c] = "nothing"]
    /\ UNCHANGED <<handler, files, row, exists, registry, abandoned, stops>>

\* An existing package is accepted only with the same files and digests and
\* the same platform and overlay; then only the registry is made sure of.
Lookup(c) ==
    /\ PublishAt(c, "lookup")
    /\ LET v == publish_command[c].version IN
       \/ /\ row[v] = Nothing
          /\ GoTo(c, "env")
          /\ UNCHANGED told
       \/ /\ row[v] = {publish_command[c].release}
          /\ GoTo(c, "confirm-env")
          /\ UNCHANGED told
       \/ /\ row[v] \notin {Nothing, {publish_command[c].release}}
          /\ Report(c, "failed")
    /\ UNCHANGED <<publish_runs, exists, registry>> /\ UNCHANGED hubState

\* get_env, and create_env when it is not there.  The two are requests of
\* their own: the environment may appear in between.
EnsureEnv(c) ==
    /\ PublishAt(c, "env") \/ PublishAt(c, "confirm-env")
    /\ LET confirm == PublishAt(c, "confirm-env") IN
       GoTo(c, IF exists THEN (IF confirm THEN "confirm-version" ELSE "version")
                      ELSE (IF confirm THEN "confirm-create" ELSE "create"))
    /\ UNCHANGED <<publish_runs, told, exists, registry>> /\ UNCHANGED hubState

CreateEnv(c) ==
    /\ PublishAt(c, "create") \/ PublishAt(c, "confirm-create")
    /\ \/ /\ ~exists
          /\ exists' = TRUE
          /\ GoTo(c, IF PublishAt(c, "create") THEN "version" ELSE "confirm-version")
          /\ UNCHANGED told
       \/ /\ exists
          /\ Report(c, "failed")
          /\ UNCHANGED exists
    /\ UNCHANGED <<publish_runs, registry>> /\ UNCHANGED hubState

\* get_version: an entry that differs in entry point or minimum version ends
\* the command, a missing one is published next.
EnsureVersion(c) ==
    /\ PublishAt(c, "version") \/ PublishAt(c, "confirm-version")
    /\ LET v == publish_command[c].version
           confirm == PublishAt(c, "confirm-version") IN
       \/ /\ registry[v] = Nothing
          /\ GoTo(c, IF confirm THEN "confirm-publish" ELSE "publish")
          /\ UNCHANGED told
       \/ /\ registry[v] = {EntryOf[publish_command[c].release]}
          /\ IF confirm THEN Report(c, "ok")
                        ELSE GoTo(c, "request") /\ UNCHANGED told
       \/ /\ registry[v] \notin {Nothing, {EntryOf[publish_command[c].release]}}
          /\ Report(c, "failed")
    /\ UNCHANGED <<publish_runs, exists, registry>> /\ UNCHANGED hubState

\* publish_version of the registry refuses a version that exists by now.
PublishVersion(c) ==
    /\ PublishAt(c, "publish") \/ PublishAt(c, "confirm-publish")
    /\ LET v == publish_command[c].version IN
       \/ /\ registry[v] = Nothing
          /\ registry' = [registry EXCEPT ![v] = {EntryOf[publish_command[c].release]}]
          /\ IF PublishAt(c, "publish") THEN GoTo(c, "request") /\ UNCHANGED told
                                 ELSE Report(c, "ok")
       \/ /\ registry[v] # Nothing
          /\ Report(c, "failed")
          /\ UNCHANGED registry
    /\ UNCHANGED <<publish_runs, exists>> /\ UNCHANGED hubState

\* Any other client of the API may post a package that is malformed.
PostMalformed(c, v, r) ==
    /\ PublishAt(c, "done") /\ publish_runs[c] < MaxPublishRuns
    /\ r \notin WellFormed
    /\ publish_command' = [publish_command EXCEPT ![c] = [at |-> "request", version |-> v, release |-> r]]
    /\ publish_runs' = [publish_runs EXCEPT ![c] = @ + 1]
    /\ told' = [told EXCEPT ![c] = "nothing"]
    /\ UNCHANGED <<handler, files, row, exists, registry, abandoned, stops>>

\* publish_package of the client: the request reaches the Hub.
Request(c) ==
    /\ PublishAt(c, "request") /\ handler[c].at = "idle"
    /\ GoTo(c, "waiting")
    /\ handler' = [handler EXCEPT ![c] = [at |-> "check", next |-> 1]]
    /\ UNCHANGED <<publish_runs, told, files, row, exists, registry, abandoned, stops>>

\* The operator interrupts the command, or its connection fails: the command
\* ends without an answer.  A handler that waits for the database is dropped
\* with it (HandlerDropped).
LoseAnswer(c) ==
    /\ ~PublishAt(c, "done")
    /\ Report(c, "failed")
    /\ UNCHANGED <<publish_runs, exists, registry>> /\ UNCHANGED hubState

-----------------------------------------------------------------------------
(* The Hub's handler.                                                      *)

HubGoTo(c, place) == handler' = [handler EXCEPT ![c] = [at |-> place, next |-> 1]]

\* The answer reaches the command if it still waits for it.
Answer(c, result) ==
    /\ HubGoTo(c, "idle")
    /\ IF PublishAt(c, "waiting") THEN Report(c, result) ELSE UNCHANGED <<publish_command, told>>

RefuseDuplicate(c) ==
    /\ handler[c].at = "check"
    /\ row[publish_command[c].version] # Nothing
    /\ Answer(c, "failed")
    /\ UNCHANGED <<publish_runs, files, row, exists, registry, abandoned, stops>>

\* Everything the request alone decides comes before the first file:
\* the interface schema, names, kinds, contents and targets of the artifacts.
validate_publish_artifacts(c) ==
    /\ handler[c].at = "check"
    /\ row[publish_command[c].version] = Nothing
    /\ IF publish_command[c].release \in WellFormed
       THEN HubGoTo(c, "stage") /\ UNCHANGED <<publish_command, told>>
       ELSE Answer(c, "failed")
    /\ UNCHANGED <<publish_runs, files, row, exists, registry, abandoned, stops>>

LastFileLaterMutant(c) ==
    /\ handler[c].at = "stage"
    /\ LET v == publish_command[c].version
           r == publish_command[c].release
           i == handler[c].next
           name == FilesOf[r][i] IN
       /\ files[v][name] = Nothing
       /\ files' = [files EXCEPT ![v][name] = {r}]
       /\ handler' = [handler EXCEPT ![c] =
            IF i + 1 >= Len(FilesOf[r]) THEN [at |-> "insert", next |-> 1]
                                        ELSE [@ EXCEPT !.next = i + 1]]
       /\ UNCHANGED <<publish_command, told, abandoned>>
    /\ UNCHANGED <<publish_runs, row, exists, registry, stops>>

\* One file after the other, each opened with create_new: a file that is
\* there ends the request, and those already made stay.
stage_artifacts(c) ==
    /\ handler[c].at = "stage"
    /\ LET v == publish_command[c].version
           r == publish_command[c].release
           i == handler[c].next
           name == FilesOf[r][i] IN
       \/ /\ files[v][name] = Nothing
          /\ files' = [files EXCEPT ![v][name] = {r}]
          /\ handler' = [handler EXCEPT ![c] =
               IF i = Len(FilesOf[r]) THEN [at |-> "insert", next |-> 1]
                                      ELSE [@ EXCEPT !.next = i + 1]]
          /\ UNCHANGED <<publish_command, told, abandoned>>
       \/ /\ files[v][name] # Nothing
          /\ Answer(c, "failed")
          /\ abandoned' = abandoned \cup {v}
          /\ UNCHANGED files
    /\ UNCHANGED <<publish_runs, row, exists, registry, stops>>

\* publish_package of the store, one transaction: a version that has a row
\* by now is refused.
InsertRow(c) ==
    /\ handler[c].at = "insert"
    /\ LET v == publish_command[c].version IN
       \/ /\ row[v] = Nothing
          /\ row' = [row EXCEPT ![v] = {publish_command[c].release}]
          /\ Answer(c, "ok")
          /\ UNCHANGED abandoned
       \/ /\ row[v] # Nothing
          /\ Answer(c, "failed")
          /\ abandoned' = abandoned \cup {v}
          /\ UNCHANGED row
    /\ UNCHANGED <<publish_runs, files, exists, registry, stops>>

\* A handler whose client went away is dropped where it waits for the
\* database: before the check, or before the transaction commits.
HandlerDropped(c) ==
    /\ handler[c].at \in {"check", "insert"} /\ ~PublishAt(c, "waiting")
    /\ HubGoTo(c, "idle")
    /\ abandoned' = IF handler[c].at = "insert" THEN abandoned \cup {publish_command[c].version} ELSE abandoned
    /\ UNCHANGED <<publish_command, publish_runs, told, files, row, exists, registry, stops>>

\* The Hub stops and is started again: files and rows stay, handlers end.
HubStops ==
    /\ stops < MaxStops
    /\ stops' = stops + 1
    /\ abandoned' = abandoned \cup
         {publish_command[c].version : c \in {d \in Publishers : handler[d].at \in {"stage", "insert"}}}
    /\ handler' = [c \in Publishers |-> HubIdle]
    /\ LET cut == {c \in Publishers : PublishAt(c, "waiting")} IN
       /\ publish_command' = [c \in Publishers |-> IF c \in cut THEN [publish_command[c] EXCEPT !.at = "done"] ELSE publish_command[c]]
       /\ told' = [c \in Publishers |-> IF c \in cut THEN "failed" ELSE told[c]]
    /\ UNCHANGED <<publish_runs, files, row, exists, registry>>

-----------------------------------------------------------------------------
PublishInit ==
    /\ publish_command = [c \in Publishers |-> [at |-> "done", version |-> CHOOSE v \in PackageVersions : TRUE,
                                                     release |-> CHOOSE r \in Releases : TRUE]]
    /\ publish_runs = [c \in Publishers |-> 0]
    /\ told = [c \in Publishers |-> "nothing"]
    /\ handler = [c \in Publishers |-> HubIdle]
    /\ files = [v \in PackageVersions |-> [n \in FileNames |-> Nothing]]
    /\ row = [v \in PackageVersions |-> Nothing]
    /\ exists = FALSE
    /\ registry = [v \in PackageVersions |-> Nothing]
    /\ abandoned = {}
    /\ stops = 0

\* A command that was interrupted is run again only once its old handler is
\* gone; two commands at once are two members of Commands.
PublishNext ==
    \/ \E c \in Publishers :
         \/ \E v \in PackageVersions, r \in Releases :
              /\ handler[c].at = "idle"
              /\ run_publish_plugin(c, v, r) \/ PostMalformed(c, v, r)
         \/ Lookup(c) \/ EnsureEnv(c) \/ CreateEnv(c) \/ EnsureVersion(c)
         \/ PublishVersion(c) \/ Request(c) \/ LoseAnswer(c)
         \/ RefuseDuplicate(c) \/ validate_publish_artifacts(c)
         \/ stage_artifacts(c) \/ InsertRow(c) \/ HandlerDropped(c)
    \/ HubStops

PublishSpec == PublishInit /\ [][PublishNext]_publishVars

-----------------------------------------------------------------------------
PublishTypeOK ==
    /\ publish_command \in [Publishers -> [version : PackageVersions, release : Releases,
         at : {"done", "lookup", "env", "create", "version", "publish", "confirm-env", "confirm-create",
               "confirm-version", "confirm-publish", "request", "waiting"}]]
    /\ told \in [Publishers -> {"nothing", "ok", "failed"}]
    /\ \A c \in Publishers :
         /\ handler[c].at \in {"idle", "check", "stage", "insert"}
         /\ handler[c].next \in 1 .. Len(FilesOf[publish_command[c].release])
    /\ \A v \in PackageVersions : Cardinality(row[v]) <= 1 /\ Cardinality(registry[v]) <= 1
    /\ abandoned \subseteq PackageVersions

\* The files of a published version are the bytes whose digests its row has,
\* whatever other commands staged under the same version before or since:
\* create_new and the row's uniqueness together make a version immutable.
PublishedBytes ==
    \A v \in PackageVersions : \A r \in row[v] : \A n \in Range(FilesOf[r]) : files[v][n] = {r}

\* A package never exists without the registry version that announces it,
\* with the entry point and minimum worker version the package was built
\* with (ensure_process_plugin_registry_version comes first).
PackageIsRegistered ==
    \A v \in PackageVersions : \A r \in row[v] : registry[v] = {EntryOf[r]}

\* A command that reports success published exactly its own directory, or
\* found it published, even when another command was at the same version.
SuccessMeansPublished ==
    \A c \in Publishers : told[c] = "ok" => row[publish_command[c].version] = {publish_command[c].release}

\* Files without a row come from a staging that is under way, was cut short
\* by a stop or lost a race: a malformed request leaves none, so a corrected
\* retry is not blocked by it.
StrayFilesHaveACause ==
    \A v \in PackageVersions : (row[v] = Nothing /\ \E n \in FileNames : files[v][n] # Nothing) =>
        \/ v \in abandoned
        \/ \E c \in Publishers : handler[c].at \in {"stage", "insert"} /\ publish_command[c].version = v
                                 /\ publish_command[c].release \in WellFormed

\* Together: what the Hub has published is what was sent.
PublishedAsSent == PublishedBytes /\ SuccessMeansPublished /\ PackageIsRegistered /\ StrayFilesHaveACause

=============================================================================
