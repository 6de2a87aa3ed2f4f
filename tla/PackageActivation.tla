-------------------------- MODULE PackageActivation --------------------------
(***************************************************************************)
(* `uenv env sync [--activate]` on a worker host (uenv.rs: run_env_sync,   *)
(* run_package_sync, activate_process_plugin): a package version is        *)
(* downloaded into a staging directory of its own, renamed into place, and *)
(* selected by a link with a state file beside it, under a lock that is a  *)
(* directory.                                                              *)
(*                                                                         *)
(* Commands of several operators run at once on one file system and may    *)
(* be killed at any point; the file system keeps what it has.  Downloads,  *)
(* the installation of the Python runtime and the two renames of an        *)
(* activation may fail.  A package is abstracted to its number of inline   *)
(* files; the digest check makes a downloaded file right or absent.        *)
(***************************************************************************)
EXTENDS Naturals, FiniteSets

CONSTANTS
    Commands,       \* env sync commands
    Versions,       \* versions of the plugin's package
    NFiles,         \* inline artifacts of each version
    OutOfBand,      \* versions with an artifact that is not inline
    MaxRuns,        \* bound: runs of each command
    MaxStaging,     \* bound: staging directories ever made
    MaxFailures,    \* bound: operations that fail
    MaxKills        \* bound: commands killed

ActivationConstants == Versions # {} /\ NFiles \in Nat

VARIABLES
    command,    \* [at, version, activate, dir, next, previous] of each command
    staging,    \* staging directories: the files in them, or Absent
    dest,       \* destination of each version, or Absent
    venv,       \* Python runtime of each version: "none", "ready", "broken"
    locked,     \* the lock directory exists
    link,       \* version the link selects: {} or {v}
    state,      \* version the state file names: {} or {v}
    torn,       \* link and state were left different by a kill or a failed rollback
    selected,   \* link when the lock was last taken
    runs, failures, kills

activationVars == <<command, staging, dest, venv, locked, link, state, torn, selected, runs, failures, kills>>

Files == 1 .. NFiles
Dirs == 1 .. MaxStaging
Absent == [there |-> FALSE, files |-> {}, marker |-> FALSE]
Complete == [there |-> TRUE, files |-> Files, marker |-> TRUE]
bounds == <<runs, failures, kills>>
selection == <<venv, locked, link, state, torn, selected>>

At(c, place) == command[c].at = place
Goes(c, place) == command' = [command EXCEPT ![c].at = place]
Fail == failures < MaxFailures /\ failures' = failures + 1 /\ UNCHANGED <<runs, kills>>

\* synced_marker_matches and synced_package_files_match.
Verified(v) == dest[v].marker /\ dest[v].files = Files

-----------------------------------------------------------------------------
(* Synchronisation.                                                        *)

\* The request is validated and the manifest fetched; a version the Hub does
\* not have, or that is not for this node, ends the command here.
run_env_sync(c, v, activate) ==
    /\ At(c, "ended") /\ runs[c] < MaxRuns
    /\ runs' = [runs EXCEPT ![c] = @ + 1]
    /\ command' = [command EXCEPT ![c] =
         [at |-> "sync", version |-> v, activate |-> activate, dir |-> 0, next |-> 1,
          previous |-> {}]]
    /\ UNCHANGED <<staging, dest, failures, kills>> /\ UNCHANGED selection

\* A destination that exists is used if it verifies and refused otherwise;
\* it is never written to.
DestExists(c) ==
    /\ At(c, "sync")
    /\ LET v == command[c].version IN
       /\ dest[v].there
       /\ Goes(c, IF Verified(v) /\ command[c].activate THEN "verify" ELSE "ended")
    /\ UNCHANGED <<staging, dest>> /\ UNCHANGED selection /\ UNCHANGED bounds

\* create_dir of a name with the process, the time and a sequence number: an
\* existing name is passed over.
create_sync_staging_dir(c, d) ==
    /\ At(c, "sync") /\ ~dest[command[c].version].there
    /\ ~staging[d].there
    /\ staging' = [staging EXCEPT ![d] = [Absent EXCEPT !.there = TRUE]]
    /\ command' = [command EXCEPT ![c].at = "download", ![c].dir = d]
    /\ UNCHANGED dest /\ UNCHANGED selection /\ UNCHANGED bounds

\* One inline artifact after the other, each verified while it is written.
download_artifact_to_file(c) ==
    /\ At(c, "download") /\ command[c].next <= NFiles
    /\ LET d == command[c].dir
           got == staging[d] IN
       staging' = [staging EXCEPT
         ![d] = [got EXCEPT !.there = TRUE, !.files = got.files \cup {command[c].next}]]
    /\ command' = [command EXCEPT ![c].next = @ + 1]
    /\ UNCHANGED dest /\ UNCHANGED selection /\ UNCHANGED bounds

\* manifest.json and .synced are the last files, and say what was skipped.
WriteMarker(c) ==
    /\ At(c, "download")
    /\ LET d == command[c].dir IN
       /\ command[c].next > NFiles
       /\ staging' = [staging EXCEPT ![d].marker = TRUE]
    /\ Goes(c, "rename")
    /\ UNCHANGED dest /\ UNCHANGED selection /\ UNCHANGED bounds

\* A failed download, image load or write removes the staging directory.
SyncFails(c) ==
    /\ At(c, "download")
    /\ Fail
    /\ staging' = [staging EXCEPT ![command[c].dir] = Absent]
    /\ Goes(c, "ended")
    /\ UNCHANGED dest /\ UNCHANGED selection

\* rename of a directory does not replace one that is not empty: the loser
\* of a race removes its staging directory.
RenameIntoPlace(c) ==
    /\ At(c, "rename")
    /\ LET v == command[c].version
           d == command[c].dir IN
       /\ staging' = [staging EXCEPT ![d] = Absent]
       /\ IF dest[v].there
          THEN Goes(c, "ended") /\ UNCHANGED dest
          ELSE /\ dest' = [dest EXCEPT ![v] = staging[d]]
               /\ Goes(c, IF command[c].activate THEN "verify" ELSE "ended")
    /\ UNCHANGED selection /\ UNCHANGED bounds

-----------------------------------------------------------------------------
(* Activation.                                                             *)

\* Marker, digests and the plugin's own manifest; skipped artifacts refuse.
VerifyPackage(c) ==
    /\ At(c, "verify")
    /\ Goes(c, IF Verified(command[c].version) /\ command[c].version \notin OutOfBand
               THEN "runtime" ELSE "ended")
    /\ UNCHANGED <<staging, dest>> /\ UNCHANGED selection /\ UNCHANGED bounds

\* An existing runtime is used if it passes its check and left alone if not;
\* otherwise a new one is installed beside it.
RuntimeExists(c) ==
    /\ At(c, "runtime")
    /\ LET v == command[c].version IN
       /\ Goes(c, CASE venv[v] = "ready"  -> "lock"
                    [] venv[v] = "broken" -> "ended"
                    [] venv[v] = "none"   -> "install")
    /\ UNCHANGED <<staging, dest>> /\ UNCHANGED selection /\ UNCHANGED bounds

\* The installed runtime is renamed into place; the loser of a race goes on
\* with the winner's.
InstallRuntime(c) ==
    /\ At(c, "install")
    /\ LET v == command[c].version IN
       /\ venv' = [venv EXCEPT ![v] = IF @ = "none" THEN "ready" ELSE @]
       /\ Goes(c, IF venv[v] = "broken" THEN "ended" ELSE "lock")
    /\ UNCHANGED <<staging, dest, locked, link, state, torn, selected>> /\ UNCHANGED bounds

InstallFails(c) ==
    /\ At(c, "install")
    /\ Fail
    /\ Goes(c, "ended")
    /\ UNCHANGED <<staging, dest>> /\ UNCHANGED selection

\* create_dir of the lock: a lock that exists, held or stale, ends the
\* command.
acquire_activation_lock(c) ==
    /\ At(c, "lock")
    /\ \/ /\ ~locked
          /\ locked' = TRUE
          /\ selected' = link
          /\ Goes(c, "prepare")
       \/ /\ locked
          /\ Goes(c, "ended")
          /\ UNCHANGED <<locked, selected>>
    /\ UNCHANGED <<staging, dest, venv, link, state, torn>> /\ UNCHANGED bounds

\* The previous target is read, the pending link and the new state file are
\* made, all under names of this process.
PrepareSwitch(c) ==
    /\ At(c, "prepare")
    /\ command' = [command EXCEPT ![c].at = "switch", ![c].previous = link]
    /\ UNCHANGED <<staging, dest>> /\ UNCHANGED selection /\ UNCHANGED bounds

\* The lock is dropped with the command's guard.
Unlock(c) == locked' = FALSE /\ Goes(c, "ended")

PrepareFails(c) ==
    /\ At(c, "prepare") \/ At(c, "switch")
    /\ Fail
    /\ Unlock(c)
    /\ UNCHANGED <<staging, dest, venv, link, state, torn, selected>>

\* The pending link is renamed over the active one.
RenameLink(c) ==
    /\ At(c, "switch")
    /\ link' = {command[c].version}
    /\ Goes(c, "record")
    /\ UNCHANGED <<staging, dest, venv, locked, state, torn, selected>> /\ UNCHANGED bounds

\* The state file follows; only now is the activation reported.
RenameState(c) ==
    /\ At(c, "record")
    /\ state' = {command[c].version}
    /\ torn' = FALSE
    /\ Unlock(c)
    /\ UNCHANGED <<staging, dest, venv, link, selected>> /\ UNCHANGED bounds

RollBackNothingMutant(c) ==
    /\ At(c, "record")
    /\ Fail
    /\ Unlock(c)
    /\ UNCHANGED <<staging, dest, venv, link, state, torn, selected>>

\* The state file cannot be renamed: the link goes back to the previous
\* target, or is removed if there was none.
RollBack(c) ==
    /\ At(c, "record")
    /\ Fail
    /\ link' = command[c].previous
    /\ Unlock(c)
    /\ UNCHANGED <<staging, dest, venv, state, torn, selected>>

\* ... and if that fails too the operator is told to inspect the link.
RollBackFails(c) ==
    /\ At(c, "record")
    /\ Fail
    /\ torn' = TRUE
    /\ Unlock(c)
    /\ UNCHANGED <<staging, dest, venv, link, state, selected>>

\* A killed command leaves its staging directory and its lock behind.
Kill(c) ==
    /\ kills < MaxKills
    /\ ~At(c, "ended")
    /\ kills' = kills + 1
    /\ torn' = (torn \/ At(c, "record"))
    /\ Goes(c, "ended")
    /\ UNCHANGED <<staging, dest, venv, locked, link, state, selected, runs, failures>>

\* "if no activation is running, remove stale lock".
RemoveStaleLock ==
    /\ locked
    /\ \A c \in Commands : command[c].at \notin {"prepare", "switch", "record"}
    /\ locked' = FALSE
    /\ UNCHANGED <<command, staging, dest, venv, link, state, torn, selected>> /\ UNCHANGED bounds

-----------------------------------------------------------------------------
\* A directory that something else left at a destination has no valid marker.
ActivationInit ==
    /\ command = [c \in Commands |-> [at |-> "ended", version |-> CHOOSE v \in Versions : TRUE,
                                      activate |-> FALSE, dir |-> 0, next |-> 1, previous |-> {}]]
    /\ staging = [d \in Dirs |-> Absent]
    /\ dest \in [Versions -> {Absent, [there |-> TRUE, files |-> {}, marker |-> FALSE]}]
    /\ venv \in [Versions -> {"none", "broken"}]
    /\ \A v \in Versions : venv[v] = "broken" => dest[v].there
    /\ locked = FALSE
    /\ link = {} /\ state = {} /\ torn = FALSE /\ selected = {}
    /\ runs = [c \in Commands |-> 0]
    /\ failures = 0 /\ kills = 0

ActivationNext ==
    \/ \E c \in Commands :
         \/ \E v \in Versions, activate \in BOOLEAN : run_env_sync(c, v, activate)
         \/ DestExists(c)
         \/ \E d \in Dirs : create_sync_staging_dir(c, d)
         \/ download_artifact_to_file(c)
         \/ WriteMarker(c) \/ SyncFails(c) \/ RenameIntoPlace(c)
         \/ VerifyPackage(c) \/ RuntimeExists(c) \/ InstallRuntime(c) \/ InstallFails(c)
         \/ acquire_activation_lock(c) \/ PrepareSwitch(c) \/ PrepareFails(c)
         \/ RenameLink(c) \/ RenameState(c) \/ RollBack(c) \/ RollBackFails(c)
         \/ Kill(c)
    \/ RemoveStaleLock

ActivationSpec == ActivationInit /\ [][ActivationNext]_activationVars

-----------------------------------------------------------------------------
\* A destination with a marker has every file of its version, whichever
\* commands downloaded it at the same time, failed or were killed: each works
\* in a directory no other can reach until the rename.
MarkerMeansComplete ==
    \A v \in Versions : dest[v].marker => dest[v] = Complete

\* The selected version has all its files, verified, a working runtime and
\* nothing left to fetch out of band.
ActiveIsUsable ==
    \A v \in link : Verified(v) /\ venv[v] = "ready" /\ v \notin OutOfBand

\* Outside an activation the state file names the version the link selects,
\* unless a command was killed between the two renames or its operator was
\* told to inspect the link.
LinkMatchesState == (~locked /\ ~torn) => link = state

\* Together: what is on a host is consistent.
InstalledIsConsistent == MarkerMeansComplete /\ ActiveIsUsable /\ LinkMatchesState

=============================================================================
