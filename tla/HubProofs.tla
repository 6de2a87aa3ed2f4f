------------------------------ MODULE HubProofs ------------------------------
(***************************************************************************)
(* Proofs about the Hub and about what is installed from it, for any       *)
(* number of environments, versions, packages, commands and starts:        *)
(*   PackageActivation  what is on a host is consistent                    *)
(*   HubRegistry        the latest version of an environment               *)
(*   EnvRelease         the rules that a fetch brings are those measured   *)
(*   PackagePublish     what is published is what was sent                 *)
(*   HubSeed            what a started Hub offers under its standard names *)
(***************************************************************************)
EXTENDS PackageActivation, HubRegistry, PackagePublish, EnvRelease, HubSeed, QueueProofs

-----------------------------------------------------------------------------
(* PackageActivation: the inductive invariant.                             *)

Places == {"ended", "sync", "download", "rename", "verify", "runtime", "install",
           "lock", "prepare", "switch", "record"}
Progress == [at : Places, version : Versions, activate : BOOLEAN, dir : Dirs \cup {0},
             next : Nat, previous : SUBSET Versions]
Directories == [there : BOOLEAN, files : SUBSET Files, marker : BOOLEAN]
Downloaded(n) == [there |-> TRUE, files |-> 1 .. n - 1, marker |-> FALSE]

HostTypes ==
    /\ command \in [Commands -> Progress]
    /\ staging \in [Dirs -> Directories]
    /\ dest \in [Versions -> Directories]
    /\ venv \in [Versions -> {"none", "ready", "broken"}]
    /\ locked \in BOOLEAN /\ torn \in BOOLEAN
    /\ link \in SUBSET Versions /\ state \in SUBSET Versions

\* A command that downloads has a directory of its own, with the files it
\* has fetched so far.
Downloads(c) ==
    /\ At(c, "sync") => command[c].next = 1
    /\ At(c, "download") => /\ command[c].dir \in Dirs /\ command[c].next \in 1 .. NFiles + 1
                            /\ staging[command[c].dir] = Downloaded(command[c].next)
    /\ At(c, "rename") => command[c].dir \in Dirs /\ staging[command[c].dir] = Complete
Busy(c) == At(c, "download") \/ At(c, "rename")
OwnDirectories ==
    /\ \A c \in Commands : Downloads(c)
    /\ \A c, d \in Commands : Busy(c) /\ Busy(d) /\ command[c].dir = command[d].dir => c = d

\* What is needed of a version is checked before the lock is taken and stays.
Fetched(v) == dest[v] = Complete /\ v \notin OutOfBand
Usable(v) == Fetched(v) /\ venv[v] = "ready"
Checked(c) ==
    /\ command[c].at \in {"runtime", "install", "lock", "prepare", "switch", "record"} => Fetched(command[c].version)
    /\ command[c].at \in {"lock", "prepare", "switch", "record"} => Usable(command[c].version)
    /\ command[c].at \in {"switch", "record"} => \A v \in command[c].previous : Usable(v)
SelectedIsUsable == (\A c \in Commands : Checked(c)) /\ \A v \in link : Usable(v)

\* One command at a time switches; it knows what was selected before, and
\* the state file still says so.
Switches(c) == command[c].at \in {"prepare", "switch", "record"}
OneSwitches ==
    /\ \A c \in Commands : Switches(c) => locked
    /\ \A c, d \in Commands : Switches(c) /\ Switches(d) => c = d
    /\ \A c \in Commands : At(c, "switch") => link = command[c].previous
    /\ \A c \in Commands : At(c, "record") => link = {command[c].version} /\ (torn \/ state = command[c].previous)
    /\ torn \/ link = state \/ \E c \in Commands : At(c, "record")

Installed == HostTypes /\ OwnDirectories /\ MarkerMeansComplete /\ SelectedIsUsable /\ OneSwitches

-----------------------------------------------------------------------------
(* The steps of one command.                                               *)

Others(c) == \A d \in Commands \ {c} : command'[d] = command[d]

\* Only its place changes.
Moved(c, place) ==
    /\ command' \in [Commands -> Progress] /\ Others(c)
    /\ command'[c] = [command[c] EXCEPT !.at = place]
    /\ command'[c].at = place /\ command'[c].version = command[c].version /\ command'[c].dir = command[c].dir
    /\ command'[c].next = command[c].next /\ command'[c].previous = command[c].previous

LEMMA GoesTo ==
    ASSUME HostTypes, NEW c \in Commands, NEW place \in Places, Goes(c, place)
    PROVE  Moved(c, place)
<1> DEFINE n == [command[c] EXCEPT !.at = place]
<1>1. command[c] \in Progress /\ command \in [Commands -> Progress]
  BY DEF HostTypes
<1>2. /\ n \in Progress /\ n.at = place /\ n.version = command[c].version /\ n.dir = command[c].dir
      /\ n.next = command[c].next /\ n.previous = command[c].previous
  BY <1>1 DEF Progress
<1>3. command' = [command EXCEPT ![c] = n]
  BY <1>1 DEF Goes, Progress
<1>4. command'[c] = n
  BY <1>1, <1>3
<1> HIDE DEF n
<1>5. command' \in [Commands -> Progress] /\ command'[c] = n /\ Others(c)
  BY <1>1, <1>2, <1>3 DEF Others
<1> QED
  BY <1>2, <1>4, <1>5 DEF Moved, n

LEMMA InitInstalled == ASSUME ActivationConstants PROVE ActivationInit => Installed
<1> SUFFICES ASSUME ActivationInit PROVE Installed
  OBVIOUS
<1>1. (CHOOSE v \in Versions : TRUE) \in Versions
  BY DEF ActivationConstants
<1>2. HostTypes
  <2>1. command \in [Commands -> Progress]
    BY <1>1 DEF ActivationInit, Progress, Places
  <2>2. Absent \in Directories /\ [there |-> TRUE, files |-> {}, marker |-> FALSE] \in Directories
    BY DEF Absent, Directories
  <2>3. staging \in [Dirs -> Directories] /\ dest \in [Versions -> Directories]
    BY <2>2 DEF ActivationInit
  <2> QED
    BY <2>1, <2>3 DEF ActivationInit, HostTypes
<1>3. \A c \in Commands : command[c].at = "ended"
  BY DEF ActivationInit
<1>4. OwnDirectories /\ SelectedIsUsable /\ OneSwitches
  BY <1>3 DEF ActivationInit, OwnDirectories, Downloads, Busy, SelectedIsUsable, Checked, OneSwitches, Switches, At
<1>5. MarkerMeansComplete
  BY DEF ActivationInit, MarkerMeansComplete, Absent
<1> QED
  BY <1>2, <1>4, <1>5 DEF Installed

\* A command that neither starts to switch nor has to do with directories.
LEMMA MoveKeeps ==
    ASSUME Installed, NEW c \in Commands, NEW place \in Places, Goes(c, place),
           UNCHANGED <<staging, dest, link, state, locked, torn>>,
           venv' \in [Versions -> {"none", "ready", "broken"}],
           \A v \in Versions : venv[v] = "ready" => venv'[v] = "ready",
           place \in {"ended", "verify", "runtime", "install", "lock"},
           command[c].at \notin {"prepare", "switch", "record"},
           place \in {"runtime", "install", "lock"} => Fetched(command[c].version),
           place = "lock" => venv'[command[c].version] = "ready"
    PROVE  Installed'
<1>1. HostTypes /\ Moved(c, place)
  BY GoesTo DEF Installed
<1>2. HostTypes'
  BY <1>1 DEF HostTypes, Moved
<1>3. /\ \A d \in Commands : d # c => command'[d] = command[d]
      /\ command'[c].at = place /\ command'[c].version = command[c].version /\ command[c].version \in Versions
  BY <1>1 DEF Moved, Others, HostTypes, Progress
<1>4. OwnDirectories'
  <2>1. ASSUME NEW d \in Commands PROVE Downloads(d)'
    BY <1>3 DEF Installed, OwnDirectories, Downloads, At, Downloaded
  <2>2. \A d \in Commands : Busy(d)' => d # c /\ Busy(d)
    BY <1>3 DEF Busy, At
  <2>3. \A d, e \in Commands : Busy(d)' /\ Busy(e)' /\ command'[d].dir = command'[e].dir => d = e
    BY <1>3, <2>2 DEF Installed, OwnDirectories
  <2> QED
    BY <2>1, <2>3 DEF OwnDirectories
<1>5. \A v \in Versions : Usable(v) => Usable(v)'
  BY DEF Usable, Fetched
<1>6. SelectedIsUsable'
  <2>1. ASSUME NEW d \in Commands PROVE Checked(d)'
    <3>1. command[d] \in Progress /\ Checked(d)
      BY <1>1 DEF HostTypes, Installed, SelectedIsUsable
    <3>2. CASE d = c
      BY <1>3, <3>2 DEF Checked, Usable, Fetched
    <3>3. CASE d # c
      BY <1>3, <1>5, <3>1, <3>3 DEF Checked, Fetched, Progress
    <3> QED
      BY <3>2, <3>3
  <2>2. \A v \in link' : Usable(v)'
    BY <1>1, <1>5 DEF Installed, SelectedIsUsable, HostTypes
  <2> QED
    BY <2>1, <2>2 DEF SelectedIsUsable
<1>7. OneSwitches'
  <2>1. \A d \in Commands : Switches(d)' => d # c /\ Switches(d)
    BY <1>3 DEF Switches
  <2>2. \A d \in Commands : /\ command'[d].at = "switch" => d # c /\ command[d].at = "switch"
                            /\ command'[d].at = "record" => d # c /\ command[d].at = "record"
                            /\ command[d].at = "record" => command'[d].at = "record"
    BY <1>3 DEF At
  <2>3. OneSwitches /\ locked' = locked /\ link' = link /\ state' = state /\ torn' = torn
    BY DEF Installed
  <2>4. /\ \A d \in Commands : At(d, "switch")' => link' = command'[d].previous
        /\ \A d \in Commands : At(d, "record")' => link' = {command'[d].version}
    BY <1>3, <2>2, <2>3 DEF OneSwitches, At
  <2>5. \A d \in Commands : At(d, "record")' => torn' \/ state' = command'[d].previous
    <3> SUFFICES ASSUME NEW d \in Commands, At(d, "record")' PROVE torn' \/ state' = command'[d].previous
      OBVIOUS
    <3>1. At(d, "record") /\ command'[d] = command[d]
      BY <1>3, <2>2 DEF At
    <3> QED
      BY <2>3, <3>1 DEF OneSwitches
  <2>6. torn' \/ link' = state' \/ \E d \in Commands : At(d, "record")'
    <3>1. CASE torn \/ link = state
      BY <2>3, <3>1
    <3>2. CASE \E d \in Commands : At(d, "record")
      <4>1. PICK d \in Commands : At(d, "record")
        BY <3>2
      <4>2. At(d, "record")'
        BY <2>2, <4>1 DEF At
      <4> QED
        BY <4>2
    <3> QED
      BY <2>3, <3>1, <3>2 DEF OneSwitches
  <2>7. /\ \A d \in Commands : Switches(d)' => locked'
        /\ \A d, e \in Commands : Switches(d)' /\ Switches(e)' => d = e
    BY <2>1, <2>3 DEF OneSwitches
  <2> QED
    BY <2>4, <2>5, <2>6, <2>7 DEF OneSwitches
<1>8. MarkerMeansComplete'
  BY DEF Installed, MarkerMeansComplete
<1> QED
  BY <1>2, <1>4, <1>6, <1>7, <1>8 DEF Installed

\* A command that synchronises: it leaves the directories of the others alone,
\* and what is complete stays.
LEMMA SyncKeeps ==
    ASSUME Installed, NEW c \in Commands, command' \in [Commands -> Progress], Others(c),
           command[c].at \in {"ended", "sync", "download", "rename"},
           command'[c].at \in {"ended", "sync", "download", "rename", "verify"},
           staging' \in [Dirs -> Directories], dest' \in [Versions -> Directories], UNCHANGED selection,
           \A v \in Versions : dest[v] = Complete => dest'[v] = Complete,
           MarkerMeansComplete', Downloads(c)',
           \A d \in Commands \ {c} : Busy(d) =>
                /\ staging'[command[d].dir] = staging[command[d].dir]
                /\ Busy(c)' => command'[c].dir # command[d].dir
    PROVE  Installed'
<1>1. /\ UNCHANGED <<venv, locked, link, state, torn>>
      /\ \A d \in Commands : d # c => command'[d] = command[d]
  BY DEF selection, Others
<1>2. HostTypes'
  BY <1>1 DEF Installed, HostTypes
<1>3. OwnDirectories'
  <2>1. ASSUME NEW d \in Commands, d # c PROVE Downloads(d)'
    BY <1>1, <2>1 DEF Installed, OwnDirectories, Downloads, At, Downloaded, Busy
  <2>2. \A d \in Commands : d # c => (Busy(d)' <=> Busy(d))
    BY <1>1 DEF Busy, At
  <2>3. \A d, e \in Commands : Busy(d)' /\ Busy(e)' /\ command'[d].dir = command'[e].dir => d = e
    BY <1>1, <2>2 DEF Installed, OwnDirectories
  <2> QED
    BY <2>1, <2>3 DEF OwnDirectories
<1>4. \A v \in Versions : (Usable(v) => Usable(v)') /\ (Fetched(v) => Fetched(v)')
  BY <1>1 DEF Usable, Fetched
<1>5. SelectedIsUsable'
  <2>1. ASSUME NEW d \in Commands PROVE Checked(d)'
    <3>1. command[d] \in Progress /\ Checked(d)
      BY DEF HostTypes, Installed, SelectedIsUsable
    <3>2. CASE d = c
      BY <3>2 DEF Checked
    <3>3. CASE d # c
      BY <1>1, <1>4, <3>1, <3>3 DEF Checked, Progress
    <3> QED
      BY <3>2, <3>3
  <2>2. \A v \in link' : Usable(v)'
    BY <1>1, <1>4 DEF Installed, SelectedIsUsable, HostTypes
  <2> QED
    BY <2>1, <2>2 DEF SelectedIsUsable
<1>6. OneSwitches'
  <2>1. \A d \in Commands : Switches(d)' => d # c /\ Switches(d)
    BY <1>1 DEF Switches
  <2>2. \A d \in Commands : /\ command'[d].at = "switch" => d # c /\ command[d].at = "switch"
                            /\ command'[d].at = "record" => d # c /\ command[d].at = "record"
                            /\ command[d].at = "record" => command'[d].at = "record"
    BY <1>1 DEF At
  <2>3. OneSwitches
    BY DEF Installed
  <2>4. /\ \A d \in Commands : At(d, "switch")' => link' = command'[d].previous
        /\ \A d \in Commands : At(d, "record")' => link' = {command'[d].version}
    BY <1>1, <2>2, <2>3 DEF OneSwitches, At
  <2>5. \A d \in Commands : At(d, "record")' => torn' \/ state' = command'[d].previous
    <3> SUFFICES ASSUME NEW d \in Commands, At(d, "record")' PROVE torn' \/ state' = command'[d].previous
      OBVIOUS
    <3>1. At(d, "record") /\ command'[d] = command[d]
      BY <1>1, <2>2 DEF At
    <3> QED
      BY <1>1, <2>3, <3>1 DEF OneSwitches
  <2>6. torn' \/ link' = state' \/ \E d \in Commands : At(d, "record")'
    BY <1>1, <2>2, <2>3 DEF OneSwitches, At
  <2>7. /\ \A d \in Commands : Switches(d)' => locked'
        /\ \A d, e \in Commands : Switches(d)' /\ Switches(e)' => d = e
    BY <1>1, <2>1, <2>3 DEF OneSwitches
  <2> QED
    BY <2>4, <2>5, <2>6, <2>7 DEF OneSwitches
<1> QED
  BY <1>2, <1>3, <1>5, <1>6 DEF Installed

\* A command on its way through the lock.
LEMMA SwitchKeeps ==
    ASSUME Installed, NEW c \in Commands, command' \in [Commands -> Progress], Others(c),
           command'[c].at \in {"ended", "prepare", "switch", "record"},
           UNCHANGED <<staging, dest, venv>>, locked' \in BOOLEAN, torn' \in BOOLEAN,
           link' \in SUBSET Versions, state' \in SUBSET Versions,
           Checked(c)', \A v \in link' : Usable(v), OneSwitches'
    PROVE  Installed'
<1>1. \A d \in Commands : d # c => command'[d] = command[d]
  BY DEF Others
<1>2. HostTypes' /\ MarkerMeansComplete'
  BY DEF Installed, HostTypes, MarkerMeansComplete
<1>3. OwnDirectories'
  <2>1. ASSUME NEW d \in Commands PROVE Downloads(d)'
    BY <1>1 DEF Installed, OwnDirectories, Downloads, At, Downloaded
  <2>2. \A d \in Commands : Busy(d)' => d # c /\ Busy(d)
    BY <1>1 DEF Busy, At
  <2>3. \A d, e \in Commands : Busy(d)' /\ Busy(e)' /\ command'[d].dir = command'[e].dir => d = e
    BY <1>1, <2>2 DEF Installed, OwnDirectories
  <2> QED
    BY <2>1, <2>3 DEF OwnDirectories
<1>4. SelectedIsUsable'
  <2>1. ASSUME NEW d \in Commands, d # c PROVE Checked(d)'
    BY <1>1, <2>1 DEF Checked, Installed, SelectedIsUsable, Usable, Fetched
  <2>2. \A v \in link' : Usable(v)'
    BY DEF Usable, Fetched
  <2> QED
    BY <2>1, <2>2 DEF SelectedIsUsable
<1> QED
  BY <1>2, <1>3, <1>4 DEF Installed

-----------------------------------------------------------------------------
(* Synchronisation.                                                        *)

\* What a change of the place of a command in a directory of its own needs.
LEMMA OnlyHere ==
    ASSUME HostTypes, NEW c \in Commands, NEW n \in Progress, command' = [command EXCEPT ![c] = n]
    PROVE  command' \in [Commands -> Progress] /\ command'[c] = n /\ Others(c)
  BY DEF HostTypes, Others

LEMMA SameDirectory ==
    ASSUME NEW f \in Directories, NEW g \in Directories,
           f.there = g.there, f.files = g.files, f.marker = g.marker
    PROVE  f = g
  BY DEF Directories

LEMMA StartKeeps ==
    ASSUME Installed, NEW c \in Commands, NEW v \in Versions, NEW activate \in BOOLEAN,
           run_env_sync(c, v, activate)
    PROVE  Installed'
<1> DEFINE n == [at |-> "sync", version |-> v, activate |-> activate, dir |-> 0, next |-> 1, previous |-> {}]
<1>1. n \in Progress /\ n.at = "sync" /\ n.next = 1
  BY DEF Progress, Places
<1>2. /\ command' = [command EXCEPT ![c] = n] /\ command[c].at = "ended"
      /\ UNCHANGED <<staging, dest>> /\ UNCHANGED selection
  BY DEF run_env_sync, At
<1> HIDE DEF n
<1>3. command' \in [Commands -> Progress] /\ command'[c] = n /\ Others(c)
  BY <1>1, <1>2, OnlyHere DEF Installed
<1>4. Downloads(c)' /\ ~Busy(c)'
  BY <1>1, <1>3 DEF Downloads, Busy, At
<1>5. MarkerMeansComplete' /\ staging' \in [Dirs -> Directories] /\ dest' \in [Versions -> Directories]
  BY <1>2 DEF Installed, HostTypes, MarkerMeansComplete
<1> QED
  BY <1>1, <1>2, <1>3, <1>4, <1>5, SyncKeeps

LEMMA CreateKeeps ==
    ASSUME Installed, ActivationConstants, NEW c \in Commands, NEW d \in Dirs, create_sync_staging_dir(c, d)
    PROVE  Installed'
<1> DEFINE n == [command[c] EXCEPT !.at = "download", !.dir = d]
           empty == [Absent EXCEPT !.there = TRUE]
<1>1. command[c] \in Progress /\ command[c].at = "sync" /\ command[c].next = 1
  BY DEF Installed, HostTypes, OwnDirectories, Downloads, At, create_sync_staging_dir
<1>2. n \in Progress /\ n.at = "download" /\ n.dir = d /\ n.next = 1
  BY <1>1 DEF Progress, Places
<1>3. command' = [command EXCEPT ![c] = n]
  BY <1>1 DEF create_sync_staging_dir, Progress, Installed, HostTypes
<1> HIDE DEF n
<1>4. command' \in [Commands -> Progress] /\ command'[c] = n /\ Others(c)
  BY <1>2, <1>3, OnlyHere DEF Installed
<1>5. empty \in Directories /\ empty = Downloaded(1)
  <2>1. Absent \in Directories
    BY DEF Absent, Directories
  <2>2. empty \in Directories
    BY <2>1 DEF Directories
  <2>3. empty.there = TRUE /\ empty.files = {} /\ empty.marker = FALSE
    BY DEF Absent
  <2>4. 1 .. 1 - 1 = {}
    OBVIOUS
  <2>5. Downloaded(1) \in Directories /\ Downloaded(1).there = TRUE /\ Downloaded(1).files = {}
        /\ Downloaded(1).marker = FALSE
    BY <2>4 DEF Directories, Downloaded
  <2> QED
    BY <2>2, <2>3, <2>5, SameDirectory
<1>6. /\ staging' = [staging EXCEPT ![d] = empty] /\ ~staging[d].there
      /\ UNCHANGED dest /\ UNCHANGED selection
  BY DEF create_sync_staging_dir
<1> HIDE DEF empty
<1>7. staging' \in [Dirs -> Directories] /\ staging'[d] = empty /\ \A e \in Dirs : e # d => staging'[e] = staging[e]
  BY <1>5, <1>6 DEF Installed, HostTypes
<1>8. \A x \in Commands : Busy(x) => command[x].dir \in Dirs /\ command[x].dir # d
  <2> SUFFICES ASSUME NEW x \in Commands, Busy(x) PROVE command[x].dir \in Dirs /\ command[x].dir # d
    OBVIOUS
  <2>1. Downloads(x)
    BY DEF Installed, OwnDirectories
  <2>2. command[x].dir \in Dirs /\ staging[command[x].dir].there
    BY <2>1 DEF Downloads, Busy, Downloaded, Complete
  <2> QED
    BY <1>6, <2>2
<1>9. Downloads(c)'
  BY <1>2, <1>4, <1>5, <1>7 DEF Downloads, At, ActivationConstants
<1>10. \A x \in Commands \ {c} : Busy(x) =>
            /\ staging'[command[x].dir] = staging[command[x].dir]
            /\ command'[c].dir # command[x].dir
  BY <1>2, <1>4, <1>7, <1>8
<1>11. MarkerMeansComplete' /\ dest' \in [Versions -> Directories]
  BY <1>6 DEF Installed, HostTypes, MarkerMeansComplete
<1> QED
  BY <1>1, <1>2, <1>4, <1>6, <1>7, <1>9, <1>10, <1>11, SyncKeeps

\* A command that has a directory changes it, or gives it back.
LEMMA OwnStaging ==
    ASSUME Installed, NEW c \in Commands, Busy(c), NEW f \in Directories,
           staging' = [staging EXCEPT ![command[c].dir] = f], command'[c].dir = command[c].dir
    PROVE  /\ staging' \in [Dirs -> Directories] /\ staging'[command[c].dir] = f
           /\ \A x \in Commands \ {c} : Busy(x) =>
                  /\ staging'[command[x].dir] = staging[command[x].dir]
                  /\ command'[c].dir # command[x].dir
<1>1. \A x \in Commands : Busy(x) => command[x].dir \in Dirs
  BY DEF Installed, OwnDirectories, Downloads, Busy
<1>2. \A x \in Commands \ {c} : Busy(x) => command[x].dir # command[c].dir
  BY DEF Installed, OwnDirectories
<1>3. staging \in [Dirs -> Directories]
  BY DEF Installed, HostTypes
<1> QED
  BY <1>1, <1>2, <1>3

LEMMA DownloadKeeps ==
    ASSUME Installed, ActivationConstants, NEW c \in Commands, download_artifact_to_file(c)
    PROVE  Installed'
<1> DEFINE k == command[c].next  d == command[c].dir
           n == [command[c] EXCEPT !.next = k + 1]
           f == [staging[d] EXCEPT !.there = TRUE, !.files = staging[d].files \cup {k}]
<1>1. /\ command[c] \in Progress /\ command[c].at = "download" /\ d \in Dirs /\ k \in Nat /\ k \in 1 .. NFiles
      /\ staging[d] = Downloaded(k) /\ Busy(c) /\ staging \in [Dirs -> Directories] /\ NFiles \in Nat
  BY DEF Installed, HostTypes, OwnDirectories, Downloads, At, Busy, download_artifact_to_file, ActivationConstants, Progress
<1>2. n \in Progress /\ n.at = "download" /\ n.dir = d /\ n.next = k + 1
  BY <1>1 DEF Progress
<1>3. command' = [command EXCEPT ![c] = n]
  BY <1>1 DEF download_artifact_to_file, Progress, Installed, HostTypes
<1>4. staging' = [staging EXCEPT ![d] = f]
  BY <1>1 DEF download_artifact_to_file
<1>5. f = Downloaded(k + 1)
  <2>1. (1 .. k - 1) \cup {k} = 1 .. (k + 1) - 1
    BY <1>1
  <2>2. staging[d] \in Directories /\ staging[d].files = 1 .. k - 1 /\ staging[d].marker = FALSE
    BY <1>1 DEF Downloaded
  <2>3. k \in Files /\ staging[d].files \cup {k} \in SUBSET Files
    BY <1>1, <2>2 DEF Files
  <2>4. f \in Directories
    BY <2>2, <2>3 DEF Directories
  <2>5. f.there = TRUE /\ f.files = 1 .. (k + 1) - 1 /\ f.marker = FALSE
    BY <2>1, <2>2 DEF Directories
  <2>6. Downloaded(k + 1) \in Directories /\ Downloaded(k + 1).there = TRUE
        /\ Downloaded(k + 1).files = 1 .. (k + 1) - 1 /\ Downloaded(k + 1).marker = FALSE
    BY <1>1 DEF Downloaded, Directories, Files
  <2> QED
    BY <2>4, <2>5, <2>6, SameDirectory
<1>6. Downloaded(k + 1) \in Directories /\ k + 1 \in 1 .. NFiles + 1
  BY <1>1 DEF Downloaded, Directories, Files
<1>7. UNCHANGED dest /\ UNCHANGED selection
  BY DEF download_artifact_to_file
<1> HIDE DEF n, f
<1>8. command' \in [Commands -> Progress] /\ command'[c] = n /\ Others(c)
  BY <1>2, <1>3, OnlyHere DEF Installed
<1>9. /\ staging' \in [Dirs -> Directories] /\ staging'[d] = f
      /\ \A x \in Commands \ {c} : Busy(x) => /\ staging'[command[x].dir] = staging[command[x].dir]
                                               /\ command'[c].dir # command[x].dir
  BY <1>1, <1>2, <1>4, <1>5, <1>6, <1>8, OwnStaging
<1>10. Downloads(c)'
  BY <1>1, <1>2, <1>5, <1>6, <1>8, <1>9 DEF Downloads, At
<1>11. MarkerMeansComplete' /\ dest' \in [Versions -> Directories]
  BY <1>7 DEF Installed, HostTypes, MarkerMeansComplete
<1> QED
  BY <1>1, <1>2, <1>7, <1>8, <1>9, <1>10, <1>11, SyncKeeps

LEMMA MarkerKeeps ==
    ASSUME Installed, ActivationConstants, NEW c \in Commands, WriteMarker(c)
    PROVE  Installed'
<1> DEFINE k == command[c].next  d == command[c].dir
           f == [staging[d] EXCEPT !.marker = TRUE]
<1>1. /\ command[c].at = "download" /\ d \in Dirs /\ k \in 1 .. NFiles + 1 /\ k > NFiles
      /\ staging[d] = Downloaded(k) /\ Busy(c) /\ staging \in [Dirs -> Directories] /\ NFiles \in Nat
  BY DEF Installed, HostTypes, OwnDirectories, Downloads, At, Busy, WriteMarker, ActivationConstants
<1>2. /\ Moved(c, "rename") /\ UNCHANGED dest /\ UNCHANGED selection
  BY GoesTo DEF WriteMarker, Installed, Places
<1>3. staging' = [staging EXCEPT ![d] = f]
  BY <1>1 DEF WriteMarker
<1>4. f \in Directories /\ f = Complete
  <2>1. 1 .. k - 1 = Files
    BY <1>1 DEF Files
  <2>2. staging[d] \in Directories /\ staging[d].there = TRUE /\ staging[d].files = Files
    BY <1>1, <2>1 DEF Downloaded
  <2>3. f \in Directories
    BY <2>2 DEF Directories
  <2>4. f.there = TRUE /\ f.files = Files /\ f.marker = TRUE
    BY <2>2 DEF Directories
  <2>5. Complete \in Directories /\ Complete.there = TRUE /\ Complete.files = Files /\ Complete.marker = TRUE
    BY DEF Complete, Directories
  <2> QED
    BY <2>3, <2>4, <2>5, SameDirectory
<1> HIDE DEF f
<1>5. command' \in [Commands -> Progress] /\ command'[c].at = "rename" /\ command'[c].dir = d /\ Others(c)
  BY <1>2 DEF Moved
<1>6. /\ staging' \in [Dirs -> Directories] /\ staging'[d] = f
      /\ \A x \in Commands \ {c} : Busy(x) => /\ staging'[command[x].dir] = staging[command[x].dir]
                                               /\ command'[c].dir # command[x].dir
  BY <1>1, <1>3, <1>4, <1>5, OwnStaging
<1>7. Downloads(c)'
  BY <1>1, <1>4, <1>5, <1>6 DEF Downloads, At
<1>8. MarkerMeansComplete' /\ dest' \in [Versions -> Directories]
  BY <1>2 DEF Installed, HostTypes, MarkerMeansComplete
<1> QED
  BY <1>1, <1>2, <1>5, <1>6, <1>7, <1>8, SyncKeeps

\* A directory is given back, its command ends or goes on with the package.
LEMMA GiveBackKeeps ==
    ASSUME Installed, NEW c \in Commands, Busy(c), NEW place \in {"ended", "verify"}, Goes(c, place),
           staging' = [staging EXCEPT ![command[c].dir] = Absent], UNCHANGED selection,
           dest' \in [Versions -> Directories], MarkerMeansComplete',
           \A v \in Versions : dest[v] = Complete => dest'[v] = Complete
    PROVE  Installed'
<1>1. Moved(c, place) /\ command[c].at \in {"download", "rename"}
  BY GoesTo DEF Installed, Places, Busy, At
<1>2. Absent \in Directories
  BY DEF Absent, Directories
<1>3. command' \in [Commands -> Progress] /\ command'[c].at = place /\ command'[c].dir = command[c].dir /\ Others(c)
  BY <1>1 DEF Moved
<1>4. /\ staging' \in [Dirs -> Directories]
      /\ \A x \in Commands \ {c} : Busy(x) => /\ staging'[command[x].dir] = staging[command[x].dir]
                                               /\ command'[c].dir # command[x].dir
  BY <1>2, <1>3, OwnStaging
<1>5. Downloads(c)'
  BY <1>3 DEF Downloads, At
<1> QED
  BY <1>1, <1>3, <1>4, <1>5, SyncKeeps

LEMMA SyncFailsKeeps ==
    ASSUME Installed, NEW c \in Commands, SyncFails(c)
    PROVE  Installed'
<1>1. /\ Busy(c) /\ Goes(c, "ended") /\ staging' = [staging EXCEPT ![command[c].dir] = Absent]
      /\ UNCHANGED dest /\ UNCHANGED selection
  BY DEF SyncFails, Busy
<1>2. MarkerMeansComplete' /\ dest' \in [Versions -> Directories]
  BY <1>1 DEF Installed, HostTypes, MarkerMeansComplete
<1> QED
  BY <1>1, <1>2, GiveBackKeeps

\* What is renamed into place is complete: no other command had the directory.
LEMMA RenameKeeps ==
    ASSUME Installed, NEW c \in Commands, RenameIntoPlace(c)
    PROVE  Installed'
<1> DEFINE v == command[c].version  d == command[c].dir
<1>1. /\ Busy(c) /\ staging' = [staging EXCEPT ![d] = Absent] /\ UNCHANGED selection
      /\ v \in Versions /\ staging[d] = Complete /\ dest \in [Versions -> Directories] /\ MarkerMeansComplete
  BY DEF RenameIntoPlace, Busy, Installed, HostTypes, Progress, OwnDirectories, Downloads
<1>2. CASE dest[v].there
  <2>1. Goes(c, "ended") /\ UNCHANGED dest
    BY <1>2 DEF RenameIntoPlace
  <2>2. MarkerMeansComplete' /\ dest' \in [Versions -> Directories]
    BY <1>1, <2>1 DEF MarkerMeansComplete
  <2> QED
    BY <1>1, <2>1, <2>2, GiveBackKeeps
<1>3. CASE ~dest[v].there
  <2>1. PICK place \in {"ended", "verify"} : Goes(c, place)
    BY <1>3 DEF RenameIntoPlace
  <2>2. dest' = [dest EXCEPT ![v] = Complete] /\ Complete \in Directories
    BY <1>1, <1>3 DEF RenameIntoPlace, Complete, Directories
  <2>3. dest' \in [Versions -> Directories] /\ \A w \in Versions : dest'[w] = Complete \/ dest'[w] = dest[w]
    BY <1>1, <2>2
  <2>4. MarkerMeansComplete'
    BY <1>1, <2>3 DEF MarkerMeansComplete
  <2> QED
    BY <1>1, <2>1, <2>3, <2>4, GiveBackKeeps
<1> QED
  BY <1>2, <1>3

-----------------------------------------------------------------------------
(* Activation.                                                             *)

\* A package that verifies is complete: it has its marker.
LEMMA VerifiedIsComplete ==
    ASSUME Installed, NEW v \in Versions, Verified(v)
    PROVE  dest[v] = Complete
  BY DEF Installed, MarkerMeansComplete, Verified

LEMMA DestExistsKeeps ==
    ASSUME Installed, NEW c \in Commands, DestExists(c)
    PROVE  Installed'
<1>1. PICK place \in {"ended", "verify"} : Goes(c, place)
  BY DEF DestExists
<1>2. command[c].at = "sync" /\ UNCHANGED <<staging, dest>> /\ UNCHANGED selection
  BY DEF DestExists, At
<1>3. UNCHANGED <<venv, locked, link, state, torn>> /\ venv \in [Versions -> {"none", "ready", "broken"}]
  BY <1>2 DEF selection, Installed, HostTypes
<1> QED
  BY <1>1, <1>2, <1>3, MoveKeeps DEF Places

LEMMA VerifyKeeps ==
    ASSUME Installed, NEW c \in Commands, VerifyPackage(c)
    PROVE  Installed'
<1> DEFINE v == command[c].version
<1>1. command[c].at = "verify" /\ UNCHANGED <<staging, dest>> /\ UNCHANGED selection /\ v \in Versions
  BY DEF VerifyPackage, At, Installed, HostTypes, Progress
<1>2. UNCHANGED <<venv, locked, link, state, torn>> /\ venv \in [Versions -> {"none", "ready", "broken"}]
  BY <1>1 DEF selection, Installed, HostTypes
<1>3. CASE Verified(v) /\ v \notin OutOfBand
  <2>1. Goes(c, "runtime") /\ Fetched(v)
    BY <1>1, <1>3, VerifiedIsComplete DEF VerifyPackage, Fetched
  <2> QED
    BY <1>1, <1>2, <2>1, MoveKeeps DEF Places
<1>4. CASE ~(Verified(v) /\ v \notin OutOfBand)
  <2>1. Goes(c, "ended")
    BY <1>4 DEF VerifyPackage
  <2> QED
    BY <1>1, <1>2, <2>1, MoveKeeps DEF Places
<1> QED
  BY <1>3, <1>4

LEMMA RuntimeKeeps ==
    ASSUME Installed, NEW c \in Commands, RuntimeExists(c)
    PROVE  Installed'
<1> DEFINE v == command[c].version
<1>1. /\ command[c].at = "runtime" /\ UNCHANGED <<staging, dest>> /\ UNCHANGED selection /\ v \in Versions
      /\ Fetched(v)
  BY DEF RuntimeExists, At, Installed, HostTypes, Progress, SelectedIsUsable, Checked
<1>2. UNCHANGED <<venv, locked, link, state, torn>> /\ venv \in [Versions -> {"none", "ready", "broken"}]
  BY <1>1 DEF selection, Installed, HostTypes
<1>3. CASE venv[v] = "ready"
  <2>1. Goes(c, "lock")
    BY <1>3 DEF RuntimeExists
  <2> QED
    BY <1>1, <1>2, <1>3, <2>1, MoveKeeps DEF Places
<1>4. CASE venv[v] = "broken"
  <2>1. Goes(c, "ended")
    BY <1>4 DEF RuntimeExists
  <2> QED
    BY <1>1, <1>2, <2>1, MoveKeeps DEF Places
<1>5. CASE venv[v] = "none"
  <2>1. Goes(c, "install")
    BY <1>5 DEF RuntimeExists
  <2> QED
    BY <1>1, <1>2, <2>1, MoveKeeps DEF Places
<1> QED
  BY <1>1, <1>2, <1>3, <1>4, <1>5

LEMMA InstallKeeps ==
    ASSUME Installed, NEW c \in Commands, InstallRuntime(c)
    PROVE  Installed'
<1> DEFINE v == command[c].version
           r == IF venv[v] = "none" THEN "ready" ELSE venv[v]
<1>1. /\ command[c].at = "install" /\ UNCHANGED <<staging, dest, link, state, locked, torn>> /\ v \in Versions
      /\ Fetched(v) /\ venv \in [Versions -> {"none", "ready", "broken"}]
  BY DEF InstallRuntime, At, Installed, HostTypes, Progress, SelectedIsUsable, Checked
<1>2. venv' = [venv EXCEPT ![v] = r]
  BY DEF InstallRuntime
<1>3. /\ venv' \in [Versions -> {"none", "ready", "broken"}] /\ venv'[v] = r
      /\ \A w \in Versions : venv[w] = "ready" => venv'[w] = "ready"
  BY <1>1, <1>2
<1>4. CASE venv[v] = "broken"
  <2>1. Goes(c, "ended")
    BY <1>4 DEF InstallRuntime
  <2> QED
    BY <1>1, <1>3, <2>1, MoveKeeps DEF Places
<1>5. CASE venv[v] # "broken"
  <2>1. Goes(c, "lock") /\ venv'[v] = "ready"
    BY <1>1, <1>3, <1>5 DEF InstallRuntime
  <2> QED
    BY <1>1, <1>3, <2>1, MoveKeeps DEF Places
<1> QED
  BY <1>4, <1>5

LEMMA InstallFailsKeeps ==
    ASSUME Installed, NEW c \in Commands, InstallFails(c)
    PROVE  Installed'
<1>1. command[c].at = "install" /\ UNCHANGED <<staging, dest>> /\ UNCHANGED selection /\ Goes(c, "ended")
  BY DEF InstallFails, At
<1>2. UNCHANGED <<venv, locked, link, state, torn>> /\ venv \in [Versions -> {"none", "ready", "broken"}]
  BY <1>1 DEF selection, Installed, HostTypes
<1> QED
  BY <1>1, <1>2, MoveKeeps DEF Places

\* While one command switches no other does.
LEMMA AloneInTheLock ==
    ASSUME Installed, NEW c \in Commands, Switches(c)
    PROVE  \A d \in Commands \ {c} : ~Switches(d)
  BY DEF Installed, OneSwitches

LEMMA SwitchStep ==
    ASSUME Installed, NEW c \in Commands, Others(c), \A d \in Commands \ {c} : ~Switches(d),
           Switches(c)' => locked',
           At(c, "switch")' => link' = command'[c].previous,
           At(c, "record")' => link' = {command'[c].version} /\ (torn' \/ state' = command'[c].previous),
           torn' \/ link' = state' \/ At(c, "record")'
    PROVE  OneSwitches'
<1>1. \A d \in Commands : Switches(d)' => d = c
  BY DEF Others, Switches
<1>2. \A d \in Commands : (At(d, "switch")' => d = c) /\ (At(d, "record")' => d = c)
  BY DEF Others, Switches, At
<1>3. \A d \in Commands : At(d, "switch")' => link' = command'[d].previous
  BY <1>2
<1>4. \A d \in Commands : At(d, "record")' =>
          link' = {command'[d].version} /\ (torn' \/ state' = command'[d].previous)
  BY <1>2
<1>5. torn' \/ link' = state' \/ \E d \in Commands : At(d, "record")'
  OBVIOUS
<1>6. /\ \A d \in Commands : Switches(d)' => locked'
      /\ \A d, e \in Commands : Switches(d)' /\ Switches(e)' => d = e
  BY <1>1
<1> QED
  BY <1>3, <1>4, <1>5, <1>6 DEF OneSwitches

\* Before the rename of the link, it agrees with the state file.
LEMMA NotRecordingAgrees ==
    ASSUME Installed, NEW c \in Commands, \A d \in Commands \ {c} : ~Switches(d), ~At(c, "record")
    PROVE  torn \/ link = state
<1>1. \A d \in Commands : ~At(d, "record")
  BY DEF Switches, At
<1> QED
  BY <1>1 DEF Installed, OneSwitches

\* A command leaves the lock section: what is selected must be usable, and
\* recorded or known to be torn.
LEMMA LeaveKeeps ==
    ASSUME Installed, NEW c \in Commands, Switches(c), Goes(c, "ended"),
           UNCHANGED <<staging, dest, venv>>, locked' \in BOOLEAN, torn' \in BOOLEAN,
           link' \in SUBSET Versions, state' \in SUBSET Versions,
           \A v \in link' : Usable(v), torn' \/ link' = state'
    PROVE  Installed'
<1>1. command' \in [Commands -> Progress] /\ Others(c) /\ command'[c].at = "ended"
  BY GoesTo DEF Installed, Places, Moved
<1>2. Checked(c)' /\ ~Switches(c)' /\ ~At(c, "switch")' /\ ~At(c, "record")'
  BY <1>1 DEF Checked, Switches, At
<1>3. OneSwitches'
  BY <1>1, <1>2, AloneInTheLock, SwitchStep
<1> QED
  BY <1>1, <1>2, <1>3, SwitchKeeps

LEMMA AcquireKeeps ==
    ASSUME Installed, NEW c \in Commands, acquire_activation_lock(c)
    PROVE  Installed'
<1>1. /\ command[c].at = "lock" /\ UNCHANGED <<staging, dest, venv, link, state, torn>>
      /\ HostTypes /\ command[c] \in Progress
  BY DEF acquire_activation_lock, At, Installed, HostTypes
<1>2. CASE ~locked /\ locked' = TRUE /\ selected' = link /\ Goes(c, "prepare")
  <2>1. /\ command' \in [Commands -> Progress] /\ Others(c) /\ command'[c].at = "prepare"
        /\ command'[c].version = command[c].version
    BY <1>1, <1>2, GoesTo DEF Places, Moved
  <2>2. \A d \in Commands : ~Switches(d)
    BY <1>2 DEF Installed, OneSwitches
  <2>3. Fetched(command[c].version) /\ Usable(command[c].version)
    BY <1>1 DEF Installed, SelectedIsUsable, Checked
  <2>4. Checked(c)'
    BY <1>1, <2>1, <2>3 DEF Checked, Usable, Fetched
  <2>5. torn \/ link = state
    BY <1>1, <2>2, NotRecordingAgrees DEF At
  <2>6. OneSwitches'
    BY <1>1, <1>2, <2>1, <2>2, <2>5, SwitchStep DEF At
  <2>7. /\ \A v \in link' : Usable(v)
        /\ locked' \in BOOLEAN /\ torn' \in BOOLEAN /\ link' \in SUBSET Versions /\ state' \in SUBSET Versions
    BY <1>1, <1>2 DEF Installed, SelectedIsUsable, HostTypes
  <2> QED
    BY <1>1, <2>1, <2>4, <2>6, <2>7, SwitchKeeps
<1>3. CASE locked /\ Goes(c, "ended") /\ UNCHANGED <<locked, selected>>
  <2>1. venv \in [Versions -> {"none", "ready", "broken"}]
    BY DEF Installed, HostTypes
  <2> QED
    BY <1>1, <1>3, <2>1, MoveKeeps DEF Places
<1> QED
  BY <1>2, <1>3 DEF acquire_activation_lock

\* The command keeps the target the link had; it is usable, like any other.
LEMMA PrepareKeeps ==
    ASSUME Installed, NEW c \in Commands, PrepareSwitch(c)
    PROVE  Installed'
<1> DEFINE n == [command[c] EXCEPT !.at = "switch", !.previous = link]
<1>1. /\ command[c].at = "prepare" /\ Switches(c) /\ UNCHANGED <<staging, dest, venv, locked, link, state, torn>>
      /\ command[c] \in Progress /\ link \in SUBSET Versions /\ HostTypes
  BY DEF PrepareSwitch, At, Switches, Installed, HostTypes, selection
<1>2. n \in Progress
  BY <1>1 DEF Progress, Places
<1>3. n.at = "switch" /\ n.previous = link /\ n.version = command[c].version
  BY <1>1 DEF Progress
<1>4. command' = [command EXCEPT ![c] = n]
  BY <1>1 DEF PrepareSwitch, Progress, HostTypes
<1> HIDE DEF n
<1>5. command' \in [Commands -> Progress] /\ command'[c] = n /\ Others(c)
  BY <1>1, <1>2, <1>4, OnlyHere
<1>6. /\ Usable(command[c].version) /\ Fetched(command[c].version) /\ \A v \in link : Usable(v)
      /\ locked /\ locked \in BOOLEAN /\ torn \in BOOLEAN /\ state \in SUBSET Versions
  BY <1>1 DEF Installed, HostTypes, SelectedIsUsable, Checked, OneSwitches
<1>7. Checked(c)'
  BY <1>1, <1>3, <1>5, <1>6 DEF Checked, Usable, Fetched
<1>8. \A d \in Commands \ {c} : ~Switches(d)
  BY <1>1, AloneInTheLock
<1>9. torn \/ link = state
  BY <1>1, <1>8, NotRecordingAgrees DEF At
<1>10. OneSwitches'
  BY <1>1, <1>3, <1>5, <1>6, <1>8, <1>9, SwitchStep DEF At
<1>11. command'[c].at = "switch" /\ locked' \in BOOLEAN /\ torn' \in BOOLEAN /\ link' \in SUBSET Versions
       /\ state' \in SUBSET Versions /\ (\A v \in link' : Usable(v))
  BY <1>1, <1>3, <1>5, <1>6
<1> QED
  BY <1>1, <1>5, <1>7, <1>10, <1>11, SwitchKeeps

LEMMA PrepareFailsKeeps ==
    ASSUME Installed, NEW c \in Commands, PrepareFails(c)
    PROVE  Installed'
<1>1. /\ Switches(c) /\ ~At(c, "record") /\ Goes(c, "ended") /\ locked' = FALSE
      /\ UNCHANGED <<staging, dest, venv, link, state, torn>>
  BY DEF PrepareFails, Unlock, At, Switches
<1>2. torn \/ link = state
  BY <1>1, AloneInTheLock, NotRecordingAgrees
<1>3. /\ \A v \in link' : Usable(v)
      /\ locked' \in BOOLEAN /\ torn' \in BOOLEAN /\ link' \in SUBSET Versions /\ state' \in SUBSET Versions
  BY <1>1 DEF Installed, SelectedIsUsable, HostTypes
<1> QED
  BY <1>1, <1>2, <1>3, LeaveKeeps

LEMMA RenameLinkKeeps ==
    ASSUME Installed, NEW c \in Commands, RenameLink(c)
    PROVE  Installed'
<1>1. /\ command[c].at = "switch" /\ Switches(c) /\ UNCHANGED <<staging, dest, venv, locked, state, torn>>
      /\ link' = {command[c].version} /\ Goes(c, "record")
      /\ command[c] \in Progress /\ command[c].version \in Versions /\ HostTypes
  BY DEF RenameLink, At, Switches, Installed, HostTypes, Progress
<1>2. /\ command' \in [Commands -> Progress] /\ Others(c) /\ command'[c].at = "record"
      /\ command'[c].version = command[c].version /\ command'[c].previous = command[c].previous
  BY <1>1, GoesTo DEF Places, Moved
<1>3. /\ Usable(command[c].version) /\ Fetched(command[c].version)
      /\ \A v \in command[c].previous : Usable(v)
      /\ locked /\ link = command[c].previous
  BY <1>1 DEF Installed, SelectedIsUsable, Checked, OneSwitches, At
<1>4. Checked(c)'
  BY <1>1, <1>2, <1>3 DEF Checked, Usable, Fetched
<1>5. \A d \in Commands \ {c} : ~Switches(d)
  BY <1>1, AloneInTheLock
<1>6. torn \/ link = state
  BY <1>1, <1>5, NotRecordingAgrees DEF At
<1>7. torn' \/ state' = command'[c].previous
  BY <1>1, <1>2, <1>3, <1>6
<1>8. OneSwitches'
  BY <1>1, <1>2, <1>3, <1>5, <1>7, SwitchStep DEF At
<1>9. /\ \A v \in link' : Usable(v)
      /\ locked' \in BOOLEAN /\ torn' \in BOOLEAN /\ link' \in SUBSET Versions /\ state' \in SUBSET Versions
  BY <1>1, <1>3 DEF HostTypes
<1> QED
  BY <1>1, <1>2, <1>4, <1>8, <1>9, SwitchKeeps

\* What a command at its last rename knows.
LEMMA AtRecord ==
    ASSUME Installed, NEW c \in Commands, At(c, "record")
    PROVE  /\ Switches(c) /\ command[c].version \in Versions /\ command[c].previous \in SUBSET Versions
           /\ link = {command[c].version} /\ (torn \/ state = command[c].previous)
           /\ (\A v \in link : Usable(v)) /\ (\A v \in command[c].previous : Usable(v))
           /\ torn \in BOOLEAN /\ link \in SUBSET Versions /\ state \in SUBSET Versions
<1>1. Switches(c) /\ command[c].version \in Versions /\ command[c].previous \in SUBSET Versions
  BY DEF At, Switches, Installed, HostTypes, Progress
<1>2. link = {command[c].version} /\ (torn \/ state = command[c].previous)
  BY DEF Installed, OneSwitches
<1>3. (\A v \in link : Usable(v)) /\ (\A v \in command[c].previous : Usable(v))
  BY DEF Installed, SelectedIsUsable, Checked, At
<1>4. torn \in BOOLEAN /\ link \in SUBSET Versions /\ state \in SUBSET Versions
  BY DEF Installed, HostTypes
<1> QED
  BY <1>1, <1>2, <1>3, <1>4

LEMMA RecordKeeps ==
    ASSUME Installed, NEW c \in Commands,
           RenameState(c) \/ RollBack(c) \/ RollBackFails(c)
    PROVE  Installed'
<1>1. At(c, "record") /\ Goes(c, "ended") /\ locked' = FALSE /\ UNCHANGED <<staging, dest, venv>>
  BY DEF RenameState, RollBack, RollBackFails, Unlock
<1>2. CASE RenameState(c)
  <2>1. state' = {command[c].version} /\ link' = link /\ torn' = FALSE
    BY <1>2 DEF RenameState
  <2> QED
    BY <1>1, <2>1, AtRecord, LeaveKeeps
<1>3. CASE RollBack(c)
  <2>1. link' = command[c].previous /\ state' = state /\ torn' = torn
    BY <1>3 DEF RollBack
  <2> QED
    BY <1>1, <2>1, AtRecord, LeaveKeeps
<1>4. CASE RollBackFails(c)
  <2>1. torn' = TRUE /\ link' = link /\ state' = state
    BY <1>4 DEF RollBackFails
  <2> QED
    BY <1>1, <2>1, AtRecord, LeaveKeeps
<1> QED
  BY <1>2, <1>3, <1>4

\* A killed command leaves its lock: nobody switches under it.
LEMMA KillKeeps ==
    ASSUME Installed, NEW c \in Commands, Kill(c)
    PROVE  Installed'
<1>1. /\ Goes(c, "ended") /\ UNCHANGED <<staging, dest, venv, locked, link, state>>
      /\ torn' = (torn \/ At(c, "record")) /\ locked \in BOOLEAN /\ torn \in BOOLEAN
      /\ link \in SUBSET Versions /\ state \in SUBSET Versions /\ \A v \in link : Usable(v)
  BY DEF Kill, Installed, HostTypes, SelectedIsUsable
<1>2. CASE At(c, "record")
  <2>1. torn' = TRUE
    BY <1>1, <1>2
  <2> QED
    BY <1>1, <1>2, <2>1, AtRecord, LeaveKeeps
<1>3. CASE Switches(c) /\ ~At(c, "record")
  <2>1. torn' = torn
    BY <1>1, <1>3
  <2>2. torn \/ link = state
    BY <1>3, AloneInTheLock, NotRecordingAgrees
  <2> QED
    BY <1>1, <1>3, <2>1, <2>2, LeaveKeeps
<1>4. CASE ~Switches(c)
  <2>1. torn' = torn /\ command[c].at \notin {"prepare", "switch", "record"}
    BY <1>1, <1>4 DEF Switches, At
  <2>2. venv \in [Versions -> {"none", "ready", "broken"}]
    BY DEF Installed, HostTypes
  <2> QED
    BY <1>1, <2>1, <2>2, MoveKeeps DEF Places
<1> QED
  BY <1>2, <1>3, <1>4

LEMMA StaleLockKeeps == ASSUME Installed, RemoveStaleLock PROVE Installed'
<1>1. /\ locked' = FALSE /\ UNCHANGED <<command, staging, dest, venv, link, state, torn>>
      /\ \A c \in Commands : ~Switches(c)
  BY DEF RemoveStaleLock, Switches
<1>2. HostTypes' /\ MarkerMeansComplete'
  BY <1>1 DEF Installed, HostTypes, MarkerMeansComplete
<1>3. OwnDirectories'
  BY <1>1 DEF Installed, OwnDirectories, Downloads, Busy, At, Downloaded
<1>4. SelectedIsUsable'
  BY <1>1 DEF Installed, SelectedIsUsable, Checked, Usable, Fetched
<1>5. OneSwitches'
  BY <1>1 DEF Installed, OneSwitches, Switches, At
<1> QED
  BY <1>2, <1>3, <1>4, <1>5 DEF Installed

-----------------------------------------------------------------------------
(* The theorem.                                                            *)

LEMMA InstalledStep ==
    ASSUME ActivationConstants, Installed, [ActivationNext]_activationVars
    PROVE  Installed'
<1>1. CASE UNCHANGED activationVars
  <2>1. UNCHANGED <<command, staging, dest, venv, locked, link, state, torn>>
    BY <1>1 DEF activationVars
  <2>2. HostTypes' /\ MarkerMeansComplete'
    BY <2>1 DEF Installed, HostTypes, MarkerMeansComplete
  <2>3. OwnDirectories'
    BY <2>1 DEF Installed, OwnDirectories, Downloads, Busy, At, Downloaded
  <2>4. SelectedIsUsable'
    BY <2>1 DEF Installed, SelectedIsUsable, Checked, Usable, Fetched
  <2>5. OneSwitches'
    BY <2>1 DEF Installed, OneSwitches, Switches, At
  <2> QED
    BY <2>2, <2>3, <2>4, <2>5 DEF Installed
<1>2. ASSUME NEW c \in Commands, NEW v \in Versions, NEW activate \in BOOLEAN, run_env_sync(c, v, activate)
      PROVE  Installed'
  BY <1>2, StartKeeps
<1>3. ASSUME NEW c \in Commands, NEW d \in Dirs, create_sync_staging_dir(c, d) PROVE Installed'
  BY <1>3, CreateKeeps
<1>4. ASSUME NEW c \in Commands,
             DestExists(c) \/ download_artifact_to_file(c) \/ WriteMarker(c) \/ SyncFails(c) \/ RenameIntoPlace(c)
      PROVE  Installed'
  BY <1>4, DestExistsKeeps, DownloadKeeps, MarkerKeeps, SyncFailsKeeps, RenameKeeps
<1>5. ASSUME NEW c \in Commands, VerifyPackage(c) \/ RuntimeExists(c) \/ InstallRuntime(c) \/ InstallFails(c)
      PROVE  Installed'
  BY <1>5, VerifyKeeps, RuntimeKeeps, InstallKeeps, InstallFailsKeeps
<1>6. ASSUME NEW c \in Commands,
             \/ acquire_activation_lock(c) \/ PrepareSwitch(c) \/ PrepareFails(c) \/ RenameLink(c)
             \/ RenameState(c) \/ RollBack(c) \/ RollBackFails(c) \/ Kill(c)
      PROVE  Installed'
  BY <1>6, AcquireKeeps, PrepareKeeps, PrepareFailsKeeps, RenameLinkKeeps, RecordKeeps, KillKeeps
<1> QED
  BY <1>1, <1>2, <1>3, <1>4, <1>5, <1>6, StaleLockKeeps DEF ActivationNext

LEMMA InstalledIsEnough == ASSUME Installed PROVE InstalledIsConsistent
<1>1. MarkerMeansComplete
  BY DEF Installed
<1>2. ActiveIsUsable
  BY DEF Installed, SelectedIsUsable, Usable, Fetched, ActiveIsUsable, Verified, Complete
<1>3. LinkMatchesState
  <2> SUFFICES ASSUME ~locked, ~torn PROVE link = state
    BY DEF LinkMatchesState
  <2>1. \A c \in Commands : ~At(c, "record")
    BY DEF Installed, OneSwitches, Switches, At
  <2> QED
    BY <2>1 DEF Installed, OneSwitches
<1> QED
  BY <1>1, <1>2, <1>3 DEF InstalledIsConsistent

\* What is on a host is consistent, for any number of commands that run at
\* once, fail or are killed: a destination with a marker has every file, the
\* selected version is verified and has its runtime, and outside an
\* activation the state file names what the link selects.
THEOREM HostIsConsistent ==
    ASSUME ActivationConstants
    PROVE  ActivationSpec => []InstalledIsConsistent
<1>1. ActivationInit => Installed
  BY InitInstalled
<1>2. Installed /\ [ActivationNext]_activationVars => Installed'
  BY InstalledStep
<1>3. Installed => InstalledIsConsistent
  BY InstalledIsEnough
<1> QED
  BY <1>1, <1>2, <1>3, PTL DEF ActivationSpec

-----------------------------------------------------------------------------
(* HubRegistry: latest_version.                                            *)

\* The operator Max of a set of versions: it is a member, and no member is
\* higher.
LEMMA HighestOfFinite ==
    ASSUME NEW S \in SUBSET Nat, IsFiniteSet(S), S # {}
    PROVE  Max(S) \in S /\ \A y \in S : y <= Max(S)
<1> DEFINE U == {{y \in S : y >= x} : x \in S}
<1>1. U \subseteq FiniteSubsetsOf(Nat)
  <2> SUFFICES ASSUME NEW x \in S PROVE IsFiniteSet({y \in S : y >= x})
    BY DEF FiniteSubsetsOf
  <2> QED BY FS_Subset
<1>2. U # {}
  OBVIOUS
<1> HIDE DEF U
<1>3. PICK u \in U : \A w \in U : ~ (<<w, u>> \in StrictSubsetOrdering(Nat))
  BY <1>1, <1>2, FS_StrictSubsetOrderingWellFounded, WFMin
<1>4. PICK x \in S : u = {y \in S : y >= x}
  BY DEF U
<1>5. ASSUME NEW z \in S PROVE x >= z
  <2> SUFFICES ASSUME z > x PROVE FALSE
    OBVIOUS
  <2> DEFINE w == {y \in S : y >= z}
  <2>1. w \in U
    BY DEF U
  <2>0. x \in Nat /\ z \in Nat /\ \A y \in S : y \in Nat
    OBVIOUS
  <2>2. w \subseteq u /\ x \in u /\ x \notin w
    <3>1. x \in u /\ x \notin w
      BY <1>4, <2>0
    <3>2. \A y \in S : y >= z => y >= x
      BY <2>0
    <3> QED BY <1>4, <3>1, <3>2
  <2>3. w \in SUBSET Nat /\ u \in SUBSET Nat
    BY <1>4
  <2>4. <<w, u>> \in StrictSubsetOrdering(Nat)
    BY <2>2, <2>3 DEF StrictSubsetOrdering
  <2> QED BY <2>1, <2>4, <1>3
<1>6. \E m \in S : \A y \in S : m >= y
  BY <1>5
<1>7. Max(S) \in S /\ \A y \in S : Max(S) >= y
  BY <1>6 DEF Max
<1> QED BY <1>7

EnvRows == [version : EnvVersions, eligible : BOOLEAN, yanked : BOOLEAN, at : Nat]
EnvRecords == [state : {"absent", "live", "deleted"}, latest : EnvVersions \union {NoVersion}, updated : Nat]

\* What a handler carries from its checks into its transaction.
CallIsTyped(r) ==
    /\ "op" \in DOMAIN r
    /\ r.op \in {"version", "insert"} => r.env \in Envs /\ r.version \in EnvVersions /\ r.eligible \in BOOLEAN
    /\ r.op = "insert" => r.ts \in Nat

RegistryTypes ==
    /\ env \in [Envs -> EnvRecords]
    /\ ver \in [Envs -> SUBSET EnvRows]
    /\ call = [c \in Calls |-> call[c]]
    /\ \A c \in Calls : CallIsTyped(call[c])
    /\ clock \in Nat

OneRowPerVersion == \A e \in Envs : \A r, x \in ver[e] : r.version = x.version => r = x

\* latest_version is what a recomputation would give now.
LatestIsCurrent == \A e \in Envs : env[e].latest = Recompute(e, ver[e])

\* An environment that was never created has no version, and no handler is
\* about to insert one.
AbsentIsEmpty ==
    /\ \A e \in Envs : env[e].state = "absent" => ver[e] = {}
    /\ \A c \in Calls : call[c].op = "insert" => env[call[c].env].state # "absent"

RegistryInv == RegistryTypes /\ OneRowPerVersion /\ LatestIsCurrent /\ AbsentIsEmpty

\* A recomputation gives a version, and the one a consumer should get.
LEMMA RecomputeIsEligible ==
    ASSUME RegistryConstants, NEW e, NEW rows \in SUBSET EnvRows
    PROVE  LET open == {r \in rows : ~r.yanked /\ r.eligible}
               l == Recompute(e, rows)
           IN  /\ l \in EnvVersions \union {NoVersion}
               /\ IF open = {}
                  THEN l = NoVersion
                  ELSE /\ \E r \in open : r.version = l
                       /\ \A r \in open : r.version > l => r.version \in PreReleases
                       /\ l \in PreReleases => \A r \in open : r.version \in PreReleases
<1> DEFINE open == {r \in rows : ~r.yanked /\ r.eligible}
           vs == {r.version : r \in open}
           l == Recompute(e, rows)
<1>1. /\ vs \subseteq EnvVersions /\ vs \subseteq Nat /\ IsFiniteSet(vs)
      /\ vs \ PreReleases \subseteq Nat /\ IsFiniteSet(vs \ PreReleases)
  <2>1. vs \subseteq EnvVersions
    BY DEF EnvRows
  <2>2. IsFiniteSet(vs) /\ IsFiniteSet(vs \ PreReleases)
    BY <2>1, FS_Subset DEF RegistryConstants
  <2> QED BY <2>1, <2>2 DEF RegistryConstants
<1>2. l = IF vs \ PreReleases # {} THEN Max(vs \ PreReleases) ELSE IF vs = {} THEN NoVersion ELSE Max(vs)
  BY DEF Recompute, latest, latest_eligible_versions, Highest
<1>3. open = {} <=> vs = {}
  OBVIOUS
<1> HIDE DEF l
<1>4. \A v \in vs : \E r \in open : r.version = v
  OBVIOUS
<1>5. \A r \in open : r.version \in vs
  OBVIOUS
<1> HIDE DEF open, vs
<1>6. CASE vs \ PreReleases # {}
  <2>1. l \in vs \ PreReleases /\ \A y \in vs \ PreReleases : y <= l
    BY <1>1, <1>2, <1>6, HighestOfFinite
  <2>2. \A r \in open : r.version > l => r.version \in PreReleases
    <3> SUFFICES ASSUME NEW r \in open, r.version > l, r.version \notin PreReleases PROVE FALSE
      OBVIOUS
    <3>1. r.version <= l
      BY <1>5, <2>1
    <3>2. r.version \in Nat /\ l \in Nat
      BY <1>1, <1>5, <2>1
    <3> QED BY <3>1, <3>2
  <2>3. \E r \in open : r.version = l
    BY <2>1, <1>4
  <2>4. l \in EnvVersions /\ open # {}
    BY <2>1, <1>1, <1>3
  <2> QED BY <2>1, <2>2, <2>3, <2>4 DEF open, l
<1>7. CASE vs \ PreReleases = {} /\ vs # {}
  <2>1. l \in vs
    BY <1>1, <1>2, <1>7, HighestOfFinite
  <2>2. \A r \in open : r.version \in PreReleases
    BY <1>5, <1>7
  <2>3. \E r \in open : r.version = l
    BY <2>1, <1>4
  <2>4. l \in EnvVersions /\ open # {}
    BY <2>1, <1>1, <1>3
  <2> QED BY <2>1, <2>2, <2>3, <2>4 DEF open, l
<1>8. CASE vs = {}
  <2>1. l = NoVersion /\ open = {}
    BY <1>2, <1>3, <1>8
  <2> QED BY <2>1 DEF open, l
<1> QED BY <1>6, <1>7, <1>8

\* A transaction on the versions of one environment.
LEMMA SetVersionsKeeps ==
    ASSUME RegistryConstants, RegistryInv, NEW e \in Envs, NEW rows \in SUBSET EnvRows, NEW ts \in Nat,
           SetVersions(e, rows, ts), \A r, x \in rows : r.version = x.version => r = x
    PROVE  /\ env' \in [Envs -> EnvRecords] /\ ver' \in [Envs -> SUBSET EnvRows]
           /\ OneRowPerVersion' /\ LatestIsCurrent'
<1> DEFINE l == Recompute(e, rows)
<1>1. l \in EnvVersions \union {NoVersion}
  BY RecomputeIsEligible
<1>2. ver' = [ver EXCEPT ![e] = rows] /\ env' = [env EXCEPT ![e].latest = l, ![e].updated = ts]
  BY DEF SetVersions
<1> HIDE DEF l
<1>3. env' \in [Envs -> EnvRecords] /\ ver' \in [Envs -> SUBSET EnvRows]
  BY <1>1, <1>2 DEF RegistryInv, RegistryTypes, EnvRecords
<1>4. \A f \in Envs : env'[f].latest = IF f = e THEN l ELSE env[f].latest
  BY <1>2 DEF RegistryInv, RegistryTypes, EnvRecords
<1>5. \A f \in Envs : ver'[f] = IF f = e THEN rows ELSE ver[f]
  BY <1>2 DEF RegistryInv, RegistryTypes
<1>6. OneRowPerVersion'
  BY <1>5 DEF RegistryInv, OneRowPerVersion
<1>7. LatestIsCurrent'
  <2> SUFFICES ASSUME NEW f \in Envs PROVE env'[f].latest = Recompute(f, ver'[f])
    BY DEF LatestIsCurrent, Recompute, latest, latest_eligible_versions, Highest
  <2>1. CASE f = e
    BY <2>1, <1>4, <1>5 DEF l
  <2>2. CASE f # e
    BY <2>2, <1>4, <1>5 DEF RegistryInv, LatestIsCurrent
  <2> QED BY <2>1, <2>2
<1> QED BY <1>3, <1>6, <1>7

\* Steps that leave the versions and the column latest alone.
LEMMA VersionsStay ==
    ASSUME RegistryInv, env' \in [Envs -> EnvRecords], UNCHANGED ver,
           \A e \in Envs : env'[e].latest = env[e].latest
    PROVE  OneRowPerVersion' /\ LatestIsCurrent' /\ ver' \in [Envs -> SUBSET EnvRows]
BY DEF RegistryInv, RegistryTypes, OneRowPerVersion, LatestIsCurrent, Recompute, latest,
       latest_eligible_versions, Highest

\* A handler takes its next request.
LEMMA CallsStayTyped ==
    ASSUME RegistryTypes, NEW c \in Calls, NEW r, CallIsTyped(r), call' = [call EXCEPT ![c] = r]
    PROVE  call' = [d \in Calls |-> call'[d]] /\ \A d \in Calls : CallIsTyped(call'[d])
<1>1. call' = [d \in Calls |-> IF d = c THEN r ELSE call[d]]
  BY DEF RegistryTypes
<1> QED BY <1>1 DEF RegistryTypes

LEMMA InitRegistryInv == RegistryConstants /\ RegistryInit => RegistryInv
<1> SUFFICES ASSUME RegistryConstants, RegistryInit PROVE RegistryInv
  OBVIOUS
<1>1. RegistryTypes
  BY DEF RegistryInit, RegistryTypes, EnvRecords, EnvRows, CallIsTyped, NoCall
<1>2. OneRowPerVersion
  BY DEF RegistryInit, OneRowPerVersion
<1>3. \A e \in Envs : Recompute(e, ver[e]) = NoVersion
  BY DEF RegistryInit, Recompute, latest, latest_eligible_versions, Highest
<1>4. LatestIsCurrent
  BY <1>3 DEF RegistryInit, LatestIsCurrent
<1>5. AbsentIsEmpty
  BY DEF RegistryInit, AbsentIsEmpty, NoCall
<1> QED BY <1>1, <1>2, <1>4, <1>5 DEF RegistryInv

\* What a handler records of its mutation, and its end.
LEMMA AuditIsTyped ==
    ASSUME NEW what, NEW which
    PROVE  /\ CallIsTyped([op |-> "audit", what |-> what, which |-> which]) /\ CallIsTyped(NoCall)
           /\ [op |-> "audit", what |-> what, which |-> which].op # "insert" /\ NoCall.op # "insert"
BY DEF CallIsTyped, NoCall

\* What is enough for a step that leaves the versions alone.
LEMMA OtherStepsKeep ==
    ASSUME RegistryInv, NEW c \in Calls, NEW r, CallIsTyped(r), call' = [call EXCEPT ![c] = r],
           env' \in [Envs -> EnvRecords], UNCHANGED <<ver, clock>>,
           \A e \in Envs : env'[e].latest = env[e].latest,
           \A e \in Envs : env'[e].state = "absent" => env[e].state = "absent",
           r.op = "insert" => env[r.env].state # "absent"
    PROVE  RegistryInv'
<1>1. call' = [d \in Calls |-> IF d = c THEN r ELSE call[d]]
  BY DEF RegistryInv, RegistryTypes
<1>2. call' = [d \in Calls |-> call'[d]] /\ \A d \in Calls : CallIsTyped(call'[d])
  BY CallsStayTyped DEF RegistryInv
<1>3. OneRowPerVersion' /\ LatestIsCurrent' /\ ver' \in [Envs -> SUBSET EnvRows]
  BY VersionsStay
<1>4. RegistryTypes'
  BY <1>2, <1>3 DEF RegistryInv, RegistryTypes
<1>5. AbsentIsEmpty'
  <2>1. \A e \in Envs : env'[e].state = "absent" => ver'[e] = {}
    BY DEF RegistryInv, AbsentIsEmpty
  <2>2. ASSUME NEW d \in Calls, call'[d].op = "insert" PROVE env'[call'[d].env].state # "absent"
    <3>1. call'[d].env \in Envs
      BY <1>2, <2>2 DEF CallIsTyped
    <3>2. env[call'[d].env].state # "absent"
      BY <1>1, <2>2 DEF RegistryInv, AbsentIsEmpty
    <3> QED BY <3>1, <3>2
  <2> QED BY <2>1, <2>2 DEF AbsentIsEmpty
<1> QED BY <1>3, <1>4, <1>5 DEF RegistryInv

\* The transactions on the row of an environment.
LEMMA EnvStepsKeep ==
    ASSUME RegistryInv, NEW c \in Calls, NEW e \in Envs,
           create_env(c, e) \/ resurrect_env(c, e) \/ update_env(c, e) \/ soft_delete_env(c, e)
    PROVE  RegistryInv'
<1>1. PICK what, which : call' = [call EXCEPT ![c] = [op |-> "audit", what |-> what, which |-> which]]
  BY DEF create_env, resurrect_env, update_env, soft_delete_env, ToAudit
<1>2. UNCHANGED <<ver, clock>>
  BY DEF create_env, resurrect_env, update_env, soft_delete_env
<1>3. env \in [Envs -> EnvRecords] /\ clock \in Nat
  BY DEF RegistryInv, RegistryTypes
<1>4. CASE create_env(c, e)
  <2>1. env[e].state = "absent" /\ env' = [env EXCEPT ![e] = [state |-> "live", latest |-> NoVersion, updated |-> clock]]
    BY <1>4 DEF create_env
  <2>2. env[e].latest = NoVersion
    BY <2>1 DEF RegistryInv, LatestIsCurrent, AbsentIsEmpty, Recompute, latest, latest_eligible_versions, Highest
  <2>3. env' \in [Envs -> EnvRecords]
    BY <1>3, <2>1 DEF EnvRecords
  <2>4. \A f \in Envs : env'[f].latest = env[f].latest /\ (env'[f].state = "absent" => env[f].state = "absent")
    BY <1>3, <2>1, <2>2 DEF EnvRecords
  <2> QED BY <1>1, <1>2, <2>3, <2>4, AuditIsTyped, OtherStepsKeep
<1>5. CASE resurrect_env(c, e) \/ update_env(c, e) \/ soft_delete_env(c, e)
  <2>1. PICK s \in {"live", "deleted"} :
            \/ env' = [env EXCEPT ![e].state = s, ![e].updated = clock]
            \/ env' = [env EXCEPT ![e].updated = clock]
    BY <1>5 DEF resurrect_env, update_env, soft_delete_env
  <2>2. env' \in [Envs -> EnvRecords]
    BY <1>3, <2>1 DEF EnvRecords
  <2>3. \A f \in Envs : env'[f].latest = env[f].latest /\ (env'[f].state = "absent" => env[f].state = "absent")
    BY <1>3, <2>1 DEF EnvRecords
  <2> QED BY <1>1, <1>2, <2>2, <2>3, AuditIsTyped, OtherStepsKeep
<1> QED BY <1>4, <1>5

\* The steps of a handler before and after its transaction, and those that
\* concern packages and stacks.
LEMMA ReadStepsKeep ==
    ASSUME RegistryInv, NEW c \in Calls,
           \/ \E e \in Envs, v \in EnvVersions, b \in BOOLEAN, d \in Envs \union {Unset} : publish_version(c, e, v, b, d)
           \/ CheckNew(c) \/ AuditEntry(c)
           \/ \E p \in Packages, v \in EnvVersions : publish_package_version(c, p, v)
           \/ \E s \in Stacks : StackReadsEnv(c, s)
           \/ StackChecks(c) \/ publish_stack(c)
    PROVE  RegistryInv'
<1>1. UNCHANGED <<env, ver, clock>>
  BY DEF publish_version, CheckNew, AuditEntry, publish_package_version, StackReadsEnv, StackChecks, publish_stack
<1>2. env \in [Envs -> EnvRecords] /\ clock \in Nat /\ CallIsTyped(call[c]) /\ call = [d \in Calls |-> call[d]]
  BY DEF RegistryInv, RegistryTypes
<1>3. \E r : CallIsTyped(r) /\ call' = [call EXCEPT ![c] = r] /\ (r.op = "insert" => env[r.env].state # "absent")
  <2>1. CASE \E e \in Envs, v \in EnvVersions, b \in BOOLEAN, d \in Envs \union {Unset} : publish_version(c, e, v, b, d)
    <3>1. PICK e \in Envs, v \in EnvVersions, b \in BOOLEAN :
              call' = [call EXCEPT ![c] = [op |-> "version", env |-> e, version |-> v, eligible |-> b]]
      BY <2>1 DEF publish_version, Begin
    <3> DEFINE r == [op |-> "version", env |-> e, version |-> v, eligible |-> b]
    <3>2. CallIsTyped(r) /\ r.op # "insert"
      BY DEF CallIsTyped
    <3> HIDE DEF r
    <3> QED BY <3>1, <3>2 DEF r
  <2>2. CASE CheckNew(c)
    <3>1. call[c].op = "version"
      BY <2>2 DEF CheckNew
    <3>2. CASE call' = [call EXCEPT ![c] = NoCall]
      BY <3>2, AuditIsTyped
    <3>3. CASE /\ Live(call[c].env)
               /\ call' = [call EXCEPT ![c] = [op |-> "insert", env |-> call[c].env, version |-> call[c].version,
                                               eligible |-> call[c].eligible, ts |-> clock]]
      <4> DEFINE q == call[c]
                 r == [op |-> "insert", env |-> q.env, version |-> q.version, eligible |-> q.eligible, ts |-> clock]
      <4>1. CallIsTyped(r)
        BY <1>2, <3>1 DEF CallIsTyped
      <4>2. r.env = q.env /\ env[q.env].state # "absent"
        BY <3>3 DEF Live
      <4>3. call' = [call EXCEPT ![c] = r]
        BY <3>3
      <4> HIDE DEF r
      <4> QED BY <4>1, <4>2, <4>3
    <3> QED BY <2>2, <3>2, <3>3 DEF CheckNew, End
  <2>3. CASE AuditEntry(c)
    BY <2>3, AuditIsTyped DEF AuditEntry, End
  <2>4. CASE \E p \in Packages, v \in EnvVersions : publish_package_version(c, p, v)
    BY <2>4, AuditIsTyped DEF publish_package_version, ToAudit
  <2>5. CASE \E s \in Stacks : StackReadsEnv(c, s)
    <3>1. PICK s \in Stacks : call' = [call EXCEPT ![c] = [op |-> "stack", stack |-> s, v |-> task_env_facts(s.env, s.wants)]]
      BY <2>5 DEF StackReadsEnv, Begin
    <3> DEFINE r == [op |-> "stack", stack |-> s, v |-> task_env_facts(s.env, s.wants)]
    <3>2. CallIsTyped(r) /\ r.op # "insert"
      BY DEF CallIsTyped
    <3> HIDE DEF r
    <3> QED BY <3>1, <3>2 DEF r
  <2>6. CASE StackChecks(c)
    <3>1. CASE call' = [call EXCEPT ![c] = NoCall]
      BY <3>1, AuditIsTyped
    <3>2. CASE call' = [call EXCEPT ![c].op = "stackinsert"]
      <4> DEFINE r == [call[c] EXCEPT !.op = "stackinsert"]
      <4>1. call' = [call EXCEPT ![c] = r] /\ r.op = "stackinsert" /\ "op" \in DOMAIN r
        BY <1>2, <3>2 DEF CallIsTyped
      <4>2. CallIsTyped(r) /\ r.op # "insert"
        BY <4>1 DEF CallIsTyped
      <4> HIDE DEF r
      <4> QED BY <4>1, <4>2
    <3> QED BY <2>6, <3>1, <3>2 DEF StackChecks, End
  <2>7. CASE publish_stack(c)
    BY <2>7, AuditIsTyped DEF publish_stack, End, ToAudit
  <2> QED BY <2>1, <2>2, <2>3, <2>4, <2>5, <2>6, <2>7
<1>4. PICK r : CallIsTyped(r) /\ call' = [call EXCEPT ![c] = r] /\ (r.op = "insert" => env[r.env].state # "absent")
  BY <1>3
<1> QED BY <1>1, <1>2, <1>4, OtherStepsKeep

\* The transactions on the versions: an insertion and a yank.
LEMMA VersionStepsKeep ==
    ASSUME RegistryConstants, RegistryInv, NEW c \in Calls,
           publish_version_gated(c) \/ \E e \in Envs, v \in EnvVersions : yank_version(c, e, v)
    PROVE  RegistryInv'
<1>0. env \in [Envs -> EnvRecords] /\ ver \in [Envs -> SUBSET EnvRows] /\ clock \in Nat /\ CallIsTyped(call[c])
  BY DEF RegistryInv, RegistryTypes
<1>1. CASE publish_version_gated(c) /\ call' = [call EXCEPT ![c] = NoCall] /\ UNCHANGED <<env, ver>>
  <2>1. clock' = clock
    BY <1>1 DEF publish_version_gated
  <2> QED BY <1>0, <1>1, <2>1, AuditIsTyped, OtherStepsKeep
<1>2. ASSUME NEW e \in Envs, NEW rows \in SUBSET EnvRows, NEW ts \in Nat, SetVersions(e, rows, ts),
             \A r, x \in rows : r.version = x.version => r = x,
             env[e].state # "absent", clock' = clock,
             NEW what, NEW which, call' = [call EXCEPT ![c] = [op |-> "audit", what |-> what, which |-> which]]
      PROVE  RegistryInv'
  <2>1. /\ env' \in [Envs -> EnvRecords] /\ ver' \in [Envs -> SUBSET EnvRows]
        /\ OneRowPerVersion' /\ LatestIsCurrent'
    BY <1>2, SetVersionsKeeps
  <2>2. call' = [d \in Calls |-> call'[d]] /\ \A d \in Calls : CallIsTyped(call'[d])
    BY <1>2, AuditIsTyped, CallsStayTyped DEF RegistryInv
  <2>3. RegistryTypes'
    BY <1>0, <1>2, <2>1, <2>2 DEF RegistryTypes
  <2>4. \A f \in Envs : env'[f].state = env[f].state /\ (f # e => ver'[f] = ver[f])
    <3>1. PICK l : ver' = [ver EXCEPT ![e] = rows] /\ env' = [env EXCEPT ![e].latest = l, ![e].updated = ts]
      BY <1>2 DEF SetVersions
    <3> QED BY <1>0, <3>1 DEF EnvRecords
  <2>5. AbsentIsEmpty'
    <3>1. \A f \in Envs : env'[f].state = "absent" => ver'[f] = {}
      BY <1>2, <2>4 DEF RegistryInv, AbsentIsEmpty
    <3>2. ASSUME NEW d \in Calls, call'[d].op = "insert" PROVE env'[call'[d].env].state # "absent"
      <4>1. d # c /\ call'[d] = call[d]
        BY <1>2, <3>2 DEF RegistryInv, RegistryTypes
      <4>2. call[d].env \in Envs /\ env[call[d].env].state # "absent"
        BY <3>2, <4>1 DEF RegistryInv, RegistryTypes, CallIsTyped, AbsentIsEmpty
      <4> QED BY <2>4, <4>1, <4>2
    <3> QED BY <3>1, <3>2 DEF AbsentIsEmpty
  <2> QED BY <2>1, <2>3, <2>5 DEF RegistryInv
<1>3. CASE publish_version_gated(c) /\ ~UNCHANGED <<env, ver>>
  <2> DEFINE q == call[c]
             row1 == [version |-> q.version, eligible |-> q.eligible, yanked |-> FALSE, at |-> q.ts]
             rows == ver[q.env] \union {row1}
  <2>1. /\ q.op = "insert" /\ clock' = clock
        /\ ~\E x \in ver[q.env] : x.version = q.version
        /\ SetVersions(q.env, rows, q.ts)
        /\ call' = [call EXCEPT ![c] = [op |-> "audit", what |-> "publish", which |-> <<q.env, q.version>>]]
    BY <1>3 DEF publish_version_gated, ToAudit
  <2>2. q.env \in Envs /\ row1 \in EnvRows /\ q.ts \in Nat /\ env[q.env].state # "absent"
    BY <1>0, <2>1 DEF CallIsTyped, EnvRows, RegistryInv, AbsentIsEmpty
  <2>3. rows \in SUBSET EnvRows
    BY <1>0, <2>2
  <2>4. \A r, x \in rows : r.version = x.version => r = x
    <3>1. \A r, x \in ver[q.env] : r.version = x.version => r = x
      BY <2>2 DEF RegistryInv, OneRowPerVersion
    <3>2. row1.version = q.version
      OBVIOUS
    <3> QED BY <2>1, <3>1, <3>2
  <2> HIDE DEF rows, q, row1
  <2> QED BY <1>2, <2>1, <2>2, <2>3, <2>4
<1>4. ASSUME NEW e \in Envs, NEW v \in EnvVersions, yank_version(c, e, v) PROVE RegistryInv'
  <2> DEFINE rows == {IF x.version = v THEN [x EXCEPT !.yanked = TRUE] ELSE x : x \in ver[e]}
  <2>1. /\ env[e].state = "live" /\ clock' = clock
        /\ SetVersions(e, rows, clock)
        /\ call' = [call EXCEPT ![c] = [op |-> "audit", what |-> "yank", which |-> <<e, v>>]]
    BY <1>4 DEF yank_version, ToAudit, Live
  <2>2. rows \in SUBSET EnvRows
    <3> SUFFICES ASSUME NEW x \in ver[e] PROVE (IF x.version = v THEN [x EXCEPT !.yanked = TRUE] ELSE x) \in EnvRows
      OBVIOUS
    <3>1. x \in EnvRows
      BY <1>0
    <3> QED BY <3>1 DEF EnvRows
  <2>3. \A r, x \in rows : r.version = x.version => r = x
    <3> SUFFICES ASSUME NEW r \in rows, NEW x \in rows, r.version = x.version PROVE r = x
      OBVIOUS
    <3>1. PICK y \in ver[e] : r = IF y.version = v THEN [y EXCEPT !.yanked = TRUE] ELSE y
      OBVIOUS
    <3>2. PICK z \in ver[e] : x = IF z.version = v THEN [z EXCEPT !.yanked = TRUE] ELSE z
      OBVIOUS
    <3>3. y \in EnvRows /\ z \in EnvRows
      BY <1>0
    <3>4. y.version = r.version /\ z.version = x.version
      BY <3>1, <3>2, <3>3 DEF EnvRows
    <3>5. y = z
      BY <3>4 DEF RegistryInv, OneRowPerVersion
    <3> QED BY <3>1, <3>2, <3>5
  <2> HIDE DEF rows
  <2> QED BY <1>0, <1>2, <2>1, <2>2, <2>3
<1>5. ASSUME publish_version_gated(c), UNCHANGED <<env, ver>> PROVE RegistryInv'
  <2>1. CASE call' = [call EXCEPT ![c] = NoCall]
    BY <1>1, <1>5, <2>1
  <2>2. CASE \E what, which : call' = [call EXCEPT ![c] = [op |-> "audit", what |-> what, which |-> which]]
    <3>1. clock' = clock
      BY <1>5 DEF publish_version_gated
    <3> QED BY <1>0, <1>5, <2>2, <3>1, AuditIsTyped, OtherStepsKeep
  <2> QED BY <1>5, <2>1, <2>2 DEF publish_version_gated, End, ToAudit
<1> QED BY <1>3, <1>4, <1>5

LEMMA RegistryStepKeeps ==
    ASSUME RegistryConstants, RegistryInv, [RegistryNext]_registryVars
    PROVE  RegistryInv'
<1>1. ASSUME NEW c \in Calls, Handle(c) PROVE RegistryInv'
  BY <1>1, EnvStepsKeep, ReadStepsKeep, VersionStepsKeep DEF Handle
<1>2. CASE \/ \E x \in stack : yank_stack(x)
           \/ SyncQuery \/ SyncReply \/ Tick \/ UNCHANGED registryVars
  <2>1. UNCHANGED <<env, ver, call>> /\ clock' \in {clock, clock + 1}
    BY <1>2 DEF yank_stack, SyncQuery, SyncReply, Tick, registryVars
  <2>2. RegistryTypes'
    BY <2>1 DEF RegistryInv, RegistryTypes
  <2>3. OneRowPerVersion' /\ AbsentIsEmpty'
    BY <2>1 DEF RegistryInv, OneRowPerVersion, AbsentIsEmpty
  <2>4. LatestIsCurrent'
    BY <2>1 DEF RegistryInv, LatestIsCurrent, Recompute, latest, latest_eligible_versions, Highest
  <2> QED BY <2>2, <2>3, <2>4 DEF RegistryInv
<1> QED BY <1>1, <1>2 DEF RegistryNext

\* latest_version of an environment names the version that resolving
\* "latest" would find (SetVersions recomputes it in every transaction that
\* changes the rows): the highest release that is neither yanked nor barred,
\* for any number of environments, versions and concurrent handlers.
THEOREM LatestStaysEligible ==
    ASSUME RegistryConstants
    PROVE  RegistrySpec => []LatestIsEligible
<1>1. RegistryInit => RegistryInv
  BY InitRegistryInv
<1>2. RegistryInv /\ [RegistryNext]_registryVars => RegistryInv'
  BY RegistryStepKeeps
<1>3. RegistryInv => LatestIsEligible
  <2> SUFFICES ASSUME RegistryInv, NEW e \in Envs
               PROVE  LET open == {r \in ver[e] : ~r.yanked /\ r.eligible}
                      IN  IF open = {}
                          THEN env[e].latest = NoVersion
                          ELSE /\ \E r \in open : r.version = env[e].latest
                               /\ \A r \in open : r.version > env[e].latest => r.version \in PreReleases
                               /\ env[e].latest \in PreReleases => \A r \in open : r.version \in PreReleases
    BY DEF LatestIsEligible
  <2>1. ver[e] \in SUBSET EnvRows /\ env[e].latest = Recompute(e, ver[e])
    BY DEF RegistryInv, RegistryTypes, LatestIsCurrent
  <2> QED BY <2>1, RecomputeIsEligible
<1> QED BY <1>1, <1>2, <1>3, PTL DEF RegistrySpec

-----------------------------------------------------------------------------
(* EnvRelease: the rules that are fetched.                                 *)

\* A manifest has one rubric at most, and the rules it pins are the ones its
\* report measured, when the report says which.
PinsMeasuredRules(m) ==
    /\ "rubric" \in DOMAIN m
    /\ \A r, q \in m.rubric : r = q
    /\ \A r \in m.rubric : \A s \in r.scorer : r.measured \in {None, {s.digest}}

ReleaseInv ==
    /\ \A m \in manifest : PinsMeasuredRules(m)
    /\ \A v \in DOMAIN published : PinsMeasuredRules(published[v])
    /\ \A f \in fetched : f.version \in DOMAIN published
    /\ FetchedRulesWereMeasured

\* An import pins no rules.
LEMMA OpenEnvImportPinsNone ==
    ASSUME NEW spec, NEW models, NEW opts, NEW requirements,
           NEW m \in openenv_convert(spec, models, opts, requirements)
    PROVE  PinsMeasuredRules(m)
<1>1. PICK e, v, interface, g : m = [OpenEnvManifest(e, v, interface, spec, opts, requirements) EXCEPT !.findings = g]
  BY DEF openenv_convert
<1> DEFINE url == ImageUrl(spec.image, opts, e, v)
<1> HIDE DEF url
<1>2. "rubric" \in DOMAIN m /\ m.rubric = None
  BY <1>1 DEF OpenEnvManifest
<1> QED BY <1>2 DEF PinsMeasuredRules, None

LEMMA ContainerImportPinsNone ==
    ASSUME NEW src, NEW explicit, NEW opts, NEW requirements,
           NEW m \in container_convert(src, explicit, opts, requirements)
    PROVE  PinsMeasuredRules(m)
<1> DEFINE labels == LabelsOf(src)
           v == The(Version(src, labels, opts))
           url(e) == ImageUrl(declared_image(src), opts, e, v)
           digest(e) == IF url(e) = None THEN None ELSE Digest(src)
           base == OrElse(UNION {runtime_base(d) : d \in src.dockerfile}, Get(labels, "base_name"))
           deps == requirements \/ \E d \in src.dockerfile : d.requirements
           Made(e) == [env_type |-> e, version |-> v, interface |-> Interface(explicit, labels),
                       image |-> url(e), digest |-> digest(e), base |-> base,
                       entrypoint |-> Entrypoint(src, labels), health |-> HealthPath(src, labels),
                       deps |-> deps, rubric |-> None, lifecycle |-> None, findings |-> {}]
           found(e) == container_findings(src, labels, opts, Made(e))
<1>0. PICK e \in EnvType(src, labels, opts) : m = [Made(e) EXCEPT !.findings = found(e)]
  BY DEF container_convert
<1> HIDE DEF labels, v, url, digest, base, deps, found
<1>1. m = [Made(e) EXCEPT !.findings = found(e)]
  BY <1>0
<1>2. "rubric" \in DOMAIN m /\ m.rubric = None
  BY <1>1
<1> QED BY <1>2 DEF PinsMeasuredRules, None

\* Steps that publish and fetch nothing.
LEMMA ManifestStepKeeps ==
    ASSUME ReleaseInv, \A m \in manifest' : PinsMeasuredRules(m), UNCHANGED <<published, fetched>>
    PROVE  ReleaseInv'
BY DEF ReleaseInv, FetchedRulesWereMeasured

LEMMA ImportKeeps ==
    ASSUME ReleaseInv, NEW force,
           \/ \E o \in Options : run_import_openenv(o, force)
           \/ \E use \in {"directory", "both", "inspect"}, c \in Contracts, o \in Options : run_import_docker(use, c, o, force)
    PROVE  ReleaseInv'
<1>1. UNCHANGED <<published, fetched>>
  BY DEF run_import_openenv, run_import_docker
<1>2. CASE \E o \in Options : run_import_openenv(o, force)
  <2>1. PICK o \in Options : run_import_openenv(o, force)
    BY <1>2
  <2>2. PICK m : /\ manifest' = {m}
                 /\ m \in UNION {openenv_convert(spec, project.models, o, project.requirements) :
                                     spec \in UNION {from_yaml(doc) : doc \in project.openenv}}
    BY <2>1 DEF run_import_openenv, WriteManifest
  <2>3. PICK spec : m \in openenv_convert(spec, project.models, o, project.requirements)
    BY <2>2
  <2> QED BY <1>1, <2>2, <2>3, OpenEnvImportPinsNone, ManifestStepKeeps
<1>3. CASE \E use \in {"directory", "both", "inspect"}, c \in Contracts, o \in Options : run_import_docker(use, c, o, force)
  <2>1. PICK use, c, o : run_import_docker(use, c, o, force)
    BY <1>3
  <2>2. PICK src, explicit, req, m : manifest' = {m} /\ m \in container_convert(src, explicit, o, req)
    BY <2>1 DEF run_import_docker, WriteManifest
  <2> QED BY <1>1, <2>2, ContainerImportPinsNone, ManifestStepKeeps
<1> QED BY <1>2, <1>3

\* Only rules the report may have measured are pinned.
LEMMA RubricImportKeeps ==
    ASSUME ReleaseInv, NEW ref \in {None} \union {{v} : v \in Evidence}, run_rubric_import(ref)
    PROVE  ReleaseInv'
<1>1. UNCHANGED <<published, fetched>>
  BY DEF run_rubric_import
<1>2. PICK m \in manifest, r \in report :
        /\ ref # None => MeasuredDigest(r)
        /\ manifest' = {[m EXCEPT !.rubric = {[metrics |-> {r.metrics}, digests |-> TRUE,
               scorer |-> {[version |-> v, digest |-> rules] : v \in ref}, measured |-> r.rules]}]}
  BY DEF run_rubric_import
<1> DEFINE scorer == {[version |-> v, digest |-> rules] : v \in ref}
           spec == [metrics |-> {r.metrics}, digests |-> TRUE, scorer |-> scorer, measured |-> r.rules]
           n == [m EXCEPT !.rubric = {spec}]
<1>3. \A s \in scorer : s.digest = rules /\ ref # None
  BY DEF None
<1>4. spec.scorer = scorer /\ spec.measured = r.rules
  OBVIOUS
<1>5. "rubric" \in DOMAIN m
  BY DEF ReleaseInv, PinsMeasuredRules
<1> HIDE DEF scorer, spec
<1>6. "rubric" \in DOMAIN n /\ n.rubric = {spec}
  BY <1>5
<1>7. \A s \in spec.scorer : spec.measured \in {None, {s.digest}}
  BY <1>2, <1>3, <1>4 DEF MeasuredDigest
<1>8. manifest' = {n}
  BY <1>2 DEF spec, scorer
<1> HIDE DEF n
<1>9. PinsMeasuredRules(n)
  BY <1>6, <1>7 DEF PinsMeasuredRules
<1> QED BY <1>1, <1>8, <1>9, ManifestStepKeeps

\* The identity is declared beside the rubric.
LEMMA IdentityKeeps ==
    ASSUME ReleaseInv, NEW l, DeclareIdentity(l)
    PROVE  ReleaseInv'
<1>1. UNCHANGED <<published, fetched>> /\ manifest' = {[m EXCEPT !.lifecycle = {l}] : m \in manifest}
  BY DEF DeclareIdentity
<1>2. ASSUME NEW n \in manifest' PROVE PinsMeasuredRules(n)
  <2>1. PICK m \in manifest : n = [m EXCEPT !.lifecycle = {l}]
    BY <1>1
  <2>2. PinsMeasuredRules(m)
    BY DEF ReleaseInv
  <2>3. "rubric" \in DOMAIN n /\ n.rubric = m.rubric
    BY <2>1, <2>2 DEF PinsMeasuredRules
  <2> QED BY <2>2, <2>3 DEF PinsMeasuredRules
<1> QED BY <1>1, <1>2, ManifestStepKeeps

\* A version is published once, as the manifest declares it.
LEMMA PublicationKeeps ==
    ASSUME ReleaseInv, publish_manifest
    PROVE  ReleaseInv'
<1>1. PICK m \in manifest : m.version \notin DOMAIN published /\ published' = Over([v \in {m.version} |-> m], published)
  BY DEF publish_manifest
<1>2. UNCHANGED <<manifest, fetched>>
  BY DEF publish_manifest
<1>3. /\ DOMAIN published' = {m.version} \union DOMAIN published
      /\ published'[m.version] = m
      /\ \A v \in DOMAIN published : published'[v] = published[v]
  BY <1>1 DEF Over
<1>4. \A v \in DOMAIN published' : PinsMeasuredRules(published'[v])
  BY <1>3 DEF ReleaseInv
<1>5. \A f \in fetched : f.version \in DOMAIN published
  BY DEF ReleaseInv
<1>6. FetchedRulesWereMeasured'
  BY <1>2, <1>3, <1>5 DEF ReleaseInv, FetchedRulesWereMeasured
<1> QED BY <1>2, <1>3, <1>4, <1>5, <1>6 DEF ReleaseInv

\* What is fetched has the pinned digest.
LEMMA FetchKeeps ==
    ASSUME ReleaseInv, NEW v \in DOMAIN published, run_fetch_scorer(v)
    PROVE  ReleaseInv'
<1>1. UNCHANGED <<manifest, published>>
  BY DEF run_fetch_scorer
<1>0. PICK r \in published[v].rubric : \E s \in r.scorer : fetched' = {[version |-> v, rules |-> s.digest]}
  BY DEF run_fetch_scorer
<1>2. PICK s \in r.scorer : fetched' = {[version |-> v, rules |-> s.digest]}
  BY <1>0
<1>3. PinsMeasuredRules(published[v])
  BY DEF ReleaseInv
<1>4. \A f \in fetched' : f.version = v /\ f.rules = s.digest
  BY <1>2
<1>5. \A q \in published[v].rubric : q = r
  BY <1>3 DEF PinsMeasuredRules
<1>6. r.measured \in {None, {s.digest}}
  BY <1>3 DEF PinsMeasuredRules
<1>7. FetchedRulesWereMeasured'
  BY <1>1, <1>4, <1>5, <1>6 DEF FetchedRulesWereMeasured
<1> QED BY <1>1, <1>4, <1>7 DEF ReleaseInv

LEMMA ReleaseStepKeeps == ReleaseInv /\ [ReleaseNext]_releaseVars => ReleaseInv'
<1> SUFFICES ASSUME ReleaseInv, [ReleaseNext]_releaseVars PROVE ReleaseInv'
  OBVIOUS
<1>1. CASE \/ \E other : Build(other)
           \/ EditRules
           \/ \E m \in Metrics, named \in BOOLEAN : Align(m, named)
           \/ \E v \in Evidence, scorer \in BOOLEAN : run_publish_rubric(v, scorer)
           \/ UNCHANGED releaseVars
  <2>1. UNCHANGED <<manifest, published, fetched>>
    BY <1>1 DEF Build, EditRules, Align, run_publish_rubric, releaseVars
  <2> QED BY <2>1, ManifestStepKeeps DEF ReleaseInv
<1> QED BY <1>1, ImportKeeps, RubricImportKeeps, IdentityKeeps, PublicationKeeps, FetchKeeps DEF ReleaseNext

\* The rules fetch-scorer wrote for a version are the ones its published
\* report was measured with, whatever was edited, aligned, imported and
\* published in between (run_rubric_import, run_fetch_scorer).
THEOREM FetchedRulesStayMeasured == ReleaseSpec => []FetchedRulesWereMeasured
<1>1. ReleaseInit => ReleaseInv
  BY DEF ReleaseInit, ReleaseInv, FetchedRulesWereMeasured, None
<1>2. ReleaseInv /\ [ReleaseNext]_releaseVars => ReleaseInv'
  BY ReleaseStepKeeps
<1>3. ReleaseInv => FetchedRulesWereMeasured
  BY DEF ReleaseInv
<1> QED BY <1>1, <1>2, <1>3, PTL DEF ReleaseSpec

-----------------------------------------------------------------------------
(* PackagePublish: what is published.                                      *)

PublishPlaces == {"done", "lookup", "env", "create", "version", "publish", "confirm-env", "confirm-create",
                  "confirm-version", "confirm-publish", "request", "waiting"}
Confirming == {"confirm-env", "confirm-create", "confirm-version", "confirm-publish"}
PublishCommands == [at : PublishPlaces, version : PackageVersions, release : Releases]
HubHandlers == [at : {"idle", "check", "stage", "insert"}, next : Nat]

PublishTypes ==
    /\ publish_command \in [Publishers -> PublishCommands]
    /\ told \in [Publishers -> {"nothing", "ok", "failed"}]
    /\ handler \in [Publishers -> HubHandlers]
    /\ files \in [PackageVersions -> [FileNames -> SUBSET Releases]]
    /\ row \in [PackageVersions -> SUBSET Releases]
    /\ registry \in [PackageVersions -> SUBSET Entries]

\* A request that the Hub works on, or may, has its registry version; a
\* command that confirms or has reported success has its release published.
CommandIsSound(c) ==
    LET q == publish_command[c] IN
    /\ handler[c].at # "idle" => q.at \in {"waiting", "done"}
    /\ (q.at \in {"request", "waiting"} \/ handler[c].at # "idle") /\ q.release \in WellFormed
           => registry[q.version] = {EntryOf[q.release]}
    /\ q.at \in Confirming \/ told[c] = "ok" => row[q.version] = {q.release}

\* The first n files of the release of a request are in place.
Staged(fs, q, n) == \A i \in 1 .. n : fs[q.version][FilesOf[q.release][i]] = {q.release}
HandlerIsSound(c) ==
    LET q == publish_command[c]
        last == Len(FilesOf[q.release]) IN
    /\ handler[c].at \in {"stage", "insert"} => q.release \in WellFormed
    /\ handler[c].at = "stage" => handler[c].next \in 1 .. last /\ Staged(files, q, handler[c].next - 1)
    /\ handler[c].at = "insert" => Staged(files, q, last)

PublishInv ==
    /\ PublishTypes
    /\ \A c \in Publishers : CommandIsSound(c) /\ HandlerIsSound(c)
    /\ PublishedBytes /\ PackageIsRegistered /\ StrayFilesHaveACause

\* Rows, registry versions and files are only added.
OnlyAdds ==
    /\ \A v \in PackageVersions : row[v] # Nothing => row'[v] = row[v]
    /\ \A v \in PackageVersions : registry[v] # Nothing => registry'[v] = registry[v]
    /\ \A v \in PackageVersions : \A n \in FileNames : files[v][n] # Nothing => files'[v][n] = files[v][n]

LEMMA FileNamesOf ==
    ASSUME PublishConstants, NEW r \in Releases
    PROVE  /\ Len(FilesOf[r]) \in Nat
           /\ \A i \in 1 .. Len(FilesOf[r]) : FilesOf[r][i] \in FileNames
           /\ \A n \in Range(FilesOf[r]) : n \in FileNames /\ \E i \in 1 .. Len(FilesOf[r]) : n = FilesOf[r][i]
           /\ r \in WellFormed => Len(FilesOf[r]) >= 1
<1>1. Len(FilesOf[r]) \in Nat /\ DOMAIN FilesOf[r] = 1 .. Len(FilesOf[r])
  BY DEF PublishConstants
<1>2. Range(FilesOf[r]) = {FilesOf[r][i] : i \in 1 .. Len(FilesOf[r])}
  BY <1>1 DEF Range
<1>3. Range(FilesOf[r]) \subseteq FileNames
  BY DEF FileNames
<1>4. ASSUME r \in WellFormed, Len(FilesOf[r]) = 0 PROVE FALSE
  BY <1>4 DEF PublishConstants
<1> QED BY <1>1, <1>2, <1>3, <1>4

\* A command and its handler that do not move keep what they have.
LEMMA OthersAreSound ==
    ASSUME PublishConstants, PublishInv, OnlyAdds, NEW d \in Publishers,
           publish_command'[d] = publish_command[d], told'[d] = told[d], handler'[d] = handler[d]
    PROVE  CommandIsSound(d)' /\ HandlerIsSound(d)'
<1> DEFINE q == publish_command[d]
<1>1. q.version \in PackageVersions /\ q.release \in Releases /\ handler[d].next \in Nat
  BY DEF PublishInv, PublishTypes, PublishCommands, HubHandlers
<1>2. CommandIsSound(d) /\ HandlerIsSound(d)
  BY DEF PublishInv
<1>3. CommandIsSound(d)'
  BY <1>1, <1>2 DEF CommandIsSound, OnlyAdds, Nothing
<1>4. ASSUME NEW n \in 0 .. Len(FilesOf[q.release]), Staged(files, q, n) PROVE Staged(files', q, n)
  <2> SUFFICES ASSUME NEW i \in 1 .. n PROVE files'[q.version][FilesOf[q.release][i]] = {q.release}
    BY DEF Staged
  <2>1. FilesOf[q.release][i] \in FileNames
    BY <1>1, FileNamesOf
  <2>2. files[q.version][FilesOf[q.release][i]] = {q.release}
    BY <1>4 DEF Staged
  <2> QED BY <1>1, <2>1, <2>2 DEF OnlyAdds, Nothing
<1>5. HandlerIsSound(d)'
  <2>1. handler[d].at \in {"stage", "insert"} => q.release \in WellFormed
    BY <1>2 DEF HandlerIsSound
  <2>2. ASSUME handler[d].at = "stage"
        PROVE  handler[d].next \in 1 .. Len(FilesOf[q.release]) /\ Staged(files', q, handler[d].next - 1)
    <3>1. handler[d].next \in 1 .. Len(FilesOf[q.release]) /\ Staged(files, q, handler[d].next - 1)
      BY <1>2, <2>2 DEF HandlerIsSound
    <3>2. handler[d].next - 1 \in 0 .. Len(FilesOf[q.release])
      BY <3>1, <1>1, FileNamesOf
    <3> QED BY <3>1, <3>2, <1>4
  <2>3. ASSUME handler[d].at = "insert" PROVE Staged(files', q, Len(FilesOf[q.release]))
    <3>1. Staged(files, q, Len(FilesOf[q.release]))
      BY <1>2, <2>3 DEF HandlerIsSound
    <3>2. Len(FilesOf[q.release]) \in 0 .. Len(FilesOf[q.release])
      BY <1>1, FileNamesOf
    <3> QED BY <3>1, <3>2, <1>4
  <2> QED BY <2>1, <2>2, <2>3 DEF HandlerIsSound
<1> QED BY <1>3, <1>5

LEMMA RowsStaySound ==
    ASSUME PublishConstants, PublishInv, OnlyAdds, NEW v \in PackageVersions, row'[v] = row[v]
    PROVE  \A r \in row'[v] : /\ registry'[v] = {EntryOf[r]}
                              /\ \A n \in Range(FilesOf[r]) : files'[v][n] = {r}
<1> SUFFICES ASSUME NEW r \in row[v] PROVE registry'[v] = {EntryOf[r]} /\ \A n \in Range(FilesOf[r]) : files'[v][n] = {r}
  OBVIOUS
<1>1. r \in Releases
  BY DEF PublishInv, PublishTypes
<1>2. registry[v] = {EntryOf[r]}
  BY DEF PublishInv, PackageIsRegistered
<1>3. \A n \in Range(FilesOf[r]) : n \in FileNames /\ files[v][n] = {r}
  BY <1>1, FileNamesOf DEF PublishInv, PublishedBytes
<1> QED BY <1>2, <1>3 DEF OnlyAdds, Nothing

\* A step of a command that the Hub does not see.
LEMMA CommandStepKeeps ==
    ASSUME PublishConstants, PublishInv, NEW c \in Publishers, NEW p \in PublishCommands,
           NEW t \in {"nothing", "ok", "failed"},
           publish_command' = [publish_command EXCEPT ![c] = p], told' = [told EXCEPT ![c] = t],
           registry' \in [PackageVersions -> SUBSET Entries],
           \A v \in PackageVersions : registry[v] # Nothing => registry'[v] = registry[v],
           UNCHANGED hubState,
           handler[c].at = "idle" \/ (p.version = publish_command[c].version /\ p.release = publish_command[c].release),
           handler[c].at # "idle" => p.at \in {"waiting", "done"},
           (p.at \in {"request", "waiting"} \/ handler[c].at # "idle") /\ p.release \in WellFormed
               => registry'[p.version] = {EntryOf[p.release]},
           p.at \in Confirming \/ t = "ok" => row[p.version] = {p.release}
    PROVE  PublishInv'
<1>1. UNCHANGED <<handler, files, row, abandoned>>
  BY DEF hubState
<1>2. publish_command'[c] = p /\ told'[c] = t
  BY DEF PublishInv, PublishTypes
<1>3. \A d \in Publishers : d # c => publish_command'[d] = publish_command[d] /\ told'[d] = told[d]
  BY DEF PublishInv, PublishTypes
<1>4. PublishTypes'
  BY <1>1 DEF PublishInv, PublishTypes
<1>5. OnlyAdds
  BY <1>1 DEF OnlyAdds
<1>6. CommandIsSound(c)'
  BY <1>1, <1>2 DEF CommandIsSound
<1>7. HandlerIsSound(c)'
  <2>1. CASE handler[c].at = "idle"
    BY <1>1, <2>1 DEF HandlerIsSound
  <2>2. CASE p.version = publish_command[c].version /\ p.release = publish_command[c].release
    <3>1. HandlerIsSound(c)
      BY DEF PublishInv
    <3>2. \A n : Staged(files, publish_command[c], n) => Staged(files, p, n)
      BY <2>2 DEF Staged
    <3> QED BY <1>1, <1>2, <2>2, <3>1, <3>2 DEF HandlerIsSound
  <2> QED BY <2>1, <2>2
<1>8. \A d \in Publishers : d # c => CommandIsSound(d)' /\ HandlerIsSound(d)'
  BY <1>1, <1>3, <1>5, OthersAreSound
<1>9. PublishedBytes' /\ PackageIsRegistered'
  BY <1>1, <1>5, RowsStaySound DEF PublishedBytes, PackageIsRegistered
<1>10. StrayFilesHaveACause'
  <2> SUFFICES ASSUME NEW v \in PackageVersions, row[v] = Nothing, \E n \in FileNames : files[v][n] # Nothing,
                      v \notin abandoned
               PROVE  \E d \in Publishers : /\ handler[d].at \in {"stage", "insert"} /\ publish_command'[d].version = v
                                            /\ publish_command'[d].release \in WellFormed
    BY <1>1 DEF StrayFilesHaveACause
  <2>1. PICK d \in Publishers : /\ handler[d].at \in {"stage", "insert"} /\ publish_command[d].version = v
                                /\ publish_command[d].release \in WellFormed
    BY DEF PublishInv, StrayFilesHaveACause
  <2>2. CASE d = c
    BY <1>2, <2>1, <2>2
  <2>3. CASE d # c
    BY <1>3, <2>1, <2>3
  <2> QED BY <2>2, <2>3
<1> QED BY <1>4, <1>6, <1>7, <1>8, <1>9, <1>10 DEF PublishInv

\* GoTo and Report as an update of one command.
LEMMA GoToIs ==
    ASSUME PublishInv, NEW c \in Publishers, NEW place \in PublishPlaces, GoTo(c, place)
    PROVE  \E p \in PublishCommands :
             /\ publish_command' = [publish_command EXCEPT ![c] = p]
             /\ p.at = place /\ p.version = publish_command[c].version /\ p.release = publish_command[c].release
<1> DEFINE p == [publish_command[c] EXCEPT !.at = place]
<1>1. publish_command[c] \in PublishCommands
  BY DEF PublishInv, PublishTypes
<1>2. p \in PublishCommands /\ p.at = place /\ p.version = publish_command[c].version /\ p.release = publish_command[c].release
  BY <1>1 DEF PublishCommands
<1>3. publish_command' = [publish_command EXCEPT ![c] = p]
  BY DEF GoTo
<1> HIDE DEF p
<1> QED BY <1>2, <1>3

\* The new place of a command that stays with its version and release.
LEMMA PublishMoveKeeps ==
    ASSUME PublishConstants, PublishInv, NEW c \in Publishers, NEW place \in PublishPlaces, GoTo(c, place),
           NEW t \in {"nothing", "ok", "failed"}, told' = [told EXCEPT ![c] = t],
           registry' \in [PackageVersions -> SUBSET Entries],
           \A v \in PackageVersions : registry[v] # Nothing => registry'[v] = registry[v],
           UNCHANGED hubState,
           handler[c].at # "idle" => place \in {"waiting", "done"},
           place \in {"request", "waiting"} => registry'[publish_command[c].version] = {EntryOf[publish_command[c].release]},
           place \in Confirming \/ t = "ok" => row[publish_command[c].version] = {publish_command[c].release}
    PROVE  PublishInv'
<1>1. PICK p \in PublishCommands :
          /\ publish_command' = [publish_command EXCEPT ![c] = p]
          /\ p.at = place /\ p.version = publish_command[c].version /\ p.release = publish_command[c].release
  BY GoToIs
<1>2. CommandIsSound(c) /\ publish_command[c].version \in PackageVersions
  BY DEF PublishInv, PublishTypes, PublishCommands
<1>3. handler[c].at # "idle" /\ p.release \in WellFormed => registry'[p.version] = {EntryOf[p.release]}
  BY <1>1, <1>2 DEF CommandIsSound, Nothing
<1> QED BY <1>1, <1>3, CommandStepKeeps

\* A command that is neither waiting nor done has no handler.
LEMMA NoHandler ==
    ASSUME PublishInv, NEW c \in Publishers, publish_command[c].at \notin {"waiting", "done"}
    PROVE  handler[c].at = "idle"
BY DEF PublishInv, CommandIsSound

\* The invocation of a command, by the operator or by another client.
LEMMA PublishStartKeeps ==
    ASSUME PublishConstants, PublishInv, NEW c \in Publishers, NEW v \in PackageVersions, NEW r \in Releases,
           handler[c].at = "idle", run_publish_plugin(c, v, r) \/ PostMalformed(c, v, r)
    PROVE  PublishInv'
<1>1. PICK place \in {"lookup", "request"} :
          /\ publish_command' = [publish_command EXCEPT ![c] = [at |-> place, version |-> v, release |-> r]]
          /\ place = "request" => r \notin WellFormed
  BY DEF run_publish_plugin, PostMalformed
<1>2. told' = [told EXCEPT ![c] = "nothing"] /\ UNCHANGED registry /\ UNCHANGED hubState
  BY DEF run_publish_plugin, PostMalformed, hubState
<1> DEFINE p == [at |-> place, version |-> v, release |-> r]
<1>3. p \in PublishCommands /\ p.at = place /\ p.version = v /\ p.release = r
  BY DEF PublishCommands, PublishPlaces
<1>4. publish_command' = [publish_command EXCEPT ![c] = p] /\ registry' \in [PackageVersions -> SUBSET Entries]
  BY <1>1, <1>2 DEF PublishInv, PublishTypes
<1>5. place \notin Confirming /\ place # "waiting"
  BY DEF Confirming
<1> HIDE DEF p
<1> QED BY <1>1, <1>2, <1>3, <1>4, <1>5, CommandStepKeeps

\* The requests of the command to the registry.
LEMMA RegistryRequestsKeep ==
    ASSUME PublishConstants, PublishInv, NEW c \in Publishers,
           Lookup(c) \/ EnsureEnv(c) \/ CreateEnv(c) \/ EnsureVersion(c) \/ PublishVersion(c) \/ LoseAnswer(c)
    PROVE  PublishInv'
<1> DEFINE q == publish_command[c]
<1>1. q \in PublishCommands /\ registry \in [PackageVersions -> SUBSET Entries] /\ told = [told EXCEPT ![c] = told[c]]
      /\ told[c] \in {"nothing", "ok", "failed"} /\ CommandIsSound(c)
  BY DEF PublishInv, PublishTypes
<1>2. q.version \in PackageVersions /\ q.release \in Releases
  BY <1>1 DEF PublishCommands
<1>3. UNCHANGED hubState
  BY DEF Lookup, EnsureEnv, CreateEnv, EnsureVersion, PublishVersion, LoseAnswer
<1>4. /\ \A x \in Confirming : x \in PublishPlaces /\ x \notin {"request", "waiting"}
      /\ \A x \in {"env", "create", "version", "publish", "request", "done"} : x \in PublishPlaces /\ x \notin Confirming \union {"waiting"}
  BY DEF Confirming, PublishPlaces
<1>5. q.at \in Confirming => row[q.version] = {q.release}
  BY <1>1 DEF CommandIsSound
<1>6. told[c] = "ok" => row[q.version] = {q.release}
  BY <1>1 DEF CommandIsSound
<1>7. CASE UNCHANGED registry
  <2>1. registry' \in [PackageVersions -> SUBSET Entries]
        /\ \A v \in PackageVersions : registry[v] # Nothing => registry'[v] = registry[v]
    BY <1>1, <1>7
  <2>2. CASE Report(c, "failed")
    BY <1>3, <1>4, <2>1, <2>2, PublishMoveKeeps DEF Report
  <2>3. CASE Report(c, "ok") /\ q.at = "confirm-version"
    <3>1. row[q.version] = {q.release}
      BY <1>5, <2>3 DEF Confirming
    <3> QED BY <1>3, <1>4, <2>1, <2>3, <3>1, PublishMoveKeeps DEF Report
  <2>4. ASSUME NEW place \in Confirming \union {"env", "create", "version", "publish", "request"},
               GoTo(c, place), UNCHANGED told, q.at \notin {"waiting", "done"},
               place \in Confirming => row[q.version] = {q.release},
               place = "request" => registry[q.version] = {EntryOf[q.release]}
        PROVE  PublishInv'
    <3>1. handler[c].at = "idle"
      BY <2>4, NoHandler
    <3>2. place \in PublishPlaces /\ place # "waiting"
      BY <1>4
    <3>3. told' = [told EXCEPT ![c] = told[c]]
      BY <1>1, <2>4
    <3> QED BY <1>1, <1>3, <1>6, <1>7, <2>1, <2>4, <3>1, <3>2, <3>3, PublishMoveKeeps
  <2>5. CASE Lookup(c)
    BY <2>2, <2>4, <2>5 DEF Lookup, PublishAt, Confirming
  <2>6. CASE EnsureEnv(c)
    BY <1>5, <2>4, <2>6 DEF EnsureEnv, PublishAt, Confirming
  <2>7. CASE CreateEnv(c)
    BY <1>5, <2>2, <2>4, <2>7 DEF CreateEnv, PublishAt, Confirming
  <2>8. CASE EnsureVersion(c)
    BY <1>5, <2>2, <2>3, <2>4, <2>8 DEF EnsureVersion, PublishAt, Confirming
  <2>9. CASE PublishVersion(c)
    <3>1. registry[q.version] # Nothing \/ registry' # registry
      BY <1>1, <1>2, <2>9 DEF PublishVersion, Nothing
    <3> QED BY <1>7, <2>2, <2>9, <3>1 DEF PublishVersion
  <2>10. CASE LoseAnswer(c)
    BY <2>2, <2>10 DEF LoseAnswer
  <2> QED BY <2>5, <2>6, <2>7, <2>8, <2>9, <2>10
<1>8. CASE ~UNCHANGED registry
  <2>1. /\ PublishVersion(c) /\ registry[q.version] = Nothing
        /\ registry' = [registry EXCEPT ![q.version] = {EntryOf[q.release]}]
        /\ q.at \in {"publish", "confirm-publish"}
        /\ IF q.at = "publish" THEN GoTo(c, "request") /\ UNCHANGED told ELSE Report(c, "ok")
    BY <1>8 DEF Lookup, EnsureEnv, CreateEnv, EnsureVersion, PublishVersion, LoseAnswer, PublishAt
  <2>2. handler[c].at = "idle"
    BY <2>1, NoHandler
  <2>3. EntryOf[q.release] \in Entries
    BY <1>2 DEF Entries
  <2>4. /\ registry' \in [PackageVersions -> SUBSET Entries]
        /\ \A v \in PackageVersions : registry[v] # Nothing => registry'[v] = registry[v]
        /\ registry'[q.version] = {EntryOf[q.release]}
    BY <1>1, <1>2, <2>1, <2>3
  <2>5. CASE q.at = "publish"
    <3>1. told' = [told EXCEPT ![c] = told[c]] /\ GoTo(c, "request")
      BY <1>1, <2>1, <2>5
    <3> QED BY <1>1, <1>3, <1>4, <1>6, <2>2, <2>4, <3>1, PublishMoveKeeps
  <2>6. CASE q.at = "confirm-publish"
    <3>1. told' = [told EXCEPT ![c] = "ok"] /\ GoTo(c, "done")
      BY <2>1, <2>6 DEF Report
    <3>2. row[q.version] = {q.release}
      BY <1>5, <2>6 DEF Confirming
    <3> QED BY <1>3, <1>4, <2>2, <2>4, <3>1, <3>2, PublishMoveKeeps
  <2> QED BY <2>1, <2>5, <2>6
<1> QED BY <1>7, <1>8

\* A step of the Hub for one request: the release of the request is checked,
\* staged or inserted, and the command may get its answer.
LEMMA HubStepKeeps ==
    ASSUME PublishConstants, PublishInv, OnlyAdds, NEW c \in Publishers,
           NEW h \in HubHandlers, NEW p \in PublishCommands, NEW t \in {"nothing", "ok", "failed"},
           publish_command' = [publish_command EXCEPT ![c] = p], told' = [told EXCEPT ![c] = t],
           handler' = [handler EXCEPT ![c] = h], UNCHANGED registry,
           p.version = publish_command[c].version, p.release = publish_command[c].release,
           files' \in [PackageVersions -> [FileNames -> SUBSET Releases]],
           handler[c].at # "idle" \/ publish_command[c].at = "request",
           p.at \in {"waiting", "done"},
           t = "ok" => row'[p.version] = {p.release},
           h.at \in {"stage", "insert"} => p.release \in WellFormed,
           h.at = "stage" => h.next \in 1 .. Len(FilesOf[p.release]) /\ Staged(files', p, h.next - 1),
           h.at = "insert" => Staged(files', p, Len(FilesOf[p.release])),
           row' = row \/ (handler[c].at = "insert" /\ row' = [row EXCEPT ![p.version] = {p.release}]),
           StrayFilesHaveACause'
    PROVE  PublishInv'
<1>0. p.version \in PackageVersions /\ p.release \in Releases
  BY DEF PublishCommands
<1>1. publish_command'[c] = p /\ told'[c] = t /\ handler'[c] = h
  BY DEF PublishInv, PublishTypes
<1>2. \A d \in Publishers : d # c => /\ publish_command'[d] = publish_command[d] /\ told'[d] = told[d]
                                     /\ handler'[d] = handler[d]
  BY DEF PublishInv, PublishTypes
<1>3. row' \in [PackageVersions -> SUBSET Releases]
  BY <1>0 DEF PublishInv, PublishTypes
<1>4. PublishTypes'
  BY <1>3 DEF PublishInv, PublishTypes
<1>5. CommandIsSound(c) /\ HandlerIsSound(c)
  BY DEF PublishInv
<1>6. p.release \in WellFormed => registry'[p.version] = {EntryOf[p.release]}
  BY <1>5 DEF CommandIsSound
<1>7. CommandIsSound(c)'
  BY <1>1, <1>6 DEF CommandIsSound, Confirming
<1>8. HandlerIsSound(c)'
  BY <1>1 DEF HandlerIsSound
<1>9. \A d \in Publishers : d # c => CommandIsSound(d)' /\ HandlerIsSound(d)'
  BY <1>2, OthersAreSound
<1>10. ASSUME NEW v \in PackageVersions
       PROVE  \A r \in row'[v] : /\ registry'[v] = {EntryOf[r]}
                                 /\ \A n \in Range(FilesOf[r]) : files'[v][n] = {r}
  <2>1. CASE row'[v] = row[v]
    BY <2>1, RowsStaySound
  <2>2. CASE row'[v] # row[v]
    <3>1. v = p.version /\ handler[c].at = "insert" /\ row'[v] = {p.release}
      BY <2>2, <1>0 DEF PublishInv, PublishTypes
    <3>2. p.release \in WellFormed /\ Staged(files, publish_command[c], Len(FilesOf[p.release]))
      BY <1>5, <3>1 DEF HandlerIsSound
    <3>3. \A n \in Range(FilesOf[p.release]) : n \in FileNames /\ files[v][n] = {p.release}
      <4> SUFFICES ASSUME NEW n \in Range(FilesOf[p.release]) PROVE n \in FileNames /\ files[v][n] = {p.release}
        OBVIOUS
      <4>1. PICK i \in 1 .. Len(FilesOf[p.release]) : n = FilesOf[p.release][i]
        BY <1>0, FileNamesOf
      <4>2. n \in FileNames
        BY <1>0, FileNamesOf
      <4> QED BY <3>1, <3>2, <4>1, <4>2 DEF Staged
    <3>4. \A n \in Range(FilesOf[p.release]) : files'[v][n] = {p.release}
      BY <3>3 DEF OnlyAdds, Nothing
    <3> QED BY <1>6, <3>1, <3>2, <3>4
  <2> QED BY <2>1, <2>2
<1>11. PublishedBytes' /\ PackageIsRegistered'
  BY <1>10 DEF PublishedBytes, PackageIsRegistered
<1> QED BY <1>4, <1>7, <1>8, <1>9, <1>11 DEF PublishInv

\* Stray files are explained as before when none is added, every version that
\* had a cause keeps it or is abandoned, and no row goes.
LEMMA CausesStay ==
    ASSUME PublishInv, UNCHANGED files, abandoned \subseteq abandoned',
           \A v \in PackageVersions : row[v] # Nothing => row'[v] # Nothing,
           \A d \in Publishers : handler[d].at \in {"stage", "insert"} /\ publish_command[d].release \in WellFormed =>
               \/ publish_command[d].version \in abandoned'
               \/ row'[publish_command[d].version] # Nothing
               \/ /\ handler'[d].at \in {"stage", "insert"}
                  /\ publish_command'[d].version = publish_command[d].version
                  /\ publish_command'[d].release = publish_command[d].release
    PROVE  StrayFilesHaveACause'
<1> SUFFICES ASSUME NEW v \in PackageVersions, row'[v] = Nothing, \E n \in FileNames : files[v][n] # Nothing,
                    v \notin abandoned'
             PROVE  \E d \in Publishers : /\ handler'[d].at \in {"stage", "insert"} /\ publish_command'[d].version = v
                                          /\ publish_command'[d].release \in WellFormed
  BY DEF StrayFilesHaveACause
<1>1. row[v] = Nothing /\ v \notin abandoned
  OBVIOUS
<1>2. PICK d \in Publishers : /\ handler[d].at \in {"stage", "insert"} /\ publish_command[d].version = v
                              /\ publish_command[d].release \in WellFormed
  BY <1>1 DEF PublishInv, StrayFilesHaveACause
<1> QED BY <1>2

\* The answer of the Hub, or none when nobody waits for it.
LEMMA AnswerIs ==
    ASSUME PublishInv, NEW c \in Publishers, NEW result \in {"ok", "failed"}, Answer(c, result), handler[c].at # "idle"
    PROVE  \E p \in PublishCommands, t \in {"nothing", "ok", "failed"} :
             /\ publish_command' = [publish_command EXCEPT ![c] = p] /\ told' = [told EXCEPT ![c] = t]
             /\ p.version = publish_command[c].version /\ p.release = publish_command[c].release
             /\ p.at \in {"waiting", "done"}
             /\ t = result \/ t = told[c]
             /\ handler' = [handler EXCEPT ![c] = HubIdle] /\ HubIdle \in HubHandlers /\ HubIdle.at = "idle"
<1>1. handler' = [handler EXCEPT ![c] = HubIdle] /\ HubIdle \in HubHandlers /\ HubIdle.at = "idle"
  BY DEF Answer, HubGoTo, HubIdle, HubHandlers
<1>2. CASE PublishAt(c, "waiting")
  <2>1. GoTo(c, "done") /\ told' = [told EXCEPT ![c] = result]
    BY <1>2 DEF Answer, Report
  <2>2. PICK p \in PublishCommands :
            /\ publish_command' = [publish_command EXCEPT ![c] = p]
            /\ p.at = "done" /\ p.version = publish_command[c].version /\ p.release = publish_command[c].release
    BY <2>1, GoToIs DEF PublishPlaces
  <2> QED BY <1>1, <2>1, <2>2
<1>3. CASE ~PublishAt(c, "waiting")
  <2> DEFINE p == publish_command[c]  t == told[c]
  <2>1. publish_command' = publish_command /\ told' = told
    BY <1>3 DEF Answer
  <2>2. /\ publish_command' = [publish_command EXCEPT ![c] = p] /\ told' = [told EXCEPT ![c] = t]
        /\ p \in PublishCommands /\ t \in {"nothing", "ok", "failed"}
    BY <2>1 DEF PublishInv, PublishTypes
  <2>3. p.at \in {"waiting", "done"}
    BY DEF PublishInv, CommandIsSound
  <2> QED BY <1>1, <2>2, <2>3
<1> QED BY <1>2, <1>3

\* The request arrives, is refused, checked or dropped: no file, no row.
LEMMA ChecksKeep ==
    ASSUME PublishConstants, PublishInv, NEW c \in Publishers,
           Request(c) \/ RefuseDuplicate(c) \/ validate_publish_artifacts(c) \/ HandlerDropped(c)
    PROVE  PublishInv'
<1> DEFINE q == publish_command[c]
<1>0. /\ q \in PublishCommands /\ told[c] \in {"nothing", "ok", "failed"} /\ CommandIsSound(c)
      /\ publish_command = [publish_command EXCEPT ![c] = q] /\ told = [told EXCEPT ![c] = told[c]]
      /\ handler \in [Publishers -> HubHandlers]
      /\ files \in [PackageVersions -> [FileNames -> SUBSET Releases]]
      /\ q.version \in PackageVersions /\ q.release \in Releases
  BY DEF PublishInv, PublishTypes, PublishCommands
<1>1. UNCHANGED <<files, row, registry>> /\ abandoned \subseteq abandoned'
  BY DEF Request, RefuseDuplicate, validate_publish_artifacts, HandlerDropped
<1>2. OnlyAdds
  BY <1>1 DEF OnlyAdds
<1>3. told[c] = "ok" => row'[q.version] = {q.release}
  BY <1>0, <1>1 DEF CommandIsSound
<1>4. \A x \in {"idle", "check", "stage", "insert"} : [at |-> x, next |-> 1] \in HubHandlers
  BY DEF HubHandlers
<1>5. ASSUME NEW p \in PublishCommands, p.version = q.version, p.release = q.release,
             publish_command' = [publish_command EXCEPT ![c] = p],
             NEW h \in HubHandlers, handler' = [handler EXCEPT ![c] = h],
             handler[c].at \in {"stage", "insert"} => q.version \in abandoned'
      PROVE  StrayFilesHaveACause'
  <2>1. \A d \in Publishers : d # c => publish_command'[d] = publish_command[d] /\ handler'[d] = handler[d]
    BY <1>0, <1>5 DEF PublishInv, PublishTypes
  <2> QED BY <1>1, <1>5, <2>1, CausesStay
<1>6. CASE Request(c)
  <2>1. GoTo(c, "waiting") /\ q.at = "request" /\ handler[c].at = "idle" /\ told' = told
        /\ handler' = [handler EXCEPT ![c] = [at |-> "check", next |-> 1]]
    BY <1>6 DEF Request, PublishAt
  <2>2. PICK p \in PublishCommands :
            /\ publish_command' = [publish_command EXCEPT ![c] = p]
            /\ p.at = "waiting" /\ p.version = q.version /\ p.release = q.release
    BY <2>1, GoToIs DEF PublishPlaces
  <2> DEFINE h == [at |-> "check", next |-> 1]
  <2>3. h \in HubHandlers /\ h.at = "check" /\ handler' = [handler EXCEPT ![c] = h]
    BY <1>4, <2>1
  <2> HIDE DEF h
  <2>4. StrayFilesHaveACause'
    BY <1>5, <2>1, <2>2, <2>3
  <2>5. told' = [told EXCEPT ![c] = told[c]] /\ files' \in [PackageVersions -> [FileNames -> SUBSET Releases]]
    BY <1>0, <1>1, <2>1
  <2>6. h.at \notin {"stage", "insert"} /\ row' = row /\ UNCHANGED registry
    BY <1>1, <2>3
  <2>7. told[c] = "ok" => row'[p.version] = {p.release}
    BY <1>3, <2>2
  <2> DEFINE t == told[c]
  <2>8. t \in {"nothing", "ok", "failed"} /\ told' = [told EXCEPT ![c] = t] /\ (t = "ok" => row'[p.version] = {p.release})
    BY <1>0, <2>5, <2>7
  <2>9. publish_command[c].at = "request" /\ p.at \in {"waiting", "done"}
    BY <2>1, <2>2
  <2>10. /\ h.at \in {"stage", "insert"} => p.release \in WellFormed
         /\ h.at = "stage" => h.next \in 1 .. Len(FilesOf[p.release]) /\ Staged(files', p, h.next - 1)
         /\ h.at = "insert" => Staged(files', p, Len(FilesOf[p.release]))
    BY <2>6
  <2> HIDE DEF t
  <2> QED BY <1>2, <2>2, <2>3, <2>4, <2>5, <2>6, <2>8, <2>9, <2>10, HubStepKeeps
<1>7. ASSUME Answer(c, "failed"), handler[c].at = "check" PROVE PublishInv'
  <2>1. PICK p \in PublishCommands, t \in {"nothing", "ok", "failed"} :
             /\ publish_command' = [publish_command EXCEPT ![c] = p] /\ told' = [told EXCEPT ![c] = t]
             /\ p.version = publish_command[c].version /\ p.release = publish_command[c].release
             /\ p.at \in {"waiting", "done"}
             /\ t = "failed" \/ t = told[c]
             /\ handler' = [handler EXCEPT ![c] = HubIdle] /\ HubIdle \in HubHandlers /\ HubIdle.at = "idle"
    BY <1>7, AnswerIs
  <2>2. StrayFilesHaveACause'
    BY <1>5, <1>7, <2>1
  <2> QED BY <1>0, <1>1, <1>2, <1>3, <1>7, <2>1, <2>2, HubStepKeeps
<1>8. CASE RefuseDuplicate(c)
  BY <1>7, <1>8 DEF RefuseDuplicate
<1>9. CASE validate_publish_artifacts(c)
  <2>1. CASE q.release \in WellFormed
    <3> DEFINE h == [at |-> "stage", next |-> 1]
    <3>1. handler[c].at = "check" /\ handler' = [handler EXCEPT ![c] = h] /\ UNCHANGED <<publish_command, told>>
      BY <1>9, <2>1 DEF validate_publish_artifacts, HubGoTo
    <3>2. h \in HubHandlers /\ h.at = "stage" /\ h.next = 1
      BY <1>4
    <3> HIDE DEF h
    <3>3. StrayFilesHaveACause'
      BY <1>0, <1>5, <3>1, <3>2
    <3>4. 1 \in 1 .. Len(FilesOf[q.release]) /\ Staged(files', q, 1 - 1)
      <4>1. Len(FilesOf[q.release]) \in Nat /\ Len(FilesOf[q.release]) >= 1
        BY <1>0, <2>1, FileNamesOf
      <4>2. 1 .. (1 - 1) = {}
        OBVIOUS
      <4>3. Staged(files', q, 1 - 1)
        BY <4>2 DEF Staged
      <4> QED BY <4>1, <4>3
    <3>5. q.at \in {"waiting", "done"}
      BY <1>0, <3>1 DEF CommandIsSound
    <3> QED BY <1>0, <1>1, <1>2, <1>3, <2>1, <3>1, <3>2, <3>3, <3>4, <3>5, HubStepKeeps
  <2>2. CASE q.release \notin WellFormed
    BY <1>7, <1>9, <2>2 DEF validate_publish_artifacts
  <2> QED BY <2>1, <2>2
<1>10. CASE HandlerDropped(c)
  <2>1. /\ handler[c].at \in {"check", "insert"} /\ handler' = [handler EXCEPT ![c] = HubIdle]
        /\ UNCHANGED <<publish_command, told>>
        /\ handler[c].at = "insert" => q.version \in abandoned'
    BY <1>10 DEF HandlerDropped, HubGoTo, HubIdle
  <2>2. HubIdle \in HubHandlers /\ HubIdle.at = "idle"
    BY <1>4 DEF HubIdle
  <2>3. StrayFilesHaveACause'
    BY <1>0, <1>5, <2>1, <2>2
  <2>4. q.at \in {"waiting", "done"}
    BY <1>0, <2>1 DEF CommandIsSound
  <2> QED BY <1>0, <1>1, <1>2, <1>3, <2>1, <2>2, <2>3, <2>4, HubStepKeeps
<1> QED BY <1>6, <1>8, <1>9, <1>10

\* One file is created, or one that is there ends the request.
LEMMA StagingKeeps ==
    ASSUME PublishConstants, PublishInv, NEW c \in Publishers, stage_artifacts(c)
    PROVE  PublishInv'
<1> DEFINE q == publish_command[c]
           n == FilesOf[q.release][handler[c].next]
<1>0. /\ q \in PublishCommands /\ told[c] \in {"nothing", "ok", "failed"} /\ CommandIsSound(c) /\ HandlerIsSound(c)
      /\ publish_command = [publish_command EXCEPT ![c] = q] /\ told = [told EXCEPT ![c] = told[c]]
      /\ handler \in [Publishers -> HubHandlers]
      /\ files \in [PackageVersions -> [FileNames -> SUBSET Releases]]
      /\ q.version \in PackageVersions /\ q.release \in Releases
  BY DEF PublishInv, PublishTypes, PublishCommands
<1>1. UNCHANGED <<row, registry>> /\ handler[c].at = "stage"
  BY DEF stage_artifacts
<1>2. told[c] = "ok" => row'[q.version] = {q.release}
  BY <1>0, <1>1 DEF CommandIsSound
<1>3. CASE Answer(c, "failed") /\ UNCHANGED files /\ abandoned' = abandoned \cup {q.version}
  <2>1. PICK p \in PublishCommands, t \in {"nothing", "ok", "failed"} :
             /\ publish_command' = [publish_command EXCEPT ![c] = p] /\ told' = [told EXCEPT ![c] = t]
             /\ p.version = publish_command[c].version /\ p.release = publish_command[c].release
             /\ p.at \in {"waiting", "done"}
             /\ t = "failed" \/ t = told[c]
             /\ handler' = [handler EXCEPT ![c] = HubIdle] /\ HubIdle \in HubHandlers /\ HubIdle.at = "idle"
    BY <1>1, <1>3, AnswerIs
  <2>2. \A d \in Publishers : d # c => publish_command'[d] = publish_command[d] /\ handler'[d] = handler[d]
    BY <1>0, <2>1 DEF PublishInv, PublishTypes
  <2>3. StrayFilesHaveACause'
    BY <1>1, <1>3, <2>2, CausesStay
  <2>4. OnlyAdds
    BY <1>1, <1>3 DEF OnlyAdds
  <2> QED BY <1>0, <1>1, <1>2, <1>3, <2>1, <2>3, <2>4, HubStepKeeps
<1>4. CASE files[q.version][n] = Nothing /\ files' = [files EXCEPT ![q.version][n] = {q.release}]
  <2> DEFINE k == handler[c].next
             last == Len(FilesOf[q.release])
             h == IF k = last THEN [at |-> "insert", next |-> 1] ELSE [handler[c] EXCEPT !.next = k + 1]
  <2>1. q.release \in WellFormed /\ k \in 1 .. last /\ Staged(files, q, k - 1) /\ last \in Nat /\ n \in FileNames
    BY <1>0, <1>1, FileNamesOf DEF HandlerIsSound
  <2>2. handler[c] \in HubHandlers
    BY <1>0
  <2>3. {q.release} # Nothing
    BY DEF Nothing
  <2>4. UNCHANGED <<publish_command, told, abandoned>> /\ handler' = [handler EXCEPT ![c] = h]
    BY <1>4, <2>3 DEF stage_artifacts
  <2>5. /\ h \in HubHandlers
        /\ k = last => h.at = "insert"
        /\ k # last => h.at = "stage" /\ h.next = k + 1
    BY <1>1, <2>1, <2>2 DEF HubHandlers
  <2> HIDE DEF h
  <2>6. /\ files' \in [PackageVersions -> [FileNames -> SUBSET Releases]]
        /\ files'[q.version][n] = {q.release}
        /\ \A v \in PackageVersions, m \in FileNames : v # q.version \/ m # n => files'[v][m] = files[v][m]
    BY <1>0, <1>4, <2>1
  <2>7. OnlyAdds
    BY <1>1, <1>4, <2>6 DEF OnlyAdds
  <2>8. Staged(files', q, k)
    <3> SUFFICES ASSUME NEW i \in 1 .. k PROVE files'[q.version][FilesOf[q.release][i]] = {q.release}
      BY <2>4 DEF Staged
    <3>1. CASE i = k
      BY <2>6, <3>1
    <3>2. CASE i # k
      <4>1. i \in 1 .. (k - 1) /\ i \in 1 .. last
        BY <2>1, <3>2
      <4>2. files[q.version][FilesOf[q.release][i]] = {q.release} /\ FilesOf[q.release][i] \in FileNames
        BY <1>0, <2>1, <4>1, FileNamesOf DEF Staged
      <4> QED BY <1>4, <2>3, <2>6, <4>2, <1>0
    <3> QED BY <3>1, <3>2
  <2>9. h.at = "stage" => h.next \in 1 .. last /\ Staged(files', q, h.next - 1)
    <3> SUFFICES ASSUME h.at = "stage" PROVE h.next \in 1 .. last /\ Staged(files', q, h.next - 1)
      OBVIOUS
    <3>1. h.next = k + 1 /\ k # last
      BY <2>5
    <3>2. h.next - 1 = k
      BY <2>1, <3>1
    <3> QED BY <2>1, <2>8, <3>1, <3>2
  <2>10. h.at = "insert" => Staged(files', q, last)
    BY <2>5, <2>8
  <2>11. h.at \in {"stage", "insert"}
    BY <2>5
  <2>12. \A d \in Publishers : d # c => handler'[d] = handler[d]
    BY <1>0, <2>4
  <2>13. handler'[c] = h
    BY <1>0, <2>4
  <2>14. StrayFilesHaveACause'
    <3> SUFFICES ASSUME NEW v \in PackageVersions, row'[v] = Nothing, \E m \in FileNames : files'[v][m] # Nothing,
                        v \notin abandoned'
                 PROVE  \E d \in Publishers : /\ handler'[d].at \in {"stage", "insert"} /\ publish_command'[d].version = v
                                              /\ publish_command'[d].release \in WellFormed
      BY DEF StrayFilesHaveACause
    <3>1. CASE v = q.version
      BY <2>1, <2>4, <2>11, <2>13, <3>1
    <3>2. CASE v # q.version
      <4>1. \E m \in FileNames : files[v][m] # Nothing
        BY <2>6, <3>2
      <4>2. PICK d \in Publishers : /\ handler[d].at \in {"stage", "insert"} /\ publish_command[d].version = v
                                    /\ publish_command[d].release \in WellFormed
        BY <1>1, <2>4, <4>1 DEF PublishInv, StrayFilesHaveACause
      <4>3. d # c
        BY <3>2, <4>2
      <4> QED BY <2>4, <2>12, <4>2, <4>3
    <3> QED BY <3>1, <3>2
  <2>15. q.at \in {"waiting", "done"}
    BY <1>0, <1>1 DEF CommandIsSound
  <2> HIDE DEF k, last, n
  <2>16. h.at = "stage" => h.next \in 1 .. Len(FilesOf[q.release]) /\ Staged(files', q, h.next - 1)
    BY <2>9 DEF last
  <2>17. h.at = "insert" => Staged(files', q, Len(FilesOf[q.release]))
    BY <2>10 DEF last
  <2> QED BY <1>0, <1>1, <1>2, <2>1, <2>4, <2>5, <2>6, <2>7, <2>14, <2>15, <2>16, <2>17, HubStepKeeps
<1> QED BY <1>3, <1>4 DEF stage_artifacts

\* The row is inserted, or is there by now.
LEMMA InsertKeeps ==
    ASSUME PublishConstants, PublishInv, NEW c \in Publishers, InsertRow(c)
    PROVE  PublishInv'
<1> DEFINE q == publish_command[c]
<1>0. /\ q \in PublishCommands /\ CommandIsSound(c) /\ handler \in [Publishers -> HubHandlers]
      /\ files \in [PackageVersions -> [FileNames -> SUBSET Releases]]
      /\ row \in [PackageVersions -> SUBSET Releases]
      /\ q.version \in PackageVersions /\ q.release \in Releases
  BY DEF PublishInv, PublishTypes, PublishCommands
<1>1. UNCHANGED <<files, registry>> /\ handler[c].at = "insert"
  BY DEF InsertRow
<1>2. PICK result \in {"ok", "failed"} :
        /\ Answer(c, result)
        /\ \/ /\ result = "ok" /\ row[q.version] = Nothing /\ row' = [row EXCEPT ![q.version] = {q.release}]
              /\ UNCHANGED abandoned
           \/ /\ result = "failed" /\ row' = row /\ abandoned' = abandoned \cup {q.version}
  BY DEF InsertRow
<1>3. PICK p \in PublishCommands, t \in {"nothing", "ok", "failed"} :
             /\ publish_command' = [publish_command EXCEPT ![c] = p] /\ told' = [told EXCEPT ![c] = t]
             /\ p.version = publish_command[c].version /\ p.release = publish_command[c].release
             /\ p.at \in {"waiting", "done"}
             /\ t = result \/ t = told[c]
             /\ handler' = [handler EXCEPT ![c] = HubIdle] /\ HubIdle \in HubHandlers /\ HubIdle.at = "idle"
  BY <1>1, <1>2, AnswerIs
<1>4. OnlyAdds
  BY <1>0, <1>1, <1>2 DEF OnlyAdds
<1>5. told[c] = "ok" => row[q.version] = {q.release}
  BY <1>0 DEF CommandIsSound
<1>6. t = "ok" => row'[q.version] = {q.release}
  BY <1>0, <1>2, <1>3, <1>5 DEF Nothing
<1>7. \A d \in Publishers : d # c => publish_command'[d] = publish_command[d] /\ handler'[d] = handler[d]
  BY <1>0, <1>3 DEF PublishInv, PublishTypes
<1>8. StrayFilesHaveACause'
  <2>1. q.version \in abandoned' \/ row'[q.version] # Nothing
    BY <1>0, <1>2 DEF Nothing
  <2>2. abandoned \subseteq abandoned' /\ \A v \in PackageVersions : row[v] # Nothing => row'[v] # Nothing
    BY <1>2, <1>4 DEF OnlyAdds
  <2> QED BY <1>1, <1>7, <2>1, <2>2, CausesStay
<1> QED BY <1>0, <1>1, <1>2, <1>3, <1>4, <1>6, <1>8, HubStepKeeps

\* The Hub stops: every version it was staging is abandoned, every command
\* that waits gets no answer.
LEMMA StopKeeps ==
    ASSUME PublishConstants, PublishInv, HubStops
    PROVE  PublishInv'
<1>1. UNCHANGED <<files, row, registry>> /\ handler' = [c \in Publishers |-> HubIdle]
  BY DEF HubStops
<1>2. /\ publish_command' = [c \in Publishers |-> IF publish_command[c].at = "waiting"
                                THEN [publish_command[c] EXCEPT !.at = "done"] ELSE publish_command[c]]
      /\ told' = [c \in Publishers |-> IF publish_command[c].at = "waiting" THEN "failed" ELSE told[c]]
  BY DEF HubStops, PublishAt
<1>3. ASSUME NEW c \in Publishers
      PROVE  /\ publish_command'[c] \in PublishCommands /\ publish_command'[c].at # "waiting"
             /\ publish_command'[c].version = publish_command[c].version
             /\ publish_command'[c].release = publish_command[c].release
             /\ publish_command'[c].at \in {"done", publish_command[c].at}
             /\ told'[c] \in {"nothing", "ok", "failed"} /\ told'[c] \in {"failed", told[c]}
  <2>1. publish_command[c] \in PublishCommands /\ told[c] \in {"nothing", "ok", "failed"}
    BY DEF PublishInv, PublishTypes
  <2>2. CASE publish_command[c].at = "waiting"
    <3>1. publish_command'[c] = [publish_command[c] EXCEPT !.at = "done"] /\ told'[c] = "failed"
      BY <1>2, <2>2
    <3> QED BY <2>1, <3>1 DEF PublishCommands, PublishPlaces
  <2>3. CASE publish_command[c].at # "waiting"
    BY <1>2, <2>1, <2>3
  <2> QED BY <2>2, <2>3
<1>4. HubIdle \in HubHandlers /\ HubIdle.at = "idle"
  BY DEF HubIdle, HubHandlers
<1>5. PublishTypes'
  <2>1. publish_command' \in [Publishers -> PublishCommands] /\ told' \in [Publishers -> {"nothing", "ok", "failed"}]
    BY <1>2, <1>3
  <2>2. handler' \in [Publishers -> HubHandlers]
    BY <1>1, <1>4
  <2> QED BY <1>1, <2>1, <2>2 DEF PublishInv, PublishTypes
<1>6. ASSUME NEW c \in Publishers PROVE CommandIsSound(c)' /\ HandlerIsSound(c)'
  <2>1. CommandIsSound(c)
    BY DEF PublishInv
  <2>2. handler'[c].at = "idle"
    BY <1>1, <1>4
  <2>3. CommandIsSound(c)'
    BY <1>1, <1>3, <2>1, <2>2 DEF CommandIsSound, Confirming
  <2>4. HandlerIsSound(c)'
    BY <2>2 DEF HandlerIsSound
  <2> QED BY <2>3, <2>4
<1>7. PublishedBytes' /\ PackageIsRegistered'
  BY <1>1 DEF PublishInv, PublishedBytes, PackageIsRegistered
<1>8. StrayFilesHaveACause'
  <2>1. abandoned' = abandoned \cup
          {publish_command[c].version : c \in {d \in Publishers : handler[d].at \in {"stage", "insert"}}}
    BY DEF HubStops
  <2> QED BY <1>1, <2>1, CausesStay
<1> QED BY <1>5, <1>6, <1>7, <1>8 DEF PublishInv

LEMMA InitPublishInv == PublishConstants /\ PublishInit => PublishInv
<1> SUFFICES ASSUME PublishConstants, PublishInit PROVE PublishInv
  OBVIOUS
<1>1. (CHOOSE v \in PackageVersions : TRUE) \in PackageVersions /\ (CHOOSE r \in Releases : TRUE) \in Releases
  BY DEF PublishConstants
<1>2. PublishTypes
  BY <1>1 DEF PublishInit, PublishTypes, PublishCommands, PublishPlaces, HubHandlers, HubIdle, Nothing
<1>3. \A c \in Publishers : publish_command[c].at = "done" /\ handler[c].at = "idle" /\ told[c] = "nothing"
  BY DEF PublishInit, HubIdle
<1>4. \A c \in Publishers : CommandIsSound(c) /\ HandlerIsSound(c)
  BY <1>3 DEF CommandIsSound, HandlerIsSound, Confirming
<1>5. PublishedBytes /\ PackageIsRegistered /\ StrayFilesHaveACause
  BY DEF PublishInit, PublishedBytes, PackageIsRegistered, StrayFilesHaveACause, Nothing
<1> QED BY <1>2, <1>4, <1>5 DEF PublishInv

LEMMA PublishStepKeeps ==
    ASSUME PublishConstants, PublishInv, [PublishNext]_publishVars
    PROVE  PublishInv'
<1>1. ASSUME UNCHANGED publishVars PROVE PublishInv'
  <2>1. UNCHANGED publishVars
    BY <1>1
  <2>2. OnlyAdds
    BY <2>1 DEF OnlyAdds, publishVars
  <2>3. PublishTypes' /\ \A c \in Publishers : CommandIsSound(c)' /\ HandlerIsSound(c)'
    BY <2>1, <2>2, OthersAreSound DEF publishVars, PublishInv, PublishTypes
  <2>4. PublishedBytes' /\ PackageIsRegistered' /\ StrayFilesHaveACause'
    BY <2>1 DEF publishVars, PublishInv, PublishedBytes, PackageIsRegistered, StrayFilesHaveACause
  <2> QED BY <2>3, <2>4 DEF PublishInv
<1> QED BY <1>1, PublishStartKeeps, RegistryRequestsKeep, ChecksKeep, StagingKeeps, InsertKeeps, StopKeeps DEF PublishNext

\* For any number of commands, versions and releases, whatever is lost and
\* whenever the Hub stops: a published version has the files its row
\* describes and its registry version, a command that reports success
\* published its own directory, and files without a row have a cause
\* (create_new in stage_artifacts, and the unique row of InsertRow).
THEOREM PublishedStaysAsSent ==
    ASSUME PublishConstants
    PROVE  PublishSpec => []PublishedAsSent
<1>1. PublishInit => PublishInv
  BY InitPublishInv
<1>2. PublishInv /\ [PublishNext]_publishVars => PublishInv'
  BY PublishStepKeeps
<1>3. PublishInv => PublishedAsSent
  BY DEF PublishInv, PublishedAsSent, CommandIsSound, SuccessMeansPublished
<1> QED BY <1>1, <1>2, <1>3, PTL DEF PublishSpec

-----------------------------------------------------------------------------
(* HubSeed: the sequence of the steps.                                     *)

StepKinds == {"env", "version", "yank", "retire", "package", "pin", "stack"}
Standard == DOMAIN Identity

LEMMA SeededNames ==
    /\ Standard = {"qa", "math", "code", "swe", "agent"}
    /\ DOMAIN Retired = {"swebenchpro", "dscodebench", "scitab"}
    /\ SeedEnvs = Standard \cup DOMAIN Retired
    /\ Names = {"verified", "pro", "smith", "openhands", "toolenv", "rubric", "math_smoke", "dscodebench"}
    /\ Standard \cap DOMAIN Retired = {}
BY DEF Standard, Identity, Retired, SeedEnvs, Names, PackagesOf

LEMMA SeedEnvSteps ==
    /\ Len(seed_envs) = 15
    /\ seed_envs[1] = Env("qa") /\ seed_envs[2] = EnvVersion("qa", 20) /\ seed_envs[3] = EnvVersion("qa", 30)
    /\ seed_envs[4] = Yank("qa") /\ seed_envs[5] = Env("math") /\ seed_envs[6] = EnvVersion("math", 20)
    /\ seed_envs[7] = Yank("math") /\ seed_envs[8] = Env("code") /\ seed_envs[9] = EnvVersion("code", 20)
    /\ seed_envs[10] = Yank("code") /\ seed_envs[11] = Env("swe") /\ seed_envs[12] = EnvVersion("swe", 10)
    /\ seed_envs[13] = Env("agent") /\ seed_envs[14] = EnvVersion("agent", 10) /\ seed_envs[15] = [do |-> "retire"]
BY DEF seed_envs

LEMMA SeedPackageSteps ==
    /\ Len(seed_packages) = 9
    /\ \A i \in (1 .. 9) \ {7} : \E p \in Names : seed_packages[i] = Package(p)
    /\ seed_packages[6] = Package("rubric")
    /\ seed_packages[7] = [do |-> "pin", package |-> "rubric", file |-> "main", env |-> "qa", version |-> 31]
<1>1. /\ seed_packages[1] = Package("verified") /\ seed_packages[2] = Package("pro") /\ seed_packages[3] = Package("smith")
      /\ seed_packages[4] = Package("openhands") /\ seed_packages[5] = Package("toolenv") /\ seed_packages[6] = Package("rubric")
      /\ seed_packages[7] = [do |-> "pin", package |-> "rubric", file |-> "main", env |-> "qa", version |-> 31]
      /\ seed_packages[8] = Package("math_smoke") /\ seed_packages[9] = Package("dscodebench") /\ Len(seed_packages) = 9
  BY DEF seed_packages
<1>2. \A i \in (1 .. 9) \ {7} : i \in {1, 2, 3, 4, 5, 6, 8, 9}
  OBVIOUS
<1> QED BY <1>1, <1>2, SeededNames

LEMMA SeedStackSteps ==
    /\ Len(seed_episode_stacks) = 3
    /\ \A i \in 1 .. 3 : \E s \in {"verified", "smith", "qa"} : seed_episode_stacks[i] = Stack(s)
<1>1. /\ seed_episode_stacks[1] = Stack("verified") /\ seed_episode_stacks[2] = Stack("smith") /\ seed_episode_stacks[3] = Stack("qa")
      /\ Len(seed_episode_stacks) = 3
  BY DEF seed_episode_stacks
<1> QED BY <1>1

LEMMA TwoParts ==
    ASSUME NEW R, NEW x \in Seq(R), NEW y \in Seq(R)
    PROVE  /\ x \o y \in Seq(R) /\ Len(x \o y) = Len(x) + Len(y)
           /\ \A i \in 1 .. Len(x) : (x \o y)[i] = x[i]
           /\ \A i \in 1 .. Len(y) : (x \o y)[Len(x) + i] = y[i]
OBVIOUS

LEMMA StepsAre ==
    /\ Len(Steps) = 27
    /\ \A i \in 1 .. 15 : Steps[i] = seed_envs[i]
    /\ \A i \in 1 .. 9 : Steps[15 + i] = seed_packages[i]
    /\ \A i \in 1 .. 3 : Steps[24 + i] = seed_episode_stacks[i]
<1> DEFINE R == Range(seed_envs) \cup Range(seed_packages) \cup Range(seed_episode_stacks)
<1>1. seed_envs \in Seq(R)
  <2>1. DOMAIN seed_envs = 1 .. 15 /\ \A i \in 1 .. 15 : seed_envs[i] \in R
    BY DEF seed_envs, Range
  <2>2. seed_envs = [i \in 1 .. 15 |-> seed_envs[i]]
    BY DEF seed_envs
  <2> HIDE DEF R
  <2> QED BY <2>1, <2>2
<1>2. seed_packages \in Seq(R)
  <2>1. DOMAIN seed_packages = 1 .. 9 /\ \A i \in 1 .. 9 : seed_packages[i] \in R
    BY DEF seed_packages, Range
  <2>2. seed_packages = [i \in 1 .. 9 |-> seed_packages[i]]
    BY DEF seed_packages
  <2> HIDE DEF R
  <2> QED BY <2>1, <2>2
<1>3. seed_episode_stacks \in Seq(R)
  <2>1. DOMAIN seed_episode_stacks = 1 .. 3 /\ \A i \in 1 .. 3 : seed_episode_stacks[i] \in R
    BY DEF seed_episode_stacks, Range
  <2>2. seed_episode_stacks = [i \in 1 .. 3 |-> seed_episode_stacks[i]]
    BY DEF seed_episode_stacks
  <2> HIDE DEF R
  <2> QED BY <2>1, <2>2
<1> HIDE DEF R
<1>4. Len(seed_envs) = 15 /\ Len(seed_packages) = 9 /\ Len(seed_episode_stacks) = 3
  BY SeedEnvSteps, SeedPackageSteps, SeedStackSteps
<1>5. /\ Len(Steps) = 15 + 9 + 3
      /\ \A i \in 1 .. 15 : Steps[i] = seed_envs[i]
      /\ \A i \in 1 .. 9 : Steps[15 + i] = seed_packages[i]
      /\ \A i \in 1 .. 3 : Steps[24 + i] = seed_episode_stacks[i]
  <2> DEFINE w == seed_envs \o seed_packages
  <2>1. /\ w \in Seq(R) /\ Len(w) = 24
        /\ \A i \in 1 .. 15 : w[i] = seed_envs[i]
        /\ \A i \in 1 .. 9 : w[15 + i] = seed_packages[i]
    <3>1. /\ w \in Seq(R) /\ Len(w) = Len(seed_envs) + Len(seed_packages)
          /\ \A i \in 1 .. Len(seed_envs) : w[i] = seed_envs[i]
          /\ \A i \in 1 .. Len(seed_packages) : w[Len(seed_envs) + i] = seed_packages[i]
      <4> HIDE DEF w
      <4>1. w = seed_envs \o seed_packages
        BY DEF w
      <4>2. /\ seed_envs \o seed_packages \in Seq(R)
            /\ Len(seed_envs \o seed_packages) = Len(seed_envs) + Len(seed_packages)
            /\ \A i \in 1 .. Len(seed_envs) : (seed_envs \o seed_packages)[i] = seed_envs[i]
            /\ \A i \in 1 .. Len(seed_packages) : (seed_envs \o seed_packages)[Len(seed_envs) + i] = seed_packages[i]
        BY <1>1, <1>2, TwoParts
      <4> QED BY <4>1, <4>2
    <3> HIDE DEF w
    <3> QED BY <1>4, <3>1
  <2> HIDE DEF w
  <2> DEFINE v == w \o seed_episode_stacks
  <2>2. /\ Len(v) = Len(w) + Len(seed_episode_stacks)
        /\ \A i \in 1 .. Len(w) : v[i] = w[i]
        /\ \A i \in 1 .. Len(seed_episode_stacks) : v[Len(w) + i] = seed_episode_stacks[i]
    <3> HIDE DEF v
    <3>1. v = w \o seed_episode_stacks
      BY DEF v
    <3>2. /\ Len(w \o seed_episode_stacks) = Len(w) + Len(seed_episode_stacks)
          /\ \A i \in 1 .. Len(w) : (w \o seed_episode_stacks)[i] = w[i]
          /\ \A i \in 1 .. Len(seed_episode_stacks) : (w \o seed_episode_stacks)[Len(w) + i] = seed_episode_stacks[i]
      <4>1. w \in Seq(R)
        BY <2>1
      <4> QED BY <1>3, <4>1, TwoParts
    <3> QED BY <3>1, <3>2
  <2> HIDE DEF v
  <2>3. Len(v) = 27 /\ (\A i \in 1 .. 24 : v[i] = w[i]) /\ \A i \in 1 .. 3 : v[24 + i] = seed_episode_stacks[i]
    BY <1>4, <2>1, <2>2
  <2>4. /\ \A i \in 1 .. 15 : v[i] = seed_envs[i]
        /\ \A i \in 1 .. 9 : v[15 + i] = seed_packages[i]
    BY <2>1, <2>3
  <2>5. Steps = v
    BY DEF Steps, v, w
  <2> QED BY <2>3, <2>4, <2>5
<1> QED BY <1>5

\* What the proofs use of the sequence: the environments come first, each
\* before its versions and those before the yank, then all else.
LEMMA StepFacts ==
    ASSUME NEW i \in 1 .. 27
    PROVE  /\ Steps[i].do \in StepKinds
           /\ Steps[i].do = "env" => Steps[i].env \in Standard /\ i <= 13
           /\ Steps[i].do = "version" => Steps[i].env \in Standard /\ Steps[i].version \in {10, 20, 30}
           /\ Steps[i].do = "yank" =>
                 /\ Steps[i].env \in Standard /\ i <= 10 /\ Steps[i].legacy = 100 /\ Steps[i].current = 20
                 /\ \A j \in 1 .. 27 : Steps[j].do = "version" /\ Steps[j].env = Steps[i].env => j < i
           /\ Steps[i].do = "retire" => i = 15
           /\ Steps[i].do = "package" => i >= 16 /\ Steps[i].package \in Names
           /\ Steps[i].do = "pin" =>
                 Steps[i] = [do |-> "pin", package |-> "rubric", file |-> "main", env |-> "qa", version |-> 31] /\ i >= 16
<1>1. \A j \in 1 .. 27 : j \in 1 .. 15 \/ j \in 16 .. 24 \/ j \in 25 .. 27
  OBVIOUS
<1>2. ASSUME NEW j \in 16 .. 24
      PROVE  \/ \E p \in Names : Steps[j] = Package(p)
             \/ Steps[j] = [do |-> "pin", package |-> "rubric", file |-> "main", env |-> "qa", version |-> 31]
  <2> DEFINE m == j - 15
  <2>0. m \in 1 .. 9 /\ 15 + m = j
    OBVIOUS
  <2> HIDE DEF m
  <2>1. m \in 1 .. 9 /\ Steps[j] = seed_packages[m]
    BY <2>0, StepsAre
  <2> QED BY <2>1, SeedPackageSteps
<1>3. ASSUME NEW j \in 25 .. 27 PROVE \E s \in {"verified", "smith", "qa"} : Steps[j] = Stack(s)
  <2> DEFINE m == j - 24
  <2>0. m \in 1 .. 3 /\ 24 + m = j
    OBVIOUS
  <2> HIDE DEF m
  <2>1. m \in 1 .. 3 /\ Steps[j] = seed_episode_stacks[m]
    BY <2>0, StepsAre
  <2> QED BY <2>1, SeedStackSteps
<1>0. \A j \in 16 .. 27 : j \in 16 .. 24 \/ j \in 25 .. 27
  OBVIOUS
<1>4. \A j \in 16 .. 27 : Steps[j].do \in {"package", "pin", "stack"}
  <2>1. ASSUME NEW j \in 16 .. 24 PROVE Steps[j].do \in {"package", "pin"}
    <3>1. CASE \E p \in Names : Steps[j] = Package(p)
      BY <3>1 DEF Package
    <3>2. CASE Steps[j] = [do |-> "pin", package |-> "rubric", file |-> "main", env |-> "qa", version |-> 31]
      BY <3>2
    <3> QED BY <1>2, <3>1, <3>2
  <2>2. \A j \in 25 .. 27 : Steps[j].do = "stack"
    BY <1>3 DEF Stack
  <2> QED BY <1>0, <2>1, <2>2
<1>5. \A j \in 1 .. 27 : Steps[j].do = "version" => j \in {2, 3, 6, 9, 12, 14}
  <2> SUFFICES ASSUME NEW j \in 1 .. 15, Steps[j].do = "version" PROVE j \in {2, 3, 6, 9, 12, 14}
    BY <1>1, <1>4
  <2> QED BY StepsAre, SeedEnvSteps DEF Env, EnvVersion, Yank
<1>6. CASE i \in 1 .. 15
  <2>1. i \in {1, 2, 3, 4, 5, 6, 7, 8, 9, 10, 11, 12, 13, 14, 15}
    BY <1>6
  <2>2. Steps[i] = seed_envs[i]
    BY <1>6, StepsAre
  <2>3. \A j \in {2, 3, 6, 9, 12, 14} : Steps[j] = seed_envs[j]
    BY StepsAre
  <2>4. /\ Steps[2].env = "qa" /\ Steps[3].env = "qa" /\ Steps[6].env = "math" /\ Steps[9].env = "code"
        /\ Steps[12].env = "swe" /\ Steps[14].env = "agent"
    BY <2>3, SeedEnvSteps DEF EnvVersion
  <2>5. CASE i \in {4, 7, 10}
    BY <1>5, <2>2, <2>4, <2>5, SeedEnvSteps, SeededNames DEF Yank, StepKinds
  <2>6. CASE i \in {1, 5, 8, 11, 13}
    BY <2>2, <2>6, SeedEnvSteps, SeededNames DEF Env, StepKinds
  <2>7. CASE i \in {2, 3, 6, 9, 12, 14}
    BY <2>2, <2>7, SeedEnvSteps, SeededNames DEF EnvVersion, StepKinds
  <2>8. CASE i = 15
    BY <2>2, <2>8, SeedEnvSteps DEF StepKinds
  <2> QED BY <2>1, <2>5, <2>6, <2>7, <2>8
<1>7. CASE i \in 16 .. 24
  <2>1. CASE \E p \in Names : Steps[i] = Package(p)
    BY <1>7, <2>1 DEF Package, StepKinds
  <2>2. CASE Steps[i] = [do |-> "pin", package |-> "rubric", file |-> "main", env |-> "qa", version |-> 31]
    BY <1>7, <2>2 DEF StepKinds
  <2> QED BY <1>2, <1>7, <2>1, <2>2
<1>8. CASE i \in 25 .. 27
  BY <1>3, <1>8 DEF Stack, StepKinds
<1> QED BY <1>1, <1>6, <1>7, <1>8

\* Every standard environment has its step, and one step retires.
LEMMA EnvStepsAre ==
    /\ \A e \in Standard : \E i \in 1 .. 15 : Steps[i].do = "env" /\ Steps[i].env = e
    /\ Steps[15].do = "retire"
<1>1. \A i \in {1, 5, 8, 11, 13, 15} : Steps[i] = seed_envs[i]
  BY StepsAre
<1>2. /\ \A i \in {1, 5, 8, 11, 13} : Steps[i].do = "env"
      /\ Steps[1].env = "qa" /\ Steps[5].env = "math" /\ Steps[8].env = "code" /\ Steps[11].env = "swe"
      /\ Steps[13].env = "agent" /\ Steps[15].do = "retire"
  BY <1>1, SeedEnvSteps DEF Env
<1> QED BY <1>2, SeededNames

-----------------------------------------------------------------------------
(* HubSeed: rows of versions, and the invariant.                           *)

IsRow(r) ==
    /\ DOMAIN r = {"version", "yanked", "pin", "seeded"}
    /\ r.version \in Nat /\ r.yanked \in BOOLEAN /\ r.seeded \in BOOLEAN

RowsAre(vs) == IsFiniteSet(vs) /\ \A r \in vs : IsRow(r)

HubIs ==
    /\ DOMAIN hub = {"at", "step", "req", "next"}
    /\ hub.at \in {"down", "seeding", "staging", "serving"} /\ hub.step \in Nat /\ hub.next \in Nat
    /\ hub.at \in {"seeding", "staging"} => hub.step \in 1 .. 28 /\ touched = {}

IsEnv(o) == o = [state |-> o.state, id |-> o.id] /\ IsIdentity(o.id)

SeedTypes ==
    /\ HubIs
    /\ DOMAIN envs = SeedEnvs /\ \A e \in SeedEnvs : IsEnv(envs[e])
    /\ DOMAIN versions = SeedEnvs /\ \A e \in SeedEnvs : RowsAre(versions[e])
    /\ DOMAIN packages = Names /\ DOMAIN disk = Names /\ DOMAIN sources = Names
    /\ \A p \in Names : DOMAIN sources[p].files \subseteq PackagesOf[p].sources

\* The first n files of the package are on disk as the request has them.
OnDisk(p, req, n, d) ==
    LET order == PackagesOf[p].order IN
    \A k \in 1 .. n : order[k] \in DOMAIN req => order[k] \in DOMAIN d[p] /\ d[p][order[k]] = req[order[k]]

StagingIsSound ==
    hub.at = "staging" =>
        LET p == Step.package IN
        /\ hub.step \in 1 .. 27 /\ Step.do = "package" /\ packages[p] = {}
        /\ DOMAIN hub.req \subseteq {PackagesOf[p].order[k] : k \in 1 .. Len(PackagesOf[p].order)}
        /\ hub.next \in 1 .. Len(PackagesOf[p].order) + 1
        /\ OnDisk(p, hub.req, hub.next - 1, disk)

OneOfEach == \A p \in Names : \A x, y \in packages[p] : x = y

PinIsServed(pin) ==
    /\ \E x \in packages["rubric"] : "main" \in DOMAIN x /\ x["main"] = pin
    /\ "main" \in DOMAIN disk["rubric"] /\ disk["rubric"]["main"] = pin
PinsAreServed == \A r \in versions["qa"] : r.version = 31 /\ r.seeded => PinIsServed(r.pin)

FilesInv == StagingIsSound /\ OneOfEach /\ SeededBytes /\ PinsAreServed

\* What the steps on the environments leave behind, until a user changes it.
IsDone(i) == hub.at = "serving" \/ (hub.at \in {"seeding", "staging"} /\ i < hub.step)
IsRestored(e) == IsLive(e) /\ envs[e].id = Patched(envs[e].id, Identity[e])
LegacyIsGone(e) == 20 \in Offered(e) => 100 \notin Offered(e)
PointsOn(e) == IsLive(e) => envs[e].id.by = Retired[e]
Left(i) ==
    /\ Steps[i].do = "env" /\ Steps[i].env \notin touched => IsRestored(Steps[i].env)
    /\ Steps[i].do = "yank" /\ Steps[i].env \notin touched => LegacyIsGone(Steps[i].env)
    /\ Steps[i].do = "retire" => \A e \in DOMAIN Retired \ touched : PointsOn(e)
EnvsInv == \A i \in 1 .. 15 : IsDone(i) => Left(i)

SeedInv == SeedTypes /\ FilesInv /\ EnvsInv

LEMMA RowIs ==
    ASSUME NEW v \in Nat, NEW pin
    PROVE  /\ IsRow(Row(v, pin)) /\ Row(v, pin).version = v /\ Row(v, pin).seeded = TRUE /\ Row(v, pin).pin = pin
           /\ ~Row(v, pin).yanked
BY DEF Row, IsRow

LEMMA UserRowIs ==
    ASSUME NEW v \in Nat, NEW pin
    PROVE  LET r == [Row(v, pin) EXCEPT !.seeded = FALSE] IN
           IsRow(r) /\ r.version = v /\ r.seeded = FALSE /\ ~r.yanked
BY DEF Row, IsRow

LEMMA YankedRows ==
    ASSUME NEW vs, RowsAre(vs), NEW w \in Nat
    PROVE  /\ RowsAre(Yanking(vs, w))
           /\ \A q \in Yanking(vs, w) : \E r \in vs :
                 q.version = r.version /\ q.seeded = r.seeded /\ q.pin = r.pin /\ (q.yanked <=> r.yanked \/ r.version = w)
           /\ \A r \in vs : \E q \in Yanking(vs, w) :
                 q.version = r.version /\ (q.yanked <=> r.yanked \/ r.version = w)
<1> DEFINE Of(r) == [r EXCEPT !.yanked = @ \/ r.version = w]
<1>1. ASSUME NEW r \in vs
      PROVE  /\ IsRow(Of(r)) /\ Of(r).version = r.version /\ Of(r).seeded = r.seeded /\ Of(r).pin = r.pin
             /\ Of(r).yanked <=> r.yanked \/ r.version = w
  BY DEF RowsAre, IsRow
<1>2. Yanking(vs, w) = {Of(r) : r \in vs}
  BY DEF Yanking
<1> HIDE DEF Of
<1>3. IsFiniteSet({Of(r) : r \in vs})
  <2> DEFINE T == {Of(r) : r \in vs}
             f == [r \in vs |-> Of(r)]
  <2>1. f \in [vs -> T] /\ \A q \in T : \E r \in vs : f[r] = q
    OBVIOUS
  <2> HIDE DEF f, T
  <2>2. f \in Surjection(vs, T)
    BY <2>1 DEF Surjection
  <2>3. IsFiniteSet(vs)
    BY DEF RowsAre
  <2>4. IsFiniteSet(T)
    BY <2>2, <2>3, FS_Surjection, Zenon
  <2> QED BY <2>4 DEF T
<1> QED BY <1>1, <1>2, <1>3 DEF RowsAre

\* A row is added, or those of one version are yanked: what is offered, and the
\* pins of the scorer.
LEMMA RowIsAdded ==
    ASSUME SeedTypes, NEW e \in SeedEnvs, NEW r, IsRow(r), versions' = [versions EXCEPT ![e] = @ \cup {r}], ~r.yanked
    PROVE  /\ DOMAIN versions' = SeedEnvs /\ \A x \in SeedEnvs : RowsAre(versions'[x])
           /\ \A x \in SeedEnvs : Offered(x)' = IF x = e THEN Offered(x) \cup {r.version} ELSE Offered(x)
           /\ \A q \in versions'["qa"] : q \in versions["qa"] \/ (e = "qa" /\ q = r)
<1>1. DOMAIN versions' = SeedEnvs /\ versions'[e] = versions[e] \cup {r} /\ \A x \in SeedEnvs \ {e} : versions'[x] = versions[x]
  BY DEF SeedTypes
<1>2. \A x \in SeedEnvs : RowsAre(versions'[x])
  <2>1. RowsAre(versions[e] \cup {r})
    <3>1. IsFiniteSet(versions[e]) /\ \A q \in versions[e] : IsRow(q)
      BY DEF SeedTypes, RowsAre
    <3>2. IsFiniteSet(versions[e] \cup {r})
      BY <3>1, FS_AddElement
    <3> QED BY <3>1, <3>2 DEF RowsAre
  <2> QED BY <1>1, <2>1 DEF SeedTypes
<1>3. \A x \in SeedEnvs : Offered(x)' = IF x = e THEN Offered(x) \cup {r.version} ELSE Offered(x)
  BY <1>1 DEF Offered
<1>4. "qa" \in SeedEnvs
  BY SeededNames
<1> QED BY <1>1, <1>2, <1>3, <1>4

LEMMA VersionIsYanked ==
    ASSUME SeedTypes, NEW e \in SeedEnvs, NEW w \in Nat, versions' = [versions EXCEPT ![e] = Yanking(@, w)]
    PROVE  /\ DOMAIN versions' = SeedEnvs /\ \A x \in SeedEnvs : RowsAre(versions'[x])
           /\ \A x \in SeedEnvs : Offered(x)' = IF x = e THEN Offered(x) \ {w} ELSE Offered(x)
           /\ \A q \in versions'["qa"] : \E r \in versions["qa"] :
                 q.version = r.version /\ q.seeded = r.seeded /\ q.pin = r.pin
<1>1. /\ DOMAIN versions' = SeedEnvs /\ versions'[e] = Yanking(versions[e], w)
      /\ \A x \in SeedEnvs \ {e} : versions'[x] = versions[x]
  BY DEF SeedTypes
<1>2. RowsAre(versions[e])
  BY DEF SeedTypes
<1>3. /\ RowsAre(Yanking(versions[e], w))
      /\ \A q \in Yanking(versions[e], w) : \E r \in versions[e] :
            q.version = r.version /\ q.seeded = r.seeded /\ q.pin = r.pin /\ (q.yanked <=> r.yanked \/ r.version = w)
      /\ \A r \in versions[e] : \E q \in Yanking(versions[e], w) :
            q.version = r.version /\ (q.yanked <=> r.yanked \/ r.version = w)
  BY <1>2, YankedRows
<1>4. Offered(e)' = Offered(e) \ {w}
  <2>1. Offered(e)' = {q.version : q \in {x \in Yanking(versions[e], w) : ~x.yanked}}
    BY <1>1 DEF Offered
  <2>2. ASSUME NEW q \in Yanking(versions[e], w), ~q.yanked PROVE q.version \in Offered(e) \ {w}
    BY <1>3, <2>2 DEF Offered
  <2>3. ASSUME NEW r \in versions[e], ~r.yanked, r.version # w
        PROVE  \E q \in Yanking(versions[e], w) : ~q.yanked /\ q.version = r.version
    BY <1>3, <2>3
  <2>4. \A v \in Offered(e) \ {w} : \E r \in versions[e] : ~r.yanked /\ r.version = v /\ v # w
    BY DEF Offered
  <2> QED BY <2>1, <2>2, <2>3, <2>4
<1>5. \A x \in SeedEnvs \ {e} : Offered(x)' = Offered(x)
  BY <1>1 DEF Offered
<1>6. "qa" \in SeedEnvs
  BY SeededNames
<1>7. \A x \in SeedEnvs : RowsAre(versions'[x])
  BY <1>1, <1>3 DEF SeedTypes
<1>8. \A q \in versions'["qa"] : \E r \in versions["qa"] : q.version = r.version /\ q.seeded = r.seeded /\ q.pin = r.pin
  <2>1. CASE e = "qa"
    BY <1>1, <1>3, <2>1
  <2>2. CASE e # "qa"
    BY <1>1, <1>6, <2>2
  <2> QED BY <2>1, <2>2
<1> QED BY <1>1, <1>4, <1>5, <1>7, <1>8

-----------------------------------------------------------------------------
(* HubSeed: one lemma per action.                                          *)

\* A step of the sequence is taken.
LEMMA AdvanceIs ==
    ASSUME HubIs, NEW kind, Doing(kind), Advance, UNCHANGED touched
    PROVE  /\ hub.step \in 1 .. 27 /\ Step.do = kind /\ Step = Steps[hub.step]
           /\ HubIs' /\ hub'.at = "seeding" /\ touched = {} /\ touched' = {}
           /\ \A i \in 1 .. 15 : IsDone(i)' => IsDone(i) \/ i = hub.step
<1>1. Len(Steps) = 27
  BY StepsAre
<1>2. /\ hub.step \in 1 .. 27 /\ Step.do = kind /\ Step = Steps[hub.step] /\ hub.at = "seeding" /\ touched = {}
  BY <1>1 DEF HubIs, Doing, Step
<1>3. hub' = [hub EXCEPT !.step = hub.step + 1] /\ hub'.step = hub.step + 1 /\ hub'.at = "seeding" /\ DOMAIN hub' = DOMAIN hub
      /\ hub'.next = hub.next
  BY <1>2 DEF Advance, HubIs
<1>4. HubIs'
  BY <1>2, <1>3 DEF HubIs
<1>5. \A i \in 1 .. 15 : IsDone(i)' => IsDone(i) \/ i = hub.step
  BY <1>2, <1>3 DEF IsDone
<1> QED BY <1>2, <1>3, <1>4, <1>5

\* What is not about the environments leaves what their steps left behind.
LEMMA EnvsFrame ==
    ASSUME SeedInv, UNCHANGED <<envs, versions>>, touched \subseteq touched', \A i \in 1 .. 15 : IsDone(i)' => IsDone(i)
    PROVE  EnvsInv'
<1> SUFFICES ASSUME NEW i \in 1 .. 15, IsDone(i)' PROVE Left(i)'
  BY DEF EnvsInv
<1>1. Left(i)
  BY DEF SeedInv, EnvsInv
<1> QED BY <1>1 DEF Left, IsRestored, LegacyIsGone, PointsOn, IsLive, Offered

\* The files of the packages stay as they are.
LEMMA FilesFrame ==
    ASSUME SeedInv, UNCHANGED <<packages, disk>>, hub'.at # "staging",
           \A q \in versions'["qa"] : \/ \E r \in versions["qa"] : q.version = r.version /\ q.seeded = r.seeded /\ q.pin = r.pin
                                      \/ q.version = 31 /\ q.seeded => PinIsServed(q.pin)
    PROVE  FilesInv'
<1>1. StagingIsSound'
  BY DEF StagingIsSound
<1>2. OneOfEach' /\ SeededBytes'
  BY DEF SeedInv, FilesInv, OneOfEach, SeededBytes
<1>3. PinsAreServed'
  BY DEF SeedInv, FilesInv, PinsAreServed, PinIsServed
<1> QED BY <1>1, <1>2, <1>3 DEF FilesInv

\* Sameness of what is not about versions: the second case of FilesFrame.
LEMMA SameVersions ==
    UNCHANGED versions => \A q \in versions'["qa"] :
        \/ \E r \in versions["qa"] : q.version = r.version /\ q.seeded = r.seeded /\ q.pin = r.pin
        \/ q.version = 31 /\ q.seeded => PinIsServed(q.pin)
OBVIOUS

\* The identity a step gives an environment is the one the next start gives it.
LEMMA PatchedTwice ==
    ASSUME NEW old, NEW new, IsIdentity(old), IsIdentity(new)
    PROVE  /\ IsIdentity(Patched(old, new)) /\ Patched(Patched(old, new), new) = Patched(old, new)
           /\ Patched(new, new) = new
BY DEF Patched, IsIdentity, Id

LEMMA IdentityIs == \A e \in Standard : IsIdentity(Identity[e])
<1> SUFFICES ASSUME NEW e \in Standard PROVE IsIdentity(Identity[e])
  OBVIOUS
<1>1. e \in {"qa", "math", "code", "swe", "agent"}
  BY SeededNames
<1>2. /\ Identity["qa"] = Id("canonical", "none", {"math"}) /\ Identity["math"] = Id("deprecated", "qa", {})
      /\ Identity["code"] = Id("canonical", "none", {}) /\ Identity["swe"] = Id("canonical", "none", {"swebench"})
      /\ Identity["agent"] = Id("active", "none", {})
  BY DEF Identity
<1>3. \A life, by, aliases : IsIdentity(Id(life, by, aliases))
  BY DEF Id, IsIdentity
<1> QED BY <1>1, <1>2, <1>3

LEMMA EnvIsEnsured ==
    ASSUME SeedInv, ensure_env
    PROVE  SeedInv'
<1>0. /\ HubIs /\ Doing("env") /\ Advance /\ UNCHANGED <<versions, packages, stacks, disk, sources, touched, changes, starts>>
  BY DEF ensure_env, SeedInv, SeedTypes
<1>2. /\ hub.step \in 1 .. 27 /\ Step.do = "env" /\ Step = Steps[hub.step] /\ HubIs' /\ hub'.at = "seeding"
      /\ touched = {} /\ touched' = {} /\ \A i \in 1 .. 15 : IsDone(i)' => IsDone(i) \/ i = hub.step
  BY <1>0, AdvanceIs
<1>a. PICK e \in Standard : e = Step.env
  BY <1>2, StepFacts
<1>3. e \in SeedEnvs /\ IsIdentity(Identity[e])
  BY IdentityIs, SeededNames
<1>b. PICK n : n = IF IsLive(e) THEN [envs[e] EXCEPT !.id = Patched(envs[e].id, Identity[e])]
                   ELSE [state |-> "live", id |-> Identity[e]]
  OBVIOUS
<1>1. envs' = [envs EXCEPT ![e] = n]
  BY <1>a, <1>b DEF ensure_env
<1> DEFINE o == envs[e]
<1>4. IsEnv(o)
  BY <1>3 DEF SeedInv, SeedTypes
<1>5. IsEnv(n) /\ n.state = "live" /\ n.id = Patched(n.id, Identity[e])
  <2>0. n = IF o.state = "live" THEN [o EXCEPT !.id = Patched(o.id, Identity[e])] ELSE [state |-> "live", id |-> Identity[e]]
    BY <1>b DEF IsLive
  <2> HIDE DEF o
  <2>1. CASE o.state = "live"
    <3>1. IsIdentity(o.id) /\ n = [o EXCEPT !.id = Patched(o.id, Identity[e])]
      BY <1>4, <2>0, <2>1 DEF IsEnv
    <3>2. IsIdentity(Patched(o.id, Identity[e])) /\ Patched(Patched(o.id, Identity[e]), Identity[e]) = Patched(o.id, Identity[e])
      BY <1>3, <3>1, PatchedTwice
    <3>3. n.id = Patched(o.id, Identity[e]) /\ n.state = "live" /\ IsEnv(n)
      BY <1>4, <2>1, <3>1, <3>2 DEF IsEnv
    <3> QED BY <3>2, <3>3
  <2>2. CASE o.state # "live"
    <3>1. n = [state |-> "live", id |-> Identity[e]]
      BY <2>0, <2>2
    <3>2. Patched(Identity[e], Identity[e]) = Identity[e]
      BY <1>3, PatchedTwice
    <3> QED BY <1>3, <3>1, <3>2 DEF IsEnv
  <2> QED BY <2>1, <2>2
<1> HIDE DEF o
<1>6. /\ DOMAIN envs' = SeedEnvs /\ (\A x \in SeedEnvs : IsEnv(envs'[x]))
      /\ envs'[e] = n /\ \A x \in SeedEnvs \ {e} : envs'[x] = envs[x]
  BY <1>1, <1>3, <1>5 DEF SeedInv, SeedTypes
<1>7. SeedTypes'
  BY <1>0, <1>2, <1>6 DEF SeedInv, SeedTypes
<1>8. FilesInv'
  BY <1>0, <1>2, FilesFrame, SameVersions
<1>9. ASSUME NEW i \in 1 .. 15, IsDone(i)' PROVE Left(i)'
  <2>1. IsRestored(e)'
    BY <1>5, <1>6 DEF IsRestored, IsLive
  <2>2. \A x \in DOMAIN Retired : x # e /\ x \in SeedEnvs
    BY SeededNames
  <2>3. \A x \in DOMAIN Retired : PointsOn(x)' <=> PointsOn(x)
    BY <1>6, <2>2 DEF PointsOn, IsLive
  <2>4. \A x \in SeedEnvs : LegacyIsGone(x)' <=> LegacyIsGone(x)
    BY <1>0 DEF LegacyIsGone, Offered
  <2>5. CASE i = hub.step
    <3>1. Steps[i].do = "env" /\ Steps[i].env = e
      BY <1>2, <1>a, <2>5
    <3>2. Steps[i].do # "yank" /\ Steps[i].do # "retire"
      BY <3>1
    <3>3. IsRestored(Steps[i].env)'
      BY <2>1, <3>1
    <3> QED BY <3>1, <3>2, <3>3 DEF Left
  <2>6. CASE IsDone(i)
    <3>1. Left(i)
      BY <2>6 DEF SeedInv, EnvsInv
    <3>2. /\ Steps[i].do = "env" => Steps[i].env \in SeedEnvs
          /\ Steps[i].do = "yank" => Steps[i].env \in SeedEnvs
      BY StepFacts, SeededNames
    <3>3. ASSUME Steps[i].do = "env" PROVE IsRestored(Steps[i].env)'
      <4>1. IsRestored(Steps[i].env)
        BY <1>2, <3>1, <3>3 DEF Left
      <4>2. Steps[i].env # e => envs'[Steps[i].env] = envs[Steps[i].env]
        BY <1>6, <3>2, <3>3
      <4> QED BY <2>1, <4>1, <4>2 DEF IsRestored, IsLive
    <3>4. ASSUME Steps[i].do = "yank" PROVE LegacyIsGone(Steps[i].env)'
      <4>1. LegacyIsGone(Steps[i].env)
        BY <1>2, <3>1, <3>4 DEF Left
      <4> QED BY <2>4, <3>2, <3>4, <4>1
    <3>5. Steps[i].do = "retire" => \A x \in DOMAIN Retired : PointsOn(x)'
      BY <1>2, <2>3, <3>1 DEF Left
    <3> QED BY <3>3, <3>4, <3>5 DEF Left
  <2> QED BY <1>2, <1>9, <2>5, <2>6
<1> QED BY <1>7, <1>8, <1>9 DEF SeedInv, EnvsInv

LEMMA WithIs ==
    ASSUME SeedTypes, NEW e \in SeedEnvs, NEW v \in Nat, NEW pin, versions' = With(e, v, pin)
    PROVE  /\ DOMAIN versions' = SeedEnvs /\ \A x \in SeedEnvs : RowsAre(versions'[x])
           /\ \A x \in SeedEnvs : Offered(x)' = Offered(x) \/ (x = e /\ Offered(x)' = Offered(x) \cup {v})
           /\ \A q \in versions'["qa"] : q \in versions["qa"] \/ (q.version = v /\ q.pin = pin)
<1>1. CASE versions' = versions
  BY <1>1, SeededNames DEF SeedTypes, Offered
<1>2. CASE versions' = [versions EXCEPT ![e] = @ \cup {Row(v, pin)}]
  <2>1. /\ DOMAIN versions' = SeedEnvs /\ \A x \in SeedEnvs : RowsAre(versions'[x])
        /\ \A x \in SeedEnvs : Offered(x)' = IF x = e THEN Offered(x) \cup {Row(v, pin).version} ELSE Offered(x)
        /\ \A q \in versions'["qa"] : q \in versions["qa"] \/ (e = "qa" /\ q = Row(v, pin))
    <3> DEFINE r == Row(v, pin)
    <3>1. IsRow(r) /\ ~r.yanked
      BY RowIs
    <3>2. versions' = [versions EXCEPT ![e] = @ \cup {r}]
      BY <1>2
    <3> HIDE DEF r
    <3>3. /\ DOMAIN versions' = SeedEnvs /\ \A x \in SeedEnvs : RowsAre(versions'[x])
          /\ \A x \in SeedEnvs : Offered(x)' = IF x = e THEN Offered(x) \cup {r.version} ELSE Offered(x)
          /\ \A q \in versions'["qa"] : q \in versions["qa"] \/ (e = "qa" /\ q = r)
      BY <3>1, <3>2, RowIsAdded
    <3> QED BY <3>3 DEF r
  <2>2. Row(v, pin).version = v /\ Row(v, pin).pin = pin
    BY RowIs
  <2> QED BY <2>1, <2>2
<1> QED BY <1>1, <1>2 DEF With

\* A step that is not about an environment of its own, or only adds to what is
\* offered: everything about the environments but what a yank left behind.
LEMMA StaysLeft ==
    ASSUME SeedInv, NEW i \in 1 .. 15, IsDone(i), UNCHANGED <<envs, touched>>,
           Steps[i].do = "yank" /\ Steps[i].env \notin touched => LegacyIsGone(Steps[i].env)'
    PROVE  Left(i)'
<1>1. Left(i)
  BY DEF SeedInv, EnvsInv
<1> QED BY <1>1 DEF Left, IsRestored, PointsOn, IsLive

LEMMA VersionIsEnsured ==
    ASSUME SeedInv, ensure_env_version
    PROVE  SeedInv'
<1>1. /\ SeedTypes /\ HubIs /\ Doing("version") /\ Advance
      /\ UNCHANGED <<envs, packages, stacks, disk, sources, touched, changes, starts>>
  BY DEF ensure_env_version, SeedInv, SeedTypes
<1>2. /\ hub.step \in 1 .. 27 /\ Step.do = "version" /\ Step = Steps[hub.step] /\ HubIs' /\ hub'.at = "seeding"
      /\ touched = {} /\ touched' = {} /\ \A i \in 1 .. 15 : IsDone(i)' => IsDone(i) \/ i = hub.step
  BY <1>1, AdvanceIs
<1>3. PICK e \in Standard : e = Step.env
  BY <1>2, StepFacts
<1>4. PICK v \in {10, 20, 30} : v = Step.version
  BY <1>2, StepFacts
<1>5. e \in SeedEnvs /\ v \in Nat /\ v # 31 /\ v # 100 /\ versions' = With(e, v, NoPin)
  BY <1>3, <1>4, SeededNames DEF ensure_env_version
<1>6. /\ DOMAIN versions' = SeedEnvs /\ \A x \in SeedEnvs : RowsAre(versions'[x])
      /\ \A x \in SeedEnvs : Offered(x)' = Offered(x) \/ (x = e /\ Offered(x)' = Offered(x) \cup {v})
      /\ \A q \in versions'["qa"] : q \in versions["qa"] \/ (q.version = v /\ q.pin = NoPin)
  BY <1>1, <1>5, WithIs
<1>7. SeedTypes'
  BY <1>1, <1>2, <1>6 DEF SeedTypes
<1>8. FilesInv'
  <2>1. \A q \in versions'["qa"] : \/ \E r \in versions["qa"] : q.version = r.version /\ q.seeded = r.seeded /\ q.pin = r.pin
                                   \/ q.version = 31 /\ q.seeded => PinIsServed(q.pin)
    BY <1>5, <1>6
  <2> QED BY <1>1, <1>2, <2>1, FilesFrame
<1>9. ASSUME NEW i \in 1 .. 15, IsDone(i)' PROVE Left(i)'
  <2>1. CASE i = hub.step
    BY <1>2, <2>1 DEF Left
  <2>2. CASE IsDone(i)
    <3>1. ASSUME Steps[i].do = "yank" PROVE LegacyIsGone(Steps[i].env)'
      <4>1. LegacyIsGone(Steps[i].env) /\ Steps[i].env \in SeedEnvs
        BY <1>2, <2>2, <3>1, StepFacts, SeededNames DEF SeedInv, EnvsInv, Left
      <4>2. i < hub.step
        BY <1>1, <2>2 DEF IsDone, Doing
      <4>3. Steps[i].env # e
        <5>1. \A j \in 1 .. 27 : Steps[j].do = "version" /\ Steps[j].env = Steps[i].env => j < i
          <6>1. i \in 1 .. 27
            OBVIOUS
          <6> QED BY <3>1, <6>1, StepFacts
        <5>2. ASSUME Steps[i].env = e PROVE hub.step < i
          BY <1>2, <1>3, <5>1, <5>2
        <5> QED BY <1>2, <4>2, <5>2
      <4> QED BY <1>6, <4>1, <4>3 DEF LegacyIsGone
    <3> QED BY <1>1, <2>2, <3>1, StaysLeft
  <2> QED BY <1>2, <1>9, <2>1, <2>2
<1> QED BY <1>7, <1>8, <1>9 DEF SeedInv, EnvsInv

LEMMA LegacyIsYanked ==
    ASSUME SeedInv, yank_legacy_placeholder
    PROVE  SeedInv'
<1>1. /\ SeedTypes /\ HubIs /\ Doing("yank") /\ Advance
      /\ UNCHANGED <<envs, packages, stacks, disk, sources, touched, changes, starts>>
  BY DEF yank_legacy_placeholder, SeedInv, SeedTypes
<1>2. /\ hub.step \in 1 .. 27 /\ Step.do = "yank" /\ Step = Steps[hub.step] /\ HubIs' /\ hub'.at = "seeding"
      /\ touched = {} /\ touched' = {} /\ \A i \in 1 .. 15 : IsDone(i)' => IsDone(i) \/ i = hub.step
  BY <1>1, AdvanceIs
<1>3. PICK e \in Standard : e = Step.env
  BY <1>2, StepFacts
<1>4. Step.legacy = 100 /\ Step.current = 20
  BY <1>2, StepFacts
<1>5. e \in SeedEnvs
      /\ versions' = [versions EXCEPT ![e] = IF {100, 20} \subseteq Offered(e) THEN Yanking(@, 100) ELSE @]
  BY <1>3, <1>4, SeededNames DEF yank_legacy_placeholder
<1>6. /\ DOMAIN versions' = SeedEnvs /\ \A x \in SeedEnvs : RowsAre(versions'[x])
      /\ \A x \in SeedEnvs \ {e} : Offered(x)' = Offered(x)
      /\ (Offered(e)' = IF {100, 20} \subseteq Offered(e) THEN Offered(e) \ {100} ELSE Offered(e))
      /\ \A q \in versions'["qa"] : \E r \in versions["qa"] : q.version = r.version /\ q.seeded = r.seeded /\ q.pin = r.pin
  <2>1. CASE {100, 20} \subseteq Offered(e)
    <3>1. versions' = [versions EXCEPT ![e] = Yanking(@, 100)]
      BY <1>5, <2>1
    <3>2. /\ DOMAIN versions' = SeedEnvs /\ \A x \in SeedEnvs : RowsAre(versions'[x])
          /\ \A x \in SeedEnvs : Offered(x)' = IF x = e THEN Offered(x) \ {100} ELSE Offered(x)
          /\ \A q \in versions'["qa"] : \E r \in versions["qa"] : q.version = r.version /\ q.seeded = r.seeded /\ q.pin = r.pin
      <4>1. 100 \in Nat /\ SeedTypes /\ e \in SeedEnvs
        BY <1>1, <1>5
      <4> QED BY <3>1, <4>1, VersionIsYanked, Zenon
    <3> QED BY <1>5, <2>1, <3>2
  <2>2. CASE ~({100, 20} \subseteq Offered(e))
    <3>1. DOMAIN versions' = SeedEnvs /\ \A x \in SeedEnvs : versions'[x] = versions[x]
      BY <1>1, <1>5, <2>2 DEF SeedTypes
    <3> QED BY <1>1, <1>5, <2>2, <3>1, SeededNames DEF SeedTypes, Offered
  <2> QED BY <2>1, <2>2
<1>7. SeedTypes'
  BY <1>1, <1>2, <1>6 DEF SeedTypes
<1>8. FilesInv'
  BY <1>1, <1>2, <1>6, FilesFrame
<1>9. ASSUME NEW i \in 1 .. 15, IsDone(i)' PROVE Left(i)'
  <2>0. LegacyIsGone(e)'
    BY <1>6 DEF LegacyIsGone
  <2>1. CASE i = hub.step
    BY <1>2, <1>3, <2>0, <2>1 DEF Left
  <2>2. CASE IsDone(i)
    <3>1. ASSUME Steps[i].do = "yank" PROVE LegacyIsGone(Steps[i].env)'
      <4>1. LegacyIsGone(Steps[i].env) /\ Steps[i].env \in SeedEnvs
        BY <1>2, <2>2, <3>1, StepFacts, SeededNames DEF SeedInv, EnvsInv, Left
      <4> QED BY <1>6, <2>0, <4>1 DEF LegacyIsGone
    <3> QED BY <1>1, <2>2, <3>1, StaysLeft
  <2> QED BY <1>2, <1>9, <2>1, <2>2
<1> QED BY <1>7, <1>8, <1>9 DEF SeedInv, EnvsInv

LEMMA BenchmarksAreRetired ==
    ASSUME SeedInv, retire_benchmarks_registered_as_environments
    PROVE  SeedInv'
<1> DEFINE n(e) == IF e \in DOMAIN Retired /\ IsLive(e)
                   THEN [envs[e] EXCEPT !.id.life = "deprecated", !.id.by = Retired[e]] ELSE envs[e]
<1>1. /\ SeedTypes /\ HubIs /\ Doing("retire") /\ Advance
      /\ UNCHANGED <<versions, packages, stacks, disk, sources, touched, changes, starts>>
      /\ envs' = [e \in SeedEnvs |-> n(e)]
  BY DEF retire_benchmarks_registered_as_environments, SeedInv, SeedTypes
<1>2. /\ hub.step \in 1 .. 27 /\ Step.do = "retire" /\ Step = Steps[hub.step] /\ HubIs' /\ hub'.at = "seeding"
      /\ touched = {} /\ touched' = {} /\ \A i \in 1 .. 15 : IsDone(i)' => IsDone(i) \/ i = hub.step
  BY <1>1, AdvanceIs
<1>3. ASSUME NEW e \in SeedEnvs
      PROVE  /\ IsEnv(n(e)) /\ (e \notin DOMAIN Retired => n(e) = envs[e])
             /\ (e \in DOMAIN Retired /\ n(e).state = "live" => n(e).id.by = Retired[e])
  <2>0. envs[e] = [state |-> envs[e].state, id |-> envs[e].id]
        /\ envs[e].id = [life |-> envs[e].id.life, by |-> envs[e].id.by, aliases |-> envs[e].id.aliases]
    BY <1>1 DEF SeedTypes, IsEnv, IsIdentity, Id
  <2>1. CASE e \in DOMAIN Retired /\ IsLive(e)
    <3>1. PICK w : w = Retired[e]
      OBVIOUS
    <3>2. n(e) = [envs[e] EXCEPT !.id.life = "deprecated", !.id.by = w]
      BY <2>1, <3>1
    <3> HIDE DEF n
    <3>3. n(e) = [state |-> envs[e].state, id |-> [life |-> "deprecated", by |-> w, aliases |-> envs[e].id.aliases]]
      BY <2>0, <3>2
    <3> QED BY <2>1, <3>1, <3>3 DEF IsEnv, IsIdentity, Id
  <2>2. CASE ~(e \in DOMAIN Retired /\ IsLive(e))
    BY <1>1, <2>2 DEF SeedTypes, IsLive
  <2> QED BY <2>1, <2>2
<1> HIDE DEF n
<1>4. DOMAIN envs' = SeedEnvs /\ (\A e \in SeedEnvs : envs'[e] = n(e)) /\ \A e \in SeedEnvs : IsEnv(envs'[e])
  BY <1>1, <1>3
<1>5. SeedTypes'
  BY <1>1, <1>2, <1>4 DEF SeedTypes
<1>6. FilesInv'
  BY <1>1, <1>2, FilesFrame, SameVersions
<1>7. ASSUME NEW i \in 1 .. 15, IsDone(i)' PROVE Left(i)'
  <2>1. \A e \in DOMAIN Retired : PointsOn(e)'
    BY <1>3, <1>4, SeededNames DEF PointsOn, IsLive
  <2>2. CASE i = hub.step
    BY <1>2, <2>1, <2>2 DEF Left
  <2>3. CASE IsDone(i)
    <3>1. Left(i)
      BY <2>3 DEF SeedInv, EnvsInv
    <3>2. Steps[i].do = "env" => IsRestored(Steps[i].env)'
      <4>1. SUFFICES ASSUME Steps[i].do = "env" PROVE IsRestored(Steps[i].env)'
        OBVIOUS
      <4>2. IsRestored(Steps[i].env) /\ Steps[i].env \in SeedEnvs \ DOMAIN Retired
        BY <1>2, <3>1, <4>1, StepFacts, SeededNames DEF Left
      <4>3. envs'[Steps[i].env] = envs[Steps[i].env]
        BY <1>3, <1>4, <4>2
      <4> QED BY <4>2, <4>3 DEF IsRestored, IsLive
    <3>3. Steps[i].do = "yank" => LegacyIsGone(Steps[i].env)'
      BY <1>1, <1>2, <3>1 DEF Left, LegacyIsGone, Offered
    <3> QED BY <2>1, <3>2, <3>3 DEF Left
  <2> QED BY <1>2, <1>7, <2>2, <2>3
<1> QED BY <1>5, <1>6, <1>7 DEF SeedInv, EnvsInv

\* What a request holds is among the files of its package.
LEMMA RequestFiles ==
    ASSUME NEW p \in Names, DOMAIN sources[p].files \subseteq PackagesOf[p].sources, NEW r \in Requests(p)
    PROVE  DOMAIN r \subseteq {PackagesOf[p].order[k] : k \in 1 .. Len(PackagesOf[p].order)}
<1> DEFINE all == {PackagesOf[p].order[k] : k \in 1 .. Len(PackagesOf[p].order)}
<1>1. CASE p \in {"verified", "pro", "smith"}
  <2>1. PackagesOf[p] = Catalog
    BY <1>1 DEF PackagesOf
  <2>2. all = {"main", "images", "tar"} /\ PackagesOf[p].sources = {"main", "tar"}
    BY <2>1 DEF Catalog
  <2>3. Requests(p) = seed_swe_package(p)
    BY <1>1 DEF Requests
  <2>4. DOMAIN r \subseteq {"main", "images", "tar"}
    BY <2>3 DEF seed_swe_package, NoRequest, Has
  <2> QED BY <2>2, <2>4
<1>2. CASE p = "openhands"
  <2>1. PackagesOf[p] = Bundle({"manifest", "main"})
    BY <1>2 DEF PackagesOf
  <2>2. all = {"manifest", "main"} /\ PackagesOf[p].sources = {"manifest", "main"}
    BY <2>1 DEF Bundle
  <2>3. Requests(p) = seed_agent_bridge_openhands(p)
    BY <1>2 DEF Requests
  <2>4. DOMAIN r \subseteq DOMAIN sources[p].files \cup {"manifest"}
    BY <2>3 DEF seed_agent_bridge_openhands, NoRequest
  <2> QED BY <2>2, <2>4
<1>3. CASE p \in {"toolenv", "math_smoke", "dscodebench"}
  <2>1. PackagesOf[p] = Bundle({"main"})
    BY <1>3 DEF PackagesOf
  <2>2. all = {"manifest", "main"} /\ PackagesOf[p].sources = {"main"}
    BY <2>1 DEF Bundle
  <2>3. Requests(p) = WithList(p)
    BY <1>3 DEF Requests, seed_agent_bridge_toolenv, seed_math_smoke_fixtures, seed_dscodebench_mvp
  <2>4. DOMAIN r \subseteq DOMAIN sources[p].files \cup {"manifest"}
    BY <2>3 DEF WithList, NoRequest
  <2> QED BY <2>2, <2>4
<1>4. CASE p = "rubric"
  <2>1. PackagesOf[p] = [order |-> <<"main">>, sources |-> {"main"}]
    BY <1>4 DEF PackagesOf
  <2>2. all = {"main"} /\ PackagesOf[p].sources = {"main"}
    BY <2>1
  <2>3. Requests(p) = publish_qa_rubric_scorer(p)
    BY <1>4 DEF Requests
  <2>4. DOMAIN r \subseteq DOMAIN sources[p].files
    BY <2>3 DEF publish_qa_rubric_scorer, NoRequest
  <2> QED BY <2>2, <2>4
<1> QED BY <1>1, <1>2, <1>3, <1>4, SeededNames

LEMMA OrderIs == \A p \in Names : Len(PackagesOf[p].order) \in 1 .. 3
BY SeededNames DEF PackagesOf, Catalog, Bundle

LEMMA PackageIsPrepared ==
    ASSUME SeedInv, seed_package
    PROVE  SeedInv'
<1>1. /\ SeedTypes /\ HubIs /\ Doing("package") /\ UNCHANGED <<envs, versions, packages, stacks, disk, sources, touched, changes, starts>>
  BY DEF seed_package, SeedInv, SeedTypes, storeVars
<1>2. /\ hub.step \in 1 .. 27 /\ Step.do = "package" /\ Step = Steps[hub.step] /\ hub.at = "seeding" /\ touched = {}
  BY <1>1, StepsAre DEF Doing, Step, HubIs
<1>3. CASE Advance
  <2>1. HubIs' /\ hub'.at = "seeding" /\ \A i \in 1 .. 15 : IsDone(i)' => IsDone(i) \/ i = hub.step
    BY <1>1, <1>3, AdvanceIs
  <2>2. hub.step >= 16
    BY <1>2, StepFacts
  <2>3. SeedTypes'
    BY <1>1, <2>1 DEF SeedTypes
  <2>4. FilesInv'
    BY <1>1, <2>1, FilesFrame, SameVersions
  <2>5. EnvsInv'
    BY <1>1, <2>1, <2>2, EnvsFrame
  <2> QED BY <2>3, <2>4, <2>5 DEF SeedInv
<1>4. CASE ~Published(Step.package)
           /\ \E r \in Requests(Step.package) : hub' = [hub EXCEPT !.at = "staging", !.req = r, !.next = 1]
  <2>0. PICK p \in Names : p = Step.package
    BY <1>2, StepFacts
  <2>1. PICK r \in Requests(p) : hub' = [hub EXCEPT !.at = "staging", !.req = r, !.next = 1]
    BY <1>4, <2>0
  <2>2. /\ hub'.at = "staging" /\ hub'.step = hub.step /\ hub'.req = r /\ hub'.next = 1
        /\ DOMAIN hub' = {"at", "step", "req", "next"}
    BY <1>1, <2>1 DEF HubIs
  <2>3. Step' = Step
    BY <2>2 DEF Step
  <2>4. HubIs'
    BY <1>1, <1>2, <2>2 DEF HubIs
  <2>5. SeedTypes'
    BY <1>1, <2>4 DEF SeedTypes
  <2>6. StagingIsSound'
    <3>1. packages[p] = {}
      BY <1>4, <2>0 DEF Published
    <3>2. DOMAIN r \subseteq {PackagesOf[p].order[k] : k \in 1 .. Len(PackagesOf[p].order)}
      BY <1>1, RequestFiles DEF SeedTypes
    <3>3. 1 \in 1 .. Len(PackagesOf[p].order) + 1
      BY OrderIs
    <3>4. OnDisk(p, r, 1 - 1, disk')
      BY DEF OnDisk
    <3> QED BY <1>1, <1>2, <2>0, <2>2, <2>3, <3>1, <3>2, <3>3, <3>4 DEF StagingIsSound
  <2>7. FilesInv'
    BY <1>1, <2>6 DEF SeedInv, FilesInv, OneOfEach, SeededBytes, PinsAreServed, PinIsServed
  <2>8. \A i \in 1 .. 15 : IsDone(i)' => IsDone(i)
    BY <1>2, <2>2 DEF IsDone
  <2>9. EnvsInv'
    BY <1>1, <2>8, EnvsFrame
  <2> QED BY <2>5, <2>7, <2>9 DEF SeedInv
<1> QED BY <1>3, <1>4 DEF seed_package

LEMMA SeedingEnded ==
    ASSUME SeedInv, SeedingEnds, UNCHANGED touched, hub.at = "staging" \/ (hub.at = "seeding" /\ hub.step > 27)
    PROVE  HubIs' /\ hub'.at = "serving" /\ \A i \in 1 .. 15 : IsDone(i)' => IsDone(i)
<1>1. HubIs' /\ hub'.at = "serving"
  BY DEF SeedingEnds, Down, HubIs, SeedInv, SeedTypes
<1>2. hub.step \in 16 .. 28
  <2>1. hub.step \in 1 .. 28
    BY DEF SeedInv, SeedTypes, HubIs
  <2>2. CASE hub.at = "staging"
    <3>1. hub.step \in 1 .. 27 /\ Steps[hub.step].do = "package"
      BY <2>2 DEF SeedInv, FilesInv, StagingIsSound, Step
    <3> QED BY <3>1, StepFacts
  <2> QED BY <2>1, <2>2
<1>3. \A i \in 1 .. 15 : IsDone(i)
  BY <1>2 DEF IsDone
<1> QED BY <1>1, <1>3

LEMMA FileIsStaged ==
    ASSUME SeedInv, stage_seeded_artifact
    PROVE  SeedInv'
<1>1. /\ SeedTypes /\ HubIs /\ hub.at = "staging" /\ UNCHANGED <<envs, versions, packages, stacks, sources, touched, changes, starts>>
  BY DEF stage_seeded_artifact, SeedInv, SeedTypes, storeVars
<1>2. /\ hub.step \in 1 .. 27 /\ Step.do = "package" /\ Step = Steps[hub.step]
      /\ packages[Step.package] = {}
  BY <1>1 DEF SeedInv, FilesInv, StagingIsSound, Step
<1>3. PICK p \in Names : p = Step.package
  BY <1>2, StepFacts
<1>4. PICK order : order = PackagesOf[p].order
  OBVIOUS
<1>5. /\ packages[p] = {} /\ hub.next \in 1 .. Len(order) /\ Len(order) \in 1 .. 3
      /\ DOMAIN hub.req \subseteq {order[k] : k \in 1 .. Len(order)}
      /\ OnDisk(p, hub.req, hub.next - 1, disk)
  <2>1. /\ packages[p] = {} /\ hub.next \in 1 .. Len(order) + 1
        /\ DOMAIN hub.req \subseteq {order[k] : k \in 1 .. Len(order)}
        /\ OnDisk(p, hub.req, hub.next - 1, disk)
    BY <1>1, <1>2, <1>3, <1>4 DEF SeedInv, FilesInv, StagingIsSound
  <2>2. hub.next <= Len(order) /\ Len(order) \in 1 .. 3
    BY <1>3, <1>4, OrderIs DEF stage_seeded_artifact
  <2> QED BY <2>1, <2>2
<1>6. PICK f : f = order[hub.next]
  OBVIOUS
<1>7. CASE SeedingEnds /\ UNCHANGED disk
  <2>1. HubIs' /\ hub'.at = "serving" /\ \A i \in 1 .. 15 : IsDone(i)' => IsDone(i)
    BY <1>1, <1>7, SeedingEnded
  <2>2. SeedTypes'
    BY <1>1, <1>7, <2>1 DEF SeedTypes
  <2>3. FilesInv'
    BY <1>1, <1>7, <2>1, FilesFrame, SameVersions
  <2>4. EnvsInv'
    BY <1>1, <2>1, EnvsFrame
  <2> QED BY <2>2, <2>3, <2>4 DEF SeedInv
<1>8. ASSUME NEW req, DOMAIN req = DOMAIN hub.req, \A g \in DOMAIN req : g # f => req[g] = hub.req[g],
             DOMAIN hub' = DOMAIN hub, hub'.at = "staging", hub'.step = hub.step, hub'.next = hub.next + 1, hub'.req = req,
             \/ UNCHANGED disk /\ f \notin DOMAIN hub.req
             \/ /\ f \in DOMAIN hub.req /\ f \notin DOMAIN disk[p]
                /\ disk' = [disk EXCEPT ![p] = [g \in DOMAIN disk[p] \cup {f} |-> IF g = f THEN req[f] ELSE disk[p][g]]]
      PROVE  SeedInv'
  <2>1. HubIs' /\ Step' = Step
    BY <1>1, <1>2, <1>8 DEF HubIs, Step
  <2>2. /\ DOMAIN disk' = Names /\ \A x \in Names \ {p} : disk'[x] = disk[x]
        /\ \A g \in DOMAIN disk[p] : g \in DOMAIN disk'[p] /\ disk'[p][g] = disk[p][g]
        /\ f \in DOMAIN req => f \in DOMAIN disk'[p] /\ disk'[p][f] = req[f] /\ f \notin DOMAIN disk[p]
    <3>1. CASE UNCHANGED disk /\ f \notin DOMAIN hub.req
      BY <1>1, <1>8, <3>1 DEF SeedTypes
    <3>2. ASSUME f \notin DOMAIN disk[p],
                 disk' = [disk EXCEPT ![p] = [g \in DOMAIN disk[p] \cup {f} |-> IF g = f THEN req[f] ELSE disk[p][g]]]
          PROVE  /\ DOMAIN disk' = Names /\ \A x \in Names \ {p} : disk'[x] = disk[x]
                 /\ \A g \in DOMAIN disk[p] : g \in DOMAIN disk'[p] /\ disk'[p][g] = disk[p][g]
                 /\ f \in DOMAIN disk'[p] /\ disk'[p][f] = req[f]
      BY <1>1, <3>2 DEF SeedTypes
    <3> QED BY <1>8, <3>1, <3>2
  <2>3. SeedTypes'
    BY <1>1, <2>1, <2>2 DEF SeedTypes
  <2>4. OnDisk(p, req, hub.next, disk')
    <3> SUFFICES ASSUME NEW k \in 1 .. hub.next, order[k] \in DOMAIN req
                 PROVE  order[k] \in DOMAIN disk'[p] /\ disk'[p][order[k]] = req[order[k]]
      BY <1>4 DEF OnDisk
    <3>1. CASE k = hub.next
      BY <1>6, <2>2, <3>1
    <3>2. CASE k # hub.next
      <4>1. k \in 1 .. hub.next - 1
        BY <1>5, <3>2
      <4>2. order[k] \in DOMAIN disk[p] /\ disk[p][order[k]] = hub.req[order[k]]
        BY <1>4, <1>5, <1>8, <4>1 DEF OnDisk
      <4>3. order[k] # f
        BY <2>2, <4>2
      <4> QED BY <1>8, <2>2, <4>2, <4>3
    <3> QED BY <3>1, <3>2
  <2>5. StagingIsSound'
    <3>1. hub'.next \in 1 .. Len(order) + 1 /\ hub'.next - 1 = hub.next
      BY <1>5, <1>8
    <3>2. OnDisk(p, hub'.req, hub'.next - 1, disk')
      BY <1>8, <2>4, <3>1
    <3>3. DOMAIN hub'.req \subseteq {order[k] : k \in 1 .. Len(order)}
      BY <1>5, <1>8
    <3>4. packages'[p] = {} /\ Step'.package = p /\ Step'.do = "package" /\ hub'.step \in 1 .. 27
      BY <1>1, <1>2, <1>3, <1>5, <1>8, <2>1
    <3> QED BY <1>4, <3>1, <3>2, <3>3, <3>4 DEF StagingIsSound
  <2>6. OneOfEach'
    BY <1>1 DEF SeedInv, FilesInv, OneOfEach
  <2>7. SeededBytes'
    <3> SUFFICES ASSUME NEW q \in Names, NEW x \in packages[q], NEW g \in DOMAIN x
                 PROVE  g \in DOMAIN disk'[q] /\ disk'[q][g] = x[g]
      BY <1>1 DEF SeededBytes
    <3>1. g \in DOMAIN disk[q] /\ disk[q][g] = x[g]
      BY DEF SeedInv, FilesInv, SeededBytes
    <3> QED BY <2>2, <3>1
  <2>8. PinsAreServed'
    <3> SUFFICES ASSUME NEW r \in versions["qa"], r.version = 31, r.seeded PROVE PinIsServed(r.pin)'
      BY <1>1 DEF PinsAreServed
    <3>1. PinIsServed(r.pin)
      BY DEF SeedInv, FilesInv, PinsAreServed
    <3> QED BY <1>1, <2>2, <3>1, SeededNames DEF PinIsServed
  <2>9. \A i \in 1 .. 15 : IsDone(i)' => IsDone(i)
    BY <1>1, <1>8 DEF IsDone
  <2>10. EnvsInv'
    BY <1>1, <2>9, EnvsFrame
  <2> QED BY <2>3, <2>5, <2>6, <2>7, <2>8, <2>10 DEF SeedInv, FilesInv
<1>9. CASE f \notin DOMAIN hub.req /\ hub' = [hub EXCEPT !.next = @ + 1] /\ UNCHANGED disk
  <2>1. /\ DOMAIN hub' = DOMAIN hub /\ hub'.at = "staging" /\ hub'.step = hub.step /\ hub'.next = hub.next + 1 /\ hub'.req = hub.req
    BY <1>1, <1>9 DEF HubIs
  <2> QED BY <1>8, <1>9, <2>1
<1>10. ASSUME NEW c, f \in DOMAIN hub.req, f \notin DOMAIN disk[p],
              disk' = [disk EXCEPT ![p] = [g \in DOMAIN @ \cup {f} |-> IF g = f THEN c ELSE @[g]]],
              hub' = [hub EXCEPT !.next = @ + 1, !.req[f] = c]
       PROVE  SeedInv'
  <2> DEFINE req == [hub.req EXCEPT ![f] = c]
  <2>1. DOMAIN req = DOMAIN hub.req /\ req[f] = c /\ \A g \in DOMAIN req : g # f => req[g] = hub.req[g]
    BY <1>10
  <2>2. /\ DOMAIN hub' = DOMAIN hub /\ hub'.at = "staging" /\ hub'.step = hub.step /\ hub'.next = hub.next + 1 /\ hub'.req = req
    BY <1>1, <1>10 DEF HubIs
  <2> HIDE DEF req
  <2>3. disk' = [disk EXCEPT ![p] = [g \in DOMAIN disk[p] \cup {f} |-> IF g = f THEN req[f] ELSE disk[p][g]]]
    BY <1>10, <2>1
  <2> QED BY <1>8, <1>10, <2>1, <2>2, <2>3
<1>11. PackagesOf[Step.package].order[hub.next] = f
  BY <1>3, <1>4, <1>6
<1>12. CASE f \in DOMAIN hub.req /\ f \notin DOMAIN disk[p]
            /\ \E c \in Copied(p, f) :
                 /\ disk' = [disk EXCEPT ![p] = [g \in DOMAIN @ \cup {f} |-> IF g = f THEN c ELSE @[g]]]
                 /\ hub' = [hub EXCEPT !.next = @ + 1, !.req[f] = c]
  BY <1>10, <1>12
<1>13. \/ f \notin DOMAIN hub.req /\ hub' = [hub EXCEPT !.next = @ + 1] /\ UNCHANGED disk
       \/ SeedingEnds /\ UNCHANGED disk
       \/ f \in DOMAIN hub.req /\ f \notin DOMAIN disk[p]
            /\ \E c \in Copied(p, f) :
                 /\ disk' = [disk EXCEPT ![p] = [g \in DOMAIN @ \cup {f} |-> IF g = f THEN c ELSE @[g]]]
                 /\ hub' = [hub EXCEPT !.next = @ + 1, !.req[f] = c]
  BY <1>3, <1>11, Zenon DEF stage_seeded_artifact
<1> QED BY <1>7, <1>9, <1>12, <1>13

LEMMA PackageIsPublished ==
    ASSUME SeedInv, publish_package
    PROVE  SeedInv'
<1>1. /\ SeedTypes /\ HubIs /\ hub.at = "staging" /\ hub' = [hub EXCEPT !.at = "seeding", !.step = @ + 1]
      /\ UNCHANGED <<envs, versions, stacks, disk, sources, touched, changes, starts>>
  BY DEF publish_package, SeedInv, SeedTypes
<1>2. /\ hub.step \in 1 .. 27 /\ Step.do = "package" /\ Step = Steps[hub.step]
      /\ packages[Step.package] = {} /\ touched = {}
  BY <1>1 DEF SeedInv, FilesInv, StagingIsSound, Step, HubIs
<1>3. PICK p \in Names : p = Step.package
  BY <1>2, StepFacts
<1>4. PICK order : order = PackagesOf[p].order
  OBVIOUS
<1>5. /\ packages[p] = {} /\ hub.next = Len(order) + 1 /\ Len(order) \in 1 .. 3
      /\ DOMAIN hub.req \subseteq {order[k] : k \in 1 .. Len(order)}
      /\ OnDisk(p, hub.req, hub.next - 1, disk)
  <2>1. /\ packages[p] = {} /\ hub.next \in 1 .. Len(order) + 1
        /\ DOMAIN hub.req \subseteq {order[k] : k \in 1 .. Len(order)}
        /\ OnDisk(p, hub.req, hub.next - 1, disk)
    BY <1>1, <1>2, <1>3, <1>4 DEF SeedInv, FilesInv, StagingIsSound
  <2>2. hub.next > Len(order) /\ Len(order) \in 1 .. 3
    BY <1>3, <1>4, OrderIs DEF publish_package
  <2> QED BY <2>1, <2>2
<1>6. /\ packages' = [packages EXCEPT ![p] = {hub.req}]
      /\ DOMAIN packages' = Names /\ packages'[p] = {hub.req} /\ \A q \in Names \ {p} : packages'[q] = packages[q]
  BY <1>1, <1>3 DEF publish_package, SeedTypes
<1>7. /\ DOMAIN hub' = DOMAIN hub /\ hub'.at = "seeding" /\ hub'.step = hub.step + 1 /\ hub'.next = hub.next
  BY <1>1 DEF HubIs
<1>8. HubIs'
  BY <1>1, <1>2, <1>7 DEF HubIs
<1>9. SeedTypes'
  BY <1>1, <1>6, <1>8 DEF SeedTypes
<1>10. \A g \in DOMAIN hub.req : g \in DOMAIN disk[p] /\ disk[p][g] = hub.req[g]
  <2> SUFFICES ASSUME NEW g \in DOMAIN hub.req PROVE g \in DOMAIN disk[p] /\ disk[p][g] = hub.req[g]
    OBVIOUS
  <2>1. PICK k \in 1 .. Len(order) : g = order[k]
    BY <1>5
  <2>2. k \in 1 .. hub.next - 1
    BY <1>5
  <2> QED BY <1>4, <1>5, <2>1, <2>2 DEF OnDisk
<1>11. OneOfEach'
  BY <1>6 DEF SeedInv, FilesInv, OneOfEach
<1>12. SeededBytes'
  <2> SUFFICES ASSUME NEW q \in Names, NEW x \in packages'[q], NEW g \in DOMAIN x
               PROVE  g \in DOMAIN disk[q] /\ disk[q][g] = x[g]
    BY <1>1 DEF SeededBytes
  <2>1. CASE q = p
    BY <1>6, <1>10, <2>1
  <2>2. CASE q # p
    BY <1>6, <2>2 DEF SeedInv, FilesInv, SeededBytes
  <2> QED BY <2>1, <2>2
<1>13. PinsAreServed'
  <2> SUFFICES ASSUME NEW r \in versions["qa"], r.version = 31, r.seeded PROVE PinIsServed(r.pin)'
    BY <1>1 DEF PinsAreServed
  <2>1. PinIsServed(r.pin)
    BY DEF SeedInv, FilesInv, PinsAreServed
  <2>2. p # "rubric"
    BY <1>5, <2>1 DEF PinIsServed
  <2> QED BY <1>1, <1>6, <2>1, <2>2, SeededNames DEF PinIsServed
<1>14. StagingIsSound'
  BY <1>7 DEF StagingIsSound
<1>15. EnvsInv'
  <2>1. hub.step >= 16
    BY <1>2, StepFacts
  <2>2. \A i \in 1 .. 15 : IsDone(i)
    BY <1>1, <1>2, <2>1 DEF IsDone
  <2> QED BY <1>1, <2>2, EnvsFrame
<1> QED BY <1>9, <1>11, <1>12, <1>13, <1>14, <1>15 DEF SeedInv, FilesInv

LEMMA ScorerIsPinned ==
    ASSUME SeedInv, seed_qa_rubric_scorer
    PROVE  SeedInv'
<1>1. /\ SeedTypes /\ HubIs /\ Doing("pin") /\ Advance
      /\ UNCHANGED <<envs, packages, stacks, disk, sources, touched, changes, starts>>
  BY DEF seed_qa_rubric_scorer, SeedInv, SeedTypes
<1>2. /\ hub.step \in 1 .. 27 /\ Step.do = "pin" /\ Step = Steps[hub.step] /\ HubIs' /\ hub'.at = "seeding"
      /\ touched = {} /\ touched' = {} /\ \A i \in 1 .. 15 : IsDone(i)' => IsDone(i) \/ i = hub.step
  BY <1>1, AdvanceIs
<1>3. /\ Step.package = "rubric" /\ Step.file = "main" /\ Step.env = "qa" /\ Step.version = 31 /\ hub.step >= 16
  BY <1>2, StepFacts
<1>4. PICK pin : pin = (CHOOSE x \in packages["rubric"] : TRUE)["main"]
  OBVIOUS
<1>5. \/ versions' = versions
      \/ (\E x \in packages["rubric"] : "main" \in DOMAIN x) /\ versions' = With("qa", 31, pin)
  BY <1>3, <1>4 DEF seed_qa_rubric_scorer
<1>6. /\ DOMAIN versions' = SeedEnvs /\ \A x \in SeedEnvs : RowsAre(versions'[x])
      /\ \A x \in SeedEnvs : Offered(x)' = Offered(x) \/ (x = "qa" /\ Offered(x)' = Offered(x) \cup {31})
      /\ \A q \in versions'["qa"] : q \in versions["qa"] \/ (q.version = 31 /\ q.pin = pin /\ PinIsServed(pin))
  <2>1. CASE versions' = versions
    BY <1>1, <2>1 DEF SeedTypes, Offered
  <2>2. CASE (\E x \in packages["rubric"] : "main" \in DOMAIN x) /\ versions' = With("qa", 31, pin)
    <3>1. "qa" \in SeedEnvs /\ 31 \in Nat /\ "rubric" \in Names
      BY SeededNames
    <3>2. /\ DOMAIN versions' = SeedEnvs /\ \A x \in SeedEnvs : RowsAre(versions'[x])
          /\ \A x \in SeedEnvs : Offered(x)' = Offered(x) \/ (x = "qa" /\ Offered(x)' = Offered(x) \cup {31})
          /\ \A q \in versions'["qa"] : q \in versions["qa"] \/ (q.version = 31 /\ q.pin = pin)
      BY <1>1, <2>2, <3>1, WithIs
    <3>3. PinIsServed(pin)
      <4>1. PICK x \in packages["rubric"] : "main" \in DOMAIN x
        BY <2>2
      <4>2. \A y \in packages["rubric"] : y = x
        BY <3>1 DEF SeedInv, FilesInv, OneOfEach
      <4>3. (CHOOSE y \in packages["rubric"] : TRUE) = x
        BY <4>2
      <4>4. pin = x["main"]
        BY <1>4, <4>3
      <4> QED BY <3>1, <4>1, <4>4 DEF PinIsServed, SeedInv, FilesInv, SeededBytes
    <3> QED BY <3>2, <3>3
  <2> QED BY <1>5, <2>1, <2>2
<1>7. SeedTypes'
  BY <1>1, <1>2, <1>6 DEF SeedTypes
<1>8. FilesInv'
  <2>1. \A q \in versions'["qa"] : \/ \E r \in versions["qa"] : q.version = r.version /\ q.seeded = r.seeded /\ q.pin = r.pin
                                   \/ q.version = 31 /\ q.seeded => PinIsServed(q.pin)
    BY <1>6
  <2> QED BY <1>1, <1>2, <2>1, FilesFrame
<1>9. ASSUME NEW i \in 1 .. 15, IsDone(i)' PROVE Left(i)'
  <2>1. IsDone(i)
    BY <1>2, <1>3, <1>9
  <2>2. ASSUME Steps[i].do = "yank" PROVE LegacyIsGone(Steps[i].env)'
    <3>1. LegacyIsGone(Steps[i].env) /\ Steps[i].env \in SeedEnvs
      BY <1>2, <2>1, <2>2, StepFacts, SeededNames DEF SeedInv, EnvsInv, Left
    <3> QED BY <1>6, <3>1 DEF LegacyIsGone
  <2> QED BY <1>1, <2>1, <2>2, StaysLeft
<1> QED BY <1>7, <1>8, <1>9 DEF SeedInv, EnvsInv

LEMMA StackIsEnsured ==
    ASSUME SeedInv, ensure_stack
    PROVE  SeedInv'
<1>1. /\ SeedTypes /\ HubIs /\ Doing("stack") /\ Advance
      /\ UNCHANGED <<envs, versions, packages, disk, sources, touched, changes, starts>>
  BY DEF ensure_stack, SeedInv, SeedTypes
<1>2. /\ hub.step \in 1 .. 27 /\ Step.do = "stack" /\ Step = Steps[hub.step] /\ HubIs' /\ hub'.at = "seeding"
      /\ \A i \in 1 .. 15 : IsDone(i)' => IsDone(i) \/ i = hub.step
  BY <1>1, AdvanceIs
<1>3. SeedTypes'
  BY <1>1, <1>2 DEF SeedTypes
<1>4. FilesInv'
  BY <1>1, <1>2, FilesFrame, SameVersions
<1>5. \A i \in 1 .. 15 : IsDone(i)' => Left(i)'
  <2> SUFFICES ASSUME NEW i \in 1 .. 15, IsDone(i)' PROVE Left(i)'
    OBVIOUS
  <2>1. CASE i = hub.step
    BY <1>2, <2>1 DEF Left
  <2>2. CASE IsDone(i)
    <3>1. Steps[i].do = "yank" /\ Steps[i].env \notin touched => LegacyIsGone(Steps[i].env)'
      BY <1>1, <2>2 DEF SeedInv, EnvsInv, Left, LegacyIsGone, Offered
    <3> QED BY <1>1, <2>2, <3>1, StaysLeft
  <2> QED BY <1>2, <2>1, <2>2
<1> QED BY <1>3, <1>4, <1>5 DEF SeedInv, EnvsInv

\* The process starts, serves or stops.
LEMMA ProcessKeeps ==
    ASSUME SeedInv, build_state \/ Serve \/ Stop
    PROVE  SeedInv'
<1>1. SeedTypes /\ HubIs /\ UNCHANGED <<envs, versions, packages, stacks, disk, sources>>
  BY DEF SeedInv, SeedTypes, build_state, Serve, Stop, storeVars
<1>2. /\ HubIs' /\ hub'.at # "staging" /\ \A i \in 1 .. 15 : IsDone(i)' => IsDone(i) /\ UNCHANGED touched
  <2>1. CASE build_state
    <3>1. hub' = [hub EXCEPT !.at = "seeding", !.step = 1] /\ touched' = {}
      BY <2>1 DEF build_state
    <3> QED BY <1>1, <3>1 DEF HubIs, IsDone
  <2>2. CASE Serve
    <3>1. SeedingEnds /\ UNCHANGED touched /\ hub.at = "seeding" /\ hub.step > 27
      BY <2>2, StepsAre DEF Serve, SeedingEnds
    <3> QED BY <3>1, SeedingEnded
  <2>3. CASE Stop
    BY <1>1, <2>3 DEF Stop, Down, HubIs, IsDone
  <2> QED BY <2>1, <2>2, <2>3
<1>3. SeedTypes'
  BY <1>1, <1>2 DEF SeedTypes
<1>4. FilesInv'
  BY <1>1, <1>2, FilesFrame, SameVersions
<1>5. EnvsInv'
  <2> SUFFICES ASSUME NEW i \in 1 .. 15, IsDone(i)' PROVE Left(i)'
    BY DEF EnvsInv
  <2>1. IsDone(i) /\ UNCHANGED touched
    BY <1>2
  <2>2. Left(i)
    BY <2>1 DEF SeedInv, EnvsInv
  <2> QED BY <1>1, <2>1, <2>2 DEF Left, IsRestored, LegacyIsGone, PointsOn, IsLive, Offered
<1> QED BY <1>3, <1>4, <1>5 DEF SeedInv

\* What a user changes is touched, and not a thing of the packages.
LEMMA TouchKeeps ==
    ASSUME SeedInv, NEW e \in SeedEnvs, Touch(e), UNCHANGED <<packages, disk, sources, hub>>,
           DOMAIN envs' = SeedEnvs, IsEnv(envs'[e]), \A x \in SeedEnvs \ {e} : envs'[x] = envs[x],
           DOMAIN versions' = SeedEnvs, RowsAre(versions'[e]), \A x \in SeedEnvs \ {e} : versions'[x] = versions[x],
           \A q \in versions'["qa"] : \/ \E r \in versions["qa"] : q.version = r.version /\ q.seeded = r.seeded /\ q.pin = r.pin
                                      \/ ~q.seeded
    PROVE  SeedInv'
<1>1. hub.at = "serving" /\ touched' = touched \cup {e} /\ SeedTypes /\ HubIs
  BY DEF Touch, SeedInv, SeedTypes
<1>2. SeedTypes'
  <2>1. HubIs'
    BY <1>1 DEF HubIs
  <2>2. (\A x \in SeedEnvs : IsEnv(envs'[x])) /\ \A x \in SeedEnvs : RowsAre(versions'[x])
    BY <1>1 DEF SeedTypes
  <2> QED BY <1>1, <2>1, <2>2 DEF SeedTypes
<1>3. FilesInv'
  BY <1>1, FilesFrame
<1>4. ASSUME NEW i \in 1 .. 15, IsDone(i)' PROVE Left(i)'
  <2>1. Left(i)
    BY <1>1, <1>4 DEF SeedInv, EnvsInv, IsDone
  <2>2. \A x \in SeedEnvs \ {e} : /\ IsRestored(x) => IsRestored(x)'
                                  /\ LegacyIsGone(x) => LegacyIsGone(x)'
                                  /\ PointsOn(x) => PointsOn(x)'
    BY DEF IsRestored, LegacyIsGone, PointsOn, IsLive, Offered
  <2>3. i \in 1 .. 27
    OBVIOUS
  <2>4. /\ Steps[i].do = "env" => Steps[i].env \in SeedEnvs
        /\ Steps[i].do = "yank" => Steps[i].env \in SeedEnvs
    BY <2>3, StepFacts, SeededNames
  <2>5. ASSUME Steps[i].do = "env", Steps[i].env \notin touched' PROVE IsRestored(Steps[i].env)'
    BY <1>1, <2>1, <2>2, <2>4, <2>5 DEF Left
  <2>6. ASSUME Steps[i].do = "yank", Steps[i].env \notin touched' PROVE LegacyIsGone(Steps[i].env)'
    BY <1>1, <2>1, <2>2, <2>4, <2>6 DEF Left
  <2>7. ASSUME Steps[i].do = "retire", NEW x \in DOMAIN Retired \ touched' PROVE PointsOn(x)'
    BY <1>1, <2>1, <2>2, <2>7, SeededNames DEF Left
  <2> QED BY <2>5, <2>6, <2>7 DEF Left
<1> QED BY <1>2, <1>3, <1>4 DEF SeedInv, EnvsInv

LEMMA UserKeeps ==
    ASSUME SeedConstants, SeedInv, NEW e \in UserEnvs,
           \/ \E v \in UserVersions : UserPublishes(e, v)
           \/ \E v \in Offered(e) : UserYanks(e, v)
           \/ \E id \in UserIdentities : UserPatches(e, id)
           \/ UserDeletes(e)
    PROVE  SeedInv'
<1>0. e \in SeedEnvs /\ SeedTypes
  BY DEF SeedConstants, SeedInv
<1>a. IsEnv(envs[e]) /\ DOMAIN envs = SeedEnvs /\ DOMAIN versions = SeedEnvs /\ RowsAre(versions[e]) /\ "qa" \in SeedEnvs
  BY <1>0, SeededNames DEF SeedTypes
<1>1. ASSUME NEW v \in UserVersions, UserPublishes(e, v) PROVE SeedInv'
  <2> DEFINE r == [Row(v, NoPin) EXCEPT !.seeded = FALSE]
  <2>1. v \in Nat
    BY DEF SeedConstants
  <2>2. IsRow(r) /\ r.version = v /\ r.seeded = FALSE /\ ~r.yanked
    BY <2>1, UserRowIs
  <2>3. /\ Touch(e) /\ UNCHANGED <<envs, packages, disk, sources, hub>> /\ versions' = [versions EXCEPT ![e] = @ \cup {r}]
    BY <1>1 DEF UserPublishes
  <2> HIDE DEF r
  <2>4. /\ DOMAIN versions' = SeedEnvs /\ \A x \in SeedEnvs : RowsAre(versions'[x])
        /\ \A q \in versions'["qa"] : q \in versions["qa"] \/ (e = "qa" /\ q = r)
    BY <1>0, <2>2, <2>3, RowIsAdded
  <2>5. \A x \in SeedEnvs \ {e} : versions'[x] = versions[x]
    BY <1>a, <2>3
  <2>6. \A q \in versions'["qa"] : \/ \E y \in versions["qa"] : q.version = y.version /\ q.seeded = y.seeded /\ q.pin = y.pin
                                   \/ ~q.seeded
    BY <2>2, <2>4
  <2>7. DOMAIN envs' = SeedEnvs /\ IsEnv(envs'[e]) /\ (\A x \in SeedEnvs \ {e} : envs'[x] = envs[x]) /\ RowsAre(versions'[e])
    BY <1>0, <1>a, <2>3, <2>4
  <2> QED BY <1>0, <2>3, <2>4, <2>5, <2>6, <2>7, TouchKeeps
<1>2. ASSUME NEW v \in Offered(e), UserYanks(e, v) PROVE SeedInv'
  <2>1. v \in Nat
    BY <1>a DEF Offered, RowsAre, IsRow
  <2>3. /\ Touch(e) /\ UNCHANGED <<envs, packages, disk, sources, hub>> /\ versions' = [versions EXCEPT ![e] = Yanking(@, v)]
    BY <1>2 DEF UserYanks
  <2>4. /\ DOMAIN versions' = SeedEnvs /\ \A x \in SeedEnvs : RowsAre(versions'[x])
        /\ \A q \in versions'["qa"] : \E r \in versions["qa"] :
              q.version = r.version /\ q.seeded = r.seeded /\ q.pin = r.pin
    BY <1>0, <2>1, <2>3, VersionIsYanked
  <2>5. \A x \in SeedEnvs \ {e} : versions'[x] = versions[x]
    BY <1>a, <2>3
  <2>6. \A q \in versions'["qa"] : \/ \E y \in versions["qa"] : q.version = y.version /\ q.seeded = y.seeded /\ q.pin = y.pin
                                   \/ ~q.seeded
    BY <2>4
  <2>7. DOMAIN envs' = SeedEnvs /\ IsEnv(envs'[e]) /\ (\A x \in SeedEnvs \ {e} : envs'[x] = envs[x]) /\ RowsAre(versions'[e])
    BY <1>0, <1>a, <2>3, <2>4
  <2> QED BY <1>0, <2>3, <2>4, <2>5, <2>6, <2>7, TouchKeeps
<1>3. ASSUME NEW n, IsEnv(n), envs' = [envs EXCEPT ![e] = n], Touch(e), UNCHANGED <<versions, packages, disk, sources, hub>>
      PROVE  SeedInv'
  <2>1. DOMAIN envs' = SeedEnvs /\ IsEnv(envs'[e]) /\ \A x \in SeedEnvs \ {e} : envs'[x] = envs[x]
    BY <1>0, <1>a, <1>3
  <2>2. /\ DOMAIN versions' = SeedEnvs /\ RowsAre(versions'[e]) /\ \A x \in SeedEnvs \ {e} : versions'[x] = versions[x]
        /\ \A q \in versions'["qa"] : \/ \E y \in versions["qa"] : q.version = y.version /\ q.seeded = y.seeded /\ q.pin = y.pin
                                      \/ ~q.seeded
    BY <1>0, <1>a, <1>3
  <2> QED BY <1>0, <1>3, <2>1, <2>2, TouchKeeps
<1>4. ASSUME NEW id \in UserIdentities, UserPatches(e, id) PROVE SeedInv'
  <2>1. PICK i : i = Patched(envs[e].id, id)
    OBVIOUS
  <2>2. IsIdentity(i)
    <3>1. IsIdentity(id) /\ IsIdentity(envs[e].id)
      BY <1>a DEF SeedConstants, IsEnv
    <3> QED BY <2>1, <3>1, PatchedTwice
  <2>3. envs' = [envs EXCEPT ![e].id = i] /\ Touch(e) /\ UNCHANGED <<versions, packages, disk, sources, hub>>
    BY <1>4, <2>1 DEF UserPatches
  <2>4. PICK n : n = [state |-> envs[e].state, id |-> i]
    OBVIOUS
  <2>5. envs' = [envs EXCEPT ![e] = n]
    <3>1. [envs[e] EXCEPT !.id = i] = n
      BY <1>a, <2>4 DEF IsEnv
    <3> QED BY <2>3, <3>1
  <2>6. IsEnv(n)
    BY <2>2, <2>4 DEF IsEnv
  <2> QED BY <1>3, <2>3, <2>5, <2>6
<1>5. ASSUME UserDeletes(e) PROVE SeedInv'
  <2>3. envs' = [envs EXCEPT ![e].state = "deleted"] /\ Touch(e) /\ UNCHANGED <<versions, packages, disk, sources, hub>>
    BY <1>5 DEF UserDeletes
  <2>4. PICK n : n = [state |-> "deleted", id |-> envs[e].id]
    OBVIOUS
  <2>5. envs' = [envs EXCEPT ![e] = n]
    <3>1. [envs[e] EXCEPT !.state = "deleted"] = n
      BY <1>a, <2>4 DEF IsEnv
    <3> QED BY <2>3, <3>1
  <2>6. IsEnv(n)
    BY <1>a, <2>4 DEF IsEnv
  <2> QED BY <1>3, <2>3, <2>5, <2>6
<1> QED BY <1>1, <1>2, <1>4, <1>5

LEMMA SourcesKeep ==
    ASSUME SeedConstants, SeedInv, NEW p \in Changing, SourcesChange(p)
    PROVE  SeedInv'
<1>0. p \in Names /\ SeedTypes
  BY DEF SeedConstants, SeedInv, Names
<1>1. /\ UNCHANGED <<envs, versions, packages, stacks, disk, hub, touched>>
  BY DEF SourcesChange, storeVars
<1>2. PICK S \in SUBSET PackagesOf[p].sources, c \in Contents :
          sources' = [sources EXCEPT ![p] = [dir |-> TRUE, files |-> [f \in S |-> c]]]
  BY DEF SourcesChange
<1>4. DOMAIN sources' = Names /\ \A q \in Names : DOMAIN sources'[q].files \subseteq PackagesOf[q].sources
  BY <1>0, <1>2 DEF SeedTypes
<1>5. SeedTypes'
  <2>1. HubIs'
    BY <1>0, <1>1 DEF HubIs, SeedTypes
  <2> QED BY <1>0, <1>1, <1>4, <2>1 DEF SeedTypes
<1>6. FilesInv'
  <2>1. StagingIsSound'
    BY <1>1 DEF SeedInv, FilesInv, StagingIsSound, Step
  <2> QED BY <1>1, <2>1 DEF SeedInv, FilesInv, OneOfEach, SeededBytes, PinsAreServed, PinIsServed
<1>7. EnvsInv'
  BY <1>1, EnvsFrame DEF IsDone
<1> QED BY <1>5, <1>6, <1>7 DEF SeedInv

LEMMA InitSeedInv == SeedInit => SeedInv
<1> SUFFICES ASSUME SeedInit PROVE SeedInv
  OBVIOUS
<1>1. hub = Down /\ touched = {} /\ packages = [p \in Names |-> {}] /\ disk = [p \in Names |-> NoFiles]
  BY DEF SeedInit
<1>2. HubIs /\ hub.at = "down"
  BY <1>1 DEF HubIs, Down
<1>3. PICK earlier \in BOOLEAN :
         /\ envs = [e \in SeedEnvs |-> [state |-> IF earlier THEN "live" ELSE "absent", id |-> Id("active", "none", {})]]
         /\ versions = [e \in SeedEnvs |-> IF earlier THEN {[Row(100, NoPin) EXCEPT !.seeded = FALSE]} ELSE {}]
  BY DEF SeedInit
<1>4. DOMAIN envs = SeedEnvs /\ \A e \in SeedEnvs : IsEnv(envs[e])
  <2>1. IsIdentity(Id("active", "none", {}))
    BY DEF IsIdentity, Id
  <2>2. PICK i : i = Id("active", "none", {})
    OBVIOUS
  <2>3. PICK s : s = IF earlier THEN "live" ELSE "absent"
    OBVIOUS
  <2>4. envs = [e \in SeedEnvs |-> [state |-> s, id |-> i]]
    BY <1>3, <2>2, <2>3
  <2> QED BY <2>1, <2>2, <2>4 DEF IsEnv
<1>5. PICK r : r = [Row(100, NoPin) EXCEPT !.seeded = FALSE]
  OBVIOUS
<1>6. IsRow(r) /\ r.seeded = FALSE
  <2>1. 100 \in Nat
    OBVIOUS
  <2> QED BY <1>5, <2>1, UserRowIs
<1>7. DOMAIN versions = SeedEnvs /\ \A e \in SeedEnvs : RowsAre(versions[e]) /\ \A q \in versions[e] : q = r
  <2>1. versions = [e \in SeedEnvs |-> IF earlier THEN {r} ELSE {}]
    BY <1>3, <1>5
  <2>2. RowsAre({r}) /\ RowsAre({})
    BY <1>6, FS_EmptySet, FS_Singleton DEF RowsAre
  <2> QED BY <2>1, <2>2
<1>8. DOMAIN sources = Names /\ \A p \in Names : DOMAIN sources[p].files \subseteq PackagesOf[p].sources
  <2>1. PICK dir \in BOOLEAN : sources =
          [p \in Names |-> [dir |-> dir, files |-> [f \in IF dir THEN PackagesOf[p].sources ELSE {} |-> 1]]]
    BY DEF SeedInit
  <2> QED BY <2>1
<1>9. SeedTypes
  BY <1>1, <1>2, <1>4, <1>7, <1>8 DEF SeedTypes
<1>10. FilesInv
  <2>1. PinsAreServed
    BY <1>6, <1>7, SeededNames DEF PinsAreServed
  <2> QED BY <1>1, <1>2, <2>1 DEF FilesInv, StagingIsSound, OneOfEach, SeededBytes
<1>11. EnvsInv
  BY <1>2 DEF EnvsInv, IsDone
<1> QED BY <1>9, <1>10, <1>11 DEF SeedInv

LEMMA SeedStepKeeps ==
    ASSUME SeedConstants, SeedInv, [SeedNext]_seedVars
    PROVE  SeedInv'
<1>1. CASE UNCHANGED seedVars
  <2>1. UNCHANGED <<envs, versions, packages, disk, sources, hub, touched>>
    BY <1>1 DEF seedVars
  <2>2. SeedTypes'
    BY <2>1 DEF SeedInv, SeedTypes, HubIs
  <2>3. StagingIsSound'
    BY <2>1 DEF SeedInv, FilesInv, StagingIsSound, Step
  <2>4. FilesInv'
    BY <2>1, <2>3 DEF SeedInv, FilesInv, OneOfEach, SeededBytes, PinsAreServed, PinIsServed
  <2>5. EnvsInv'
    BY <2>1, EnvsFrame DEF IsDone
  <2> QED BY <2>2, <2>4, <2>5 DEF SeedInv
<1>2. CASE SeedNext
  BY <1>2, EnvIsEnsured, VersionIsEnsured, LegacyIsYanked, BenchmarksAreRetired, PackageIsPrepared, FileIsStaged,
     PackageIsPublished, ScorerIsPinned, StackIsEnsured, ProcessKeeps, UserKeeps, SourcesKeep, Zenon DEF SeedNext
<1> QED BY <1>1, <1>2

LEMMA SeedInvImplies == SeedInv => SeededIsOffered
<1> SUFFICES ASSUME SeedInv PROVE SeededIsOffered
  OBVIOUS
<1>0. Len(Steps) = 27
  BY StepsAre
<1>1. SeededBytes
  BY DEF SeedInv, FilesInv
<1>2. PinnedScorerIsServed
  <2> SUFFICES ASSUME NEW i \in 1 .. 27, Steps[i].do = "pin", NEW r \in versions["qa"], r.version = 31, r.seeded
               PROVE  PinIsServed(r.pin)
    <3>1. \A i \in 1 .. 27 : Steps[i].do = "pin" =>
              Steps[i] = [do |-> "pin", package |-> "rubric", file |-> "main", env |-> "qa", version |-> 31]
      BY StepFacts
    <3> QED BY <1>0, <3>1 DEF PinnedScorerIsServed, PinIsServed
  <2> QED BY DEF SeedInv, FilesInv, PinsAreServed
<1>3. ASSUME hub.at = "serving" PROVE \A i \in 1 .. 15 : Left(i)
  BY <1>3 DEF SeedInv, EnvsInv, IsDone
<1>4. ASSUME hub.at = "serving", NEW e \in Standard \ touched PROVE IsRestored(e)
  BY <1>3, <1>4, EnvStepsAre DEF Left
<1>5. StandardIsLatest
  <2> SUFFICES ASSUME hub.at = "serving", NEW i \in 1 .. 27, Steps[i].do = "yank", Steps[i].env \notin touched,
                      Steps[i].current \in Offered(Steps[i].env)
               PROVE  Resolved(Steps[i].env) \notin {0, Steps[i].legacy}
    BY <1>0 DEF StandardIsLatest
  <2>1. Steps[i].env \in Standard /\ i \in 1 .. 15 /\ Steps[i].legacy = 100 /\ Steps[i].current = 20
    BY StepFacts
  <2>2. PICK e \in Standard : e = Steps[i].env
    BY <2>1
  <2>3. IsLive(e) /\ 100 \notin Offered(e) /\ 20 \in Offered(e)
    BY <1>3, <1>4, <2>1, <2>2 DEF Left, LegacyIsGone, IsRestored
  <2>4. Offered(e) \in SUBSET Nat /\ IsFiniteSet(Offered(e))
    <3>1. RowsAre(versions[e])
      BY SeededNames DEF SeedInv, SeedTypes
    <3> DEFINE open == {x \in versions[e] : ~x.yanked}
               f == [x \in open |-> x.version]
    <3>2. IsFiniteSet(open)
      <4>1. open \in SUBSET versions[e] /\ IsFiniteSet(versions[e])
        BY <3>1 DEF RowsAre
      <4> QED BY <4>1, FS_Subset
    <3>3. f \in [open -> Offered(e)] /\ \A v \in Offered(e) : \E x \in open : f[x] = v
      BY DEF Offered
    <3>4. Offered(e) \in SUBSET Nat
      BY <3>1 DEF Offered, RowsAre, IsRow
    <3> HIDE DEF f, open
    <3>5. f \in Surjection(open, Offered(e))
      BY <3>3 DEF Surjection
    <3> QED BY <3>2, <3>4, <3>5, FS_Surjection, Zenon
  <2>5. Max(Offered(e)) \in Offered(e) /\ 20 <= Max(Offered(e))
    BY <2>3, <2>4, HighestOfFinite
  <2>6. Resolved(e) = Max(Offered(e))
    BY <2>3 DEF Resolved, Latest
  <2> QED BY <2>1, <2>2, <2>3, <2>4, <2>5, <2>6
<1>6. IdentityIsRestored
  <2>1. ASSUME hub.at = "serving", NEW e \in DOMAIN Retired \ touched PROVE PointsOn(e)
    BY <1>3, <2>1, EnvStepsAre DEF Left
  <2> QED BY <1>4, <2>1 DEF IdentityIsRestored, IsRestored, PointsOn, Standard
<1> QED BY <1>1, <1>2, <1>5, <1>6 DEF SeededIsOffered

\* What a started Hub offers under its standard names, whatever users, their
\* sources and earlier starts that were killed have left.
THEOREM SeededStaysOffered ==
    ASSUME SeedConstants
    PROVE  SeedSpec => []SeededIsOffered
<1>1. SeedInit => SeedInv
  BY InitSeedInv
<1>2. SeedInv /\ [SeedNext]_seedVars => SeedInv'
  BY SeedStepKeeps
<1>3. SeedInv => SeededIsOffered
  BY SeedInvImplies
<1> QED BY <1>1, <1>2, <1>3, PTL DEF SeedSpec

=============================================================================
