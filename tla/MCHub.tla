-------------------------------- MODULE MCHub --------------------------------
(***************************************************************************)
(* The registry of the Hub, the publication of a plugin package and its    *)
(* activation on a worker host, and the way of an environment from its     *)
(* sources to the Hub, checked in one run: focus says which of them a      *)
(* behaviour is about.                                                     *)
(***************************************************************************)
EXTENDS HubSeed, PackageActivation, HubRegistry, PackagePublish, EnvRelease, TLC

CONSTANTS e1, p1, c1, c2, c3, v1, v3, good, other, older, extra, bad, a, b, c

VARIABLE focus

vars == <<focus, registryVars, publishVars, activationVars, releaseVars, seedVars>>

\* What the theorems assume of the constants.
ASSUME HubInstances == ActivationConstants /\ RegistryConstants /\ PublishConstants /\ SeedConstants

\* The extended registry has one environment of three versions, the highest
\* of them a pre-release, and two handlers.
NoDrives(p, v) == {}

\* Stacks of one environment and one scaffold, that drives it in its first
\* version; and a server that mirrors the registry.
Agent(id, gw) == [id |-> id, mode |-> "agent", env |-> e1, wants |-> {}, pkg |-> p1, gateway |-> gw]
MirrorStacks == {Agent("s1", TRUE), Agent("s1", FALSE), [Agent("s3", TRUE) EXCEPT !.pkg = "none"],
                 [Agent("s2", FALSE) EXCEPT !.mode = "native", !.pkg = "none", !.wants = {1}]}
Mirror == INSTANCE HubRegistry WITH
            Envs <- {e1}, Packages <- {p1}, EnvVersions <- {1}, PreReleases <- {}, Stacks <- MirrorStacks,
            GatewayBound <- {e1}, Drives <- LAMBDA p, v : IF v = 1 THEN {e1} ELSE {}, Calls <- {c1},
            Recorded <- {"publish", "yank"}, MaySync <- TRUE, MaxClock <- 2, MaxYanks <- 2

\* Releases with the same files in a different order, one that asks for
\* another registry entry, one with another file, and a malformed one.
Files5 == good :> <<a, b>> @@ other :> <<b, a>> @@ older :> <<a>> @@ extra :> <<c>> @@ bad :> <<a>>
Entry5 == good :> 1 @@ other :> 1 @@ older :> 2 @@ extra :> 1 @@ bad :> 2

\* Two commands, one of them run again, that switch between two versions; and
\* three that fetch a third one, which has an artifact that is not inline.
Switching ==
    /\ runs[c2] <= 1 /\ runs[c3] = 0 /\ ~staging[MaxStaging].there /\ dest[v3] = Absent
    /\ \A x \in Commands : At(x, "ended") \/ command[x].version # v3
Fetching ==
    /\ \A x \in Commands : runs[x] <= 1 /\ (At(x, "ended") \/ command[x].version = v3)
    /\ \A v \in Versions \ {v3} : dest[v] = Absent

\* Sources: a Dockerfile on a public base whose labels are those of its
\* distribution; one that builds on an earlier stage and carries a contract in
\* labels, beside a compose file; an OpenEnv project, once without its state
\* class; and a compose file alone.
Ref(h, n, t) == [host |-> h, name |-> n, tag |-> t]
Lit(r) == [var |-> {}, or |-> {r}]
I(kw, key, val) == [kw |-> kw, key |-> key, val |-> val, escaped |-> FALSE]
Obj(props) == [form |-> "object", props |-> props]
S(kw, n, base) == [kw |-> kw, name |-> n, base |-> base]
Models == <<S("import", "", ""), S("class", "Move", "action"), S("field", "cell", ""), S("class", "Board", "observation"),
            S("field", "cells", ""), S("class", "View", "observation"), S("class", "Game", "state")>>
Distribution ==
    <<I("ARG", "BASE", Lit(Ref("public", "python", "latest"))), I("FROM", "", [var |-> {"BASE"}, or |-> {}]),
      I("LABEL", "title", "demo"), I("LABEL", "oci_version", "22.04"), I("COPY", "", "requirements.txt"),
      I("RUN", "", "online"), I("ENTRYPOINT", "", <<"serve">>), I("CMD", "", <<"--port">>), I("HEALTHCHECK", "", "/health")>>
Staged ==
    <<I("FROM", "", Lit(Ref("reg", "base", "1.0.0"))), I("ENV", "X", Lit(Ref("none", "x", "latest"))),
      I("FROM", "", [var |-> {"STAGE"}, or |-> {Ref("none", "builder", "latest")}]),
      [I("LABEL", "action", Obj({})) EXCEPT !.escaped = TRUE], I("LABEL", "version", "1.0.0"),
      I("LABEL", "state", Obj({"turn"})), I("CMD", "", <<"run">>), I("HEALTHCHECK", "", "NONE"), I("USER", "", "app")>>
Service(n, img) == [name |-> n, image |-> img, command |-> {<<"up">>}, healthcheck |-> {"/ready"}]
OpenEnvYaml == "name" :> "game" @@ "version" :> "1.0.0" @@ "image" :> Ref("reg", "game", "1.0.0") @@ "app" :> <<"server">>
               @@ "observation" :> [map |-> TRUE, class_name |-> "View"] @@ "action" :> [map |-> FALSE, scalar |-> "Move"]
Sources ==
    {[dockerfile |-> {Distribution}, compose |-> {}, openenv |-> {}, models |-> {Models}, requirements |-> FALSE],
     [dockerfile |-> {Staged}, compose |-> {{Service("env", {Ref("reg", "svc", "1.0.0")})}}, openenv |-> {},
      models |-> {<<>>}, requirements |-> TRUE],
     [dockerfile |-> {}, compose |-> {{Service("env", {}), Service("db", {})}}, openenv |-> {OpenEnvYaml},
      models |-> {Models}, requirements |-> FALSE],
     [dockerfile |-> {}, compose |-> {}, openenv |-> {OpenEnvYaml}, models |-> {SubSeq(Models, 1, 6)}, requirements |-> TRUE],
     [dockerfile |-> {}, compose |-> {{Service("env", {Ref("none", "svc", "latest")})}}, openenv |-> {},
      models |-> {}, requirements |-> FALSE]}
Foreign == [repo_tags |-> <<Ref("none", "img", "latest"), Ref("public", "img", "1.0.0"), Ref("reg", "img", "1.0.0")>>,
            repo_digests |-> <<Ref("public", "img", "sha")>>, top_level_digest |-> TRUE, id |-> {}, entrypoint |-> {}, cmd |-> {},
            healthcheck |-> {"/ready"}, labels |-> [k \in {"oci_version", "base_name"} |->
                IF k = "oci_version" THEN "22.04" ELSE Ref("public", "debian", "12")]]
Opt(e, v, r) == [env_type |-> e, version |-> v, registry |-> r]
Explicit == [k \in {"action", "observation", "state"} |->
                CASE k = "action" -> {Obj({"any"})} [] k = "observation" -> {} [] k = "state" -> {[form |-> "broken", props |-> {}]}]
Evident == {{}, {[wheels |-> 0, pyc |-> 1, mismatch |-> FALSE]}}

\* Every import of every source, and the image built from it.
Import == INSTANCE EnvRelease WITH
            Projects <- Sources, Images <- {Foreign}, Contracts <- {{}, {Explicit}},
            Options <- {Opt({}, {}, {}), Opt({"named"}, {"2.0.0"}, {"reg"})},
            Metrics <- {}, Evidence <- {}, ProjectEvidence <- Evident, Allowlists <- {{}, {"reg"}}, Lifecycles <- {}, MaxRules <- 1, MaxPublished <- 0

\* Rules, reports and evidence of one environment in two versions.
Plain == {[dockerfile |-> {}, compose |-> {}, openenv |-> {"name" :> "game" @@ "version" :> "1.0.0"}, models |-> {},
           requirements |-> FALSE]}
NoContract == {{}}
NoOptions == {Opt({}, {}, {})}
Measured == {[consistent |-> TRUE, over |-> 0, agrees |-> TRUE], [consistent |-> FALSE, over |-> 1, agrees |-> TRUE]}

\* A Hub that starts twice, on an empty database or on one of an earlier
\* release, with its sources beside it or without; two changes in between.
Identities == {Id("active", "x", {}), Id("canonical", "none", {"x"})}

\* The parts a behaviour is not about stay in one of their initial states.
NoActivation == \A v \in Versions : dest[v] = Absent
NoSeed == (\A e \in SeedEnvs : envs[e].state = "absent") /\ \A p \in Names : ~sources[p].dir

Init ==
    /\ ActivationInit /\ SeedInit
    /\ \/ focus = "latest" /\ RegistryInit /\ PublishInit /\ ReleaseInit /\ NoActivation /\ NoSeed
       \/ focus = "mirror" /\ Mirror!RegistryInit /\ PublishInit /\ ReleaseInit /\ NoActivation /\ NoSeed
       \/ focus = "publish" /\ RegistryInit /\ PublishInit /\ ReleaseInit /\ NoActivation /\ NoSeed
       \/ focus = "switch" /\ RegistryInit /\ PublishInit /\ ReleaseInit /\ Switching /\ NoSeed
       \/ focus = "fetch" /\ RegistryInit /\ PublishInit /\ ReleaseInit /\ Fetching /\ NoSeed
       \/ focus = "import" /\ RegistryInit /\ PublishInit /\ Import!ReleaseInit /\ NoActivation /\ NoSeed
       \/ focus = "rules" /\ RegistryInit /\ PublishInit /\ ReleaseInit /\ NoActivation /\ NoSeed
       \/ focus = "seed" /\ RegistryInit /\ PublishInit /\ ReleaseInit /\ NoActivation

Next ==
    \/ focus = "latest" /\ RegistryNext /\ UNCHANGED <<focus, publishVars, activationVars, releaseVars, seedVars>>
    \/ focus = "mirror" /\ Mirror!RegistryNext /\ UNCHANGED <<focus, publishVars, activationVars, releaseVars, seedVars>>
    \/ focus = "publish" /\ PublishNext /\ UNCHANGED <<focus, registryVars, activationVars, releaseVars, seedVars>>
    \/ focus = "switch" /\ ActivationNext /\ Switching' /\ UNCHANGED <<focus, registryVars, publishVars, releaseVars, seedVars>>
    \/ focus = "fetch" /\ ActivationNext /\ Fetching' /\ UNCHANGED <<focus, registryVars, publishVars, releaseVars, seedVars>>
    \/ focus = "import" /\ Import!ReleaseNext /\ UNCHANGED <<focus, registryVars, publishVars, activationVars, seedVars>>
    \/ focus = "rules" /\ ReleaseNext /\ UNCHANGED <<focus, registryVars, publishVars, activationVars, seedVars>>
    \/ focus = "seed" /\ SeedNext /\ UNCHANGED <<focus, registryVars, publishVars, activationVars, releaseVars>>

Spec == Init /\ [][Next]_vars

-----------------------------------------------------------------------------
\* An import without findings passes the gate, and an image built with the
\* labels of a manifest is imported again as it was.
ImportedAsDeclared == focus = "import" => Import!CleanImportPasses /\ Import!ImageDescribesItself

=============================================================================
