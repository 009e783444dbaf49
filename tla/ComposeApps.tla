----------------------------- MODULE ComposeApps -----------------------------
(***************************************************************************)
(* Managed Docker Compose apps (apps/api/src/lib/docker-compose.ts): rows   *)
(* of docker_apps are the only source, the directory of a project key under *)
(* /zos/apps is a copy published from them, and deploying runs docker       *)
(* compose in that copy after an approval.  DockerComposeService runs one   *)
(* operation at a time; the API may stop between any two of its writes, and *)
(* publishes every app again when it starts.                               *)
(***************************************************************************)
EXTENDS Naturals, FiniteSets

CONSTANTS Keys,         \* project keys
          Services,     \* services of every app
          Definitions,  \* Compose files, each the set of what it asks for
          MaxRevisions, \* bound: revisions given out
          MaxProposals, \* bound: approvals requested
          MaxTrouble,   \* bound: faults
          NONE

VARIABLES apps,       \* docker_apps, by project key
          dirs,       \* /zos/apps/<key>: whose marker, which revision of each file
          containers, \* the project's containers: the revision each was created from
          job,        \* the operation DockerComposeService is running
          proposals,  \* approved compose operations that have not run yet
          ran,        \* what the last compose command was approved for and ran with
          up,         \* the API is running
          mounted,    \* the NAS root that bind mounts name is ready
          revisions,  \* revisions given out so far
          asked,      \* approvals requested so far
          trouble     \* faults so far

vars == <<apps, dirs, containers, job, proposals, ran, up, mounted, revisions, asked, trouble>>

Actions == {"compose_up", "compose_down", "compose_pull", "compose_restart"}

\* A row: its id is the number of its first revision, env the revision that
\* last gave the values of its environment.
NewApp(r, d) == [id |-> r, rev |-> r, env |-> r, def |-> d, deployed |-> NONE]

Empty == [marker |-> NONE, compose |-> NONE, env |-> NONE]

Idle == [op |-> "none", key |-> NONE, app |-> NONE, old |-> NONE, at |-> "done",
         prop |-> NONE, left |-> {}]

Init ==
    /\ apps = [k \in Keys |-> NONE]
    /\ dirs = [k \in Keys |-> NONE]
    /\ containers = [k \in Keys |-> [s \in Services |-> NONE]]
    /\ job = Idle
    /\ proposals = {}
    /\ ran = NONE
    /\ up = TRUE
    /\ mounted = TRUE
    /\ revisions = 0
    /\ asked = 0
    /\ trouble = 0

Fault == trouble < MaxTrouble /\ trouble' = trouble + 1

-----------------------------------------------------------------------------
(* What a definition may ask for.                                           *)

\* A bind mount is accepted under a NAS root that is ready now.
validateServiceVolumes(d) == "bind" \in d => mounted

collectServiceRisk(d) == IF d \cap {"bind", "elevated"} # {} THEN "high" ELSE "medium"

\* include, build, env_file, configs, secrets: nothing outside the file itself.
validateComposeDefinition(d) == "local_files" \notin d /\ validateServiceVolumes(d)

-----------------------------------------------------------------------------
(* serialized(): an operation begins when the one before it has ended.      *)

Begins == up /\ job = Idle

\* The project key is unique.
createApp(k, d) ==
    /\ Begins /\ revisions < MaxRevisions
    /\ validateComposeDefinition(d) /\ apps[k] = NONE
    /\ revisions' = revisions + 1
    /\ apps' = [apps EXCEPT ![k] = NewApp(revisions + 1, d)]
    /\ job' = [Idle EXCEPT !.op = "create", !.key = k, !.app = apps'[k], !.at = "dir"]
    /\ UNCHANGED <<dirs, containers, proposals, ran, up, mounted, asked, trouble>>

\* An environment value that the request leaves out is the stored one.
normalizeUpdateInput(app, r, d, keepEnv) ==
    [app EXCEPT !.rev = r, !.def = d, !.env = IF keepEnv THEN @ ELSE r]

\* A stale expectedRevision is refused; every accepted save is a new revision.
updateApp(k, d, keepEnv) ==
    /\ Begins /\ revisions < MaxRevisions
    /\ apps[k] # NONE /\ validateComposeDefinition(d)
    /\ revisions' = revisions + 1
    /\ apps' = [apps EXCEPT ![k] = normalizeUpdateInput(@, revisions + 1, d, keepEnv)]
    /\ job' = [Idle EXCEPT !.op = "update", !.key = k, !.app = apps'[k], !.old = apps[k],
                           !.at = "dir"]
    /\ UNCHANGED <<dirs, containers, proposals, ran, up, mounted, asked, trouble>>

isProjectInUse(k) == \E s \in Services : containers[k][s] # NONE

Owned(k, app) == dirs[k] # NONE => dirs[k].marker = app.id

\* The copy goes first, the row last.
deleteApp(k) ==
    /\ Begins
    /\ apps[k] # NONE /\ ~isProjectInUse(k) /\ Owned(k, apps[k])
    /\ job' = [Idle EXCEPT !.op = "delete", !.key = k, !.app = apps[k], !.at = "remove"]
    /\ UNCHANGED <<apps, dirs, containers, proposals, ran, up, mounted, revisions, asked, trouble>>

run_any_revision(p) ==
    /\ Begins /\ p \in proposals
    /\ proposals' = proposals \ {p}
    /\ IF apps[p.key] # NONE /\ apps[p.key].id = p.id
       THEN job' = [Idle EXCEPT !.op = "run", !.key = p.key, !.app = apps[p.key], !.prop = p,
                                !.at = "dir"]
       ELSE UNCHANGED job
    /\ UNCHANGED <<apps, dirs, containers, ran, up, mounted, revisions, asked, trouble>>

\* An approved action runs only if the app is still at the revision that was
\* approved; otherwise the operation fails.
runProjectAction(p) ==
    /\ Begins /\ p \in proposals
    /\ proposals' = proposals \ {p}
    /\ IF apps[p.key] # NONE /\ apps[p.key].id = p.id /\ apps[p.key].rev = p.rev
       THEN job' = [Idle EXCEPT !.op = "run", !.key = p.key, !.app = apps[p.key], !.prop = p,
                                !.at = "dir"]
       ELSE UNCHANGED job
    /\ UNCHANGED <<apps, dirs, containers, ran, up, mounted, revisions, asked, trouble>>

\* buildDockerProposal records the revision; a service is no target of down.
buildDockerProposal(k, a, s) ==
    /\ up /\ asked < MaxProposals
    /\ apps[k] # NONE
    /\ a = "compose_down" => s = NONE
    /\ asked' = asked + 1
    /\ proposals' = proposals \cup {[key |-> k, id |-> apps[k].id, rev |-> apps[k].rev,
                                     risk |-> IF a = "compose_down" THEN "high"
                                              ELSE collectServiceRisk(apps[k].def),
                                     action |-> a, service |-> s]}
    /\ UNCHANGED <<apps, dirs, containers, job, ran, up, mounted, revisions, trouble>>

-----------------------------------------------------------------------------
(* materializeApp: the directory, then its marker and its files, each        *)
(* replaced atomically.                                                      *)

NextAt == [dir |-> "marker", marker |-> "compose", compose |-> "env", env |-> "done"]

\* A directory whose marker is missing or names another app is left alone.
materializeApp ==
    /\ up /\ job.at \in DOMAIN NextAt
    /\ dirs' = [dirs EXCEPT ![job.key] =
                  IF job.at = "dir" THEN (IF @ = NONE THEN Empty ELSE @)
                  ELSE [@ EXCEPT ![job.at] = CASE job.at = "marker" -> job.app.id
                                               [] job.at = "compose" -> job.app.rev
                                               [] job.at = "env" -> job.app.env]]
    /\ job.at = "dir" => Owned(job.key, job.app)
    /\ job' = [job EXCEPT !.at = NextAt[job.at]]
    /\ UNCHANGED <<apps, containers, proposals, ran, up, mounted, revisions, asked, trouble>>

\* The row as it was before the save, deployed revision included.
restoreDockerComposeApp(old) == old

\* What the operation does when a write fails or the directory is not its own.
MaterializeFails ==
    /\ up /\ job.at \in DOMAIN NextAt
    /\ IF job.at = "dir" /\ ~Owned(job.key, job.app) THEN UNCHANGED trouble ELSE Fault
    /\ LET k == job.key IN
       CASE job.op = "create" ->
              /\ apps' = [apps EXCEPT ![k] = NONE]
              /\ dirs' = IF Owned(k, job.app) THEN [dirs EXCEPT ![k] = NONE] ELSE dirs
              /\ job' = Idle
         [] job.op = "update" ->
              /\ apps' = [apps EXCEPT ![k] = restoreDockerComposeApp(job.old)]
              /\ job' = [Idle EXCEPT !.op = "rollback", !.key = k, !.app = job.old, !.at = "dir"]
              /\ UNCHANGED dirs
         [] OTHER ->
              /\ job' = IF job.op = "reconcile" THEN [job EXCEPT !.at = "done"] ELSE Idle
              /\ UNCHANGED <<apps, dirs>>
    /\ UNCHANGED <<containers, proposals, ran, up, mounted, revisions, asked>>

\* rm -r takes the files in any order: the marker may go before the others.
removeMaterializedApp ==
    /\ up /\ job.at = "remove"
    /\ \/ /\ dirs[job.key] # NONE /\ dirs[job.key].marker # NONE
          /\ dirs' = [dirs EXCEPT ![job.key].marker = NONE]
          /\ UNCHANGED <<apps, job>>
       \/ /\ dirs' = [dirs EXCEPT ![job.key] = NONE]
          /\ apps' = [apps EXCEPT ![job.key] = NONE]
          /\ job' = Idle
    /\ UNCHANGED <<containers, proposals, ran, up, mounted, revisions, asked, trouble>>

Published ==
    /\ up /\ job.at = "done" /\ job.op \in {"create", "update", "rollback"}
    /\ job' = Idle
    /\ UNCHANGED <<apps, dirs, containers, proposals, ran, up, mounted, revisions, asked, trouble>>

\* A compose command acts on the services it names; one that fails or times
\* out has acted on some of them.
composeActionArgs(p) == IF p.service = NONE THEN Services ELSE {p.service}

Acted(k, S, a) ==
    [containers EXCEPT ![k] =
       [s \in Services |->
          IF s \notin S THEN @[s]
          ELSE CASE a = "compose_up" -> dirs[k].compose
                 [] a = "compose_down" -> NONE
                 [] OTHER -> @[s]]]

runCommand ==
    /\ up /\ job.op = "run" /\ job.at = "done"
    /\ LET p == job.prop
           all == composeActionArgs(p)
       IN \/ /\ containers' = Acted(job.key, all, p.action)
             /\ job' = [job EXCEPT !.at = "ran"]
             /\ ran' = [approved |-> p.rev, env |-> apps[job.key].env, dir |-> dirs[job.key]]
             /\ UNCHANGED trouble
          \/ /\ Fault
             /\ \E S \in SUBSET all : containers' = Acted(job.key, S, p.action)
             /\ job' = Idle
             /\ UNCHANGED ran
    /\ UNCHANGED <<apps, dirs, proposals, up, mounted, revisions, asked>>

mark_any_up ==
    /\ up /\ job.op = "run" /\ job.at = "ran"
    /\ apps' = IF job.prop.action = "compose_up" /\ apps[job.key].rev = job.app.rev
               THEN [apps EXCEPT ![job.key].deployed = job.app.rev] ELSE apps
    /\ job' = Idle
    /\ ran' = NONE
    /\ UNCHANGED <<dirs, containers, proposals, up, mounted, revisions, asked, trouble>>

\* Only an Up of the whole project marks the revision as deployed.
markDockerComposeAppDeployed ==
    /\ up /\ job.op = "run" /\ job.at = "ran"
    /\ apps' = IF /\ job.prop.action = "compose_up" /\ job.prop.service = NONE
                  /\ apps[job.key].rev = job.app.rev
               THEN [apps EXCEPT ![job.key].deployed = job.app.rev] ELSE apps
    /\ job' = Idle
    /\ ran' = NONE
    /\ UNCHANGED <<dirs, containers, proposals, up, mounted, revisions, asked, trouble>>

\* At startup every app is published in turn; a failure does not stop the next.
reconcileAll ==
    /\ up /\ job.op = "reconcile" /\ job.at = "done"
    /\ IF job.left = {} THEN job' = Idle
       ELSE \E k \in job.left :
              job' = [job EXCEPT !.key = k, !.left = @ \ {k}, !.app = apps[k], !.at = "dir"]
    /\ UNCHANGED <<apps, dirs, containers, proposals, ran, up, mounted, revisions, asked, trouble>>

-----------------------------------------------------------------------------
\* Any container may be removed with a container action of its own.
removeContainer(k, s) ==
    /\ up /\ containers[k][s] # NONE
    /\ containers' = [containers EXCEPT ![k][s] = NONE]
    /\ UNCHANGED <<apps, dirs, job, proposals, ran, up, mounted, revisions, asked, trouble>>

\* The API stops; a compose command it was running has done part of its work.
Crash ==
    /\ up /\ Fault
    /\ IF job.op = "run" /\ job.at = "done"
       THEN \E S \in SUBSET composeActionArgs(job.prop) :
              containers' = Acted(job.key, S, job.prop.action)
       ELSE UNCHANGED containers
    /\ up' = FALSE /\ job' = Idle /\ ran' = NONE
    /\ UNCHANGED <<apps, dirs, proposals, mounted, revisions, asked>>

Start ==
    /\ ~up /\ up' = TRUE
    /\ job' = [Idle EXCEPT !.op = "reconcile", !.left = {k \in Keys : apps[k] # NONE}]
    /\ UNCHANGED <<apps, dirs, containers, proposals, ran, mounted, revisions, asked, trouble>>

\* The NAS root comes and goes.
Mount ==
    /\ mounted' = ~mounted
    /\ UNCHANGED <<apps, dirs, containers, job, proposals, ran, up, revisions, asked, trouble>>

Service == \/ materializeApp \/ MaterializeFails \/ removeMaterializedApp \/ Published
           \/ runCommand \/ markDockerComposeAppDeployed \/ reconcileAll

Next ==
    \/ \E k \in Keys :
         \/ deleteApp(k)
         \/ \E d \in Definitions :
              createApp(k, d) \/ \E keepEnv \in BOOLEAN : updateApp(k, d, keepEnv)
         \/ \E a \in Actions, s \in Services \cup {NONE} : buildDockerProposal(k, a, s)
         \/ \E s \in Services : removeContainer(k, s)
    \/ \E p \in proposals : runProjectAction(p)
    \/ Service \/ Crash \/ Start \/ Mount

Fairness == WF_vars(Service) /\ WF_vars(Start)

Spec == Init /\ [][Next]_vars /\ Fairness

-----------------------------------------------------------------------------
needsDeploy(app) == app.deployed # app.rev

\* An app that does not ask to be deployed (needsDeploy in publicSummary is
\* false) runs what it says: no container of the project was created from
\* another revision, however Up commands, failures, saves and rollbacks mix.
DeployedIsRunning ==
    \A k \in Keys :
      (apps[k] # NONE /\ ~needsDeploy(apps[k])) =>
        \A s \in Services : containers[k][s] \in {NONE, apps[k].rev}

\* A compose command runs with the revision its approval named, which is also
\* what the published file holds (runProjectAction checks composeRevision and
\* publishes before it runs).
RunsWhatWasApproved ==
    ran # NONE => ran.dir.compose = ran.approved /\ ran.dir.env = ran.env

\* The published copy can always be made again from the database: once no
\* fault occurs any more, every app's directory comes to hold its definition.
\* The code does not keep this in every case: README.md says when.
CopiesAreRebuilt ==
    <>[](up => \A k \in Keys :
           apps[k] # NONE => (dirs[k] # NONE /\ dirs[k].marker = apps[k].id))
=============================================================================
