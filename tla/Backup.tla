------------------------------- MODULE Backup -------------------------------
(***************************************************************************)
(* Backups and operations: the backup CLI (apps/backup), the one-shot      *)
(* health and maintenance tasks (apps/ops, packages/system-health) and the *)
(* leases, run rows and alerts they share in the database.  Every process  *)
(* is started by a timer or by hand and may die or be suspended at any     *)
(* point; a suspended process loses its lease after thirty minutes.        *)
(***************************************************************************)
EXTENDS Naturals, Sequences, FiniteSets

CONSTANTS Roots,       \* NAS roots; "target" names the backup repository's mount
          Procs,       \* backup CLI processes that may run at the same time
          Kinds,       \* what they are started for
          MaxRuns,     \* bound: leases taken by the backup CLI
          MaxTrouble,  \* bound: faults
          NONE

VARIABLES locks,     \* execution_locks
          runs,      \* backup_runs with their failures
          repo,      \* snapshots in the restic repository: <<run, what>>
          procs,     \* the backup processes
          maint,     \* the maintenance task
          restores,  \* restore directories in the staging area, and how old they are
          health,    \* the health task
          readiness, \* nas_root_readiness: roots last seen ready
          alerts,    \* active health_alerts
          ops,       \* the latest row of ops_runs of each task
          mounted,   \* what is mounted now
          tickets,   \* owners handed out so far
          trouble    \* faults so far

backup == <<locks, runs, repo, procs, restores, tickets>>
tasks  == <<maint, health, readiness, alerts, ops>>
vars   == <<backup, tasks, mounted, trouble>>

Things == Roots \cup {"state"}

Idle == [pc |-> "idle", kind |-> NONE, run |-> 0, owner |-> 0, busy |-> FALSE,
         left |-> {}, fails |-> {}, snaps |-> {}]

Init ==
    /\ locks = [n \in {"backup", "ops:maintenance"} |-> NONE]
    /\ runs = <<>>
    /\ repo = {}
    /\ procs = [p \in Procs |-> Idle]
    /\ maint = [pc |-> "idle", owner |-> 0]
    /\ restores = {}
    /\ health = [pc |-> "idle", issues |-> {}]
    /\ readiness = {}
    /\ alerts = {}
    /\ ops = [t \in {"health", "maintenance"} |-> [status |-> "never_run", old |-> FALSE]]
    /\ mounted = Roots \cup {"target"}
    /\ tickets = 0
    /\ trouble = 0

-----------------------------------------------------------------------------
(* Leases and run rows.                                                    *)

acquireExecutionLock(name, owner) ==
    /\ locks[name] # NONE => locks[name].old
    /\ locks' = [locks EXCEPT ![name] = [owner |-> owner, old |-> FALSE]]

isExecutionLockOwner(name, owner) == locks[name] # NONE /\ locks[name].owner = owner

Released(name, owner) ==
    [locks EXCEPT ![name] = IF isExecutionLockOwner(name, owner) THEN NONE ELSE @]

startBackupRun(kind) ==
    Append([i \in DOMAIN runs |->
              IF runs[i].status = "running" THEN [runs[i] EXCEPT !.status = "interrupted"]
                                            ELSE runs[i]],
           [kind |-> kind, status |-> "running", snaps |-> {}, check |-> TRUE])

\* Only a run that is still running can be finished.
finishBackupRun(r, status, snaps) ==
    IF runs[r].status # "running" THEN runs
    ELSE [runs EXCEPT ![r].status = status, ![r].snaps = snaps]

\* recordBackupFailure with REPO_CHECK_FAILED, whatever became of the run.
RecordFailure(rows, r, check) ==
    IF check THEN rows ELSE [rows EXCEPT ![r].check = FALSE]

checkMountReadiness(what) == what \in mounted

-----------------------------------------------------------------------------
(* The backup CLI.                                                         *)

FirstStep(kind) ==
    CASE kind = "init" -> "init" [] kind = "restore" -> "check" [] OTHER -> "target"

\* runBackup, checkBackup, restoreBackup and initBackup start the same way.
Begin(p, kind) ==
    /\ procs[p] = Idle /\ tickets < MaxRuns
    /\ kind = "init" => checkMountReadiness("target")
    /\ acquireExecutionLock("backup", tickets + 1)
    /\ tickets' = tickets + 1
    /\ runs' = IF kind = "init" THEN runs ELSE startBackupRun(kind)
    /\ procs' = [procs EXCEPT ![p] = [Idle EXCEPT !.pc = FirstStep(kind), !.kind = kind,
                                                   !.run = Len(runs'), !.owner = tickets + 1]]
    /\ UNCHANGED <<repo, restores, tasks, mounted, trouble>>

Held(p) == isExecutionLockOwner("backup", procs[p].owner)

\* Every way out ends in the finally block: the lease is released if it is
\* still this process's.
Leave(p, rows) ==
    /\ runs' = rows
    /\ locks' = Released("backup", procs[p].owner)
    /\ procs' = [procs EXCEPT ![p] = Idle]
    /\ UNCHANGED <<repo, restores, tickets, tasks, mounted, trouble>>

\* An error is caught and recorded, except by checkBackup and initBackup,
\* which let it escape.
Throw(p, check) ==
    Leave(p, IF procs[p].kind \in {"check", "init"} /\ check THEN runs
             ELSE RecordFailure(finishBackupRun(procs[p].run, "failed", {}), procs[p].run, check))

GoTo(p, pc) ==
    /\ procs' = [procs EXCEPT ![p].pc = pc, ![p].busy = FALSE]
    /\ UNCHANGED <<locks, runs, repo, restores, tickets, tasks, mounted, trouble>>

CheckTarget(p) ==
    /\ procs[p].pc = "target"
    /\ IF ~Held(p) THEN Throw(p, TRUE)
       ELSE IF checkMountReadiness("target")
            THEN GoTo(p, IF procs[p].kind = "check" THEN "check" ELSE "roots")
            ELSE Leave(p, finishBackupRun(procs[p].run, "failed", {}))

\* A root that is not ready is left out and makes the run fail at its end.
CheckRoots(p) ==
    /\ procs[p].pc = "roots"
    /\ procs' = [procs EXCEPT ![p].pc = "stage", ![p].left = Roots \cap mounted,
                              ![p].fails = Roots \ mounted]
    /\ readiness' = Roots \cap mounted
    /\ UNCHANGED <<locks, runs, repo, restores, tickets, maint, health, alerts, ops,
                   mounted, trouble>>

\* The database copy, the trash and their manifest are staged, or it fails.
StageState(p) == procs[p].pc = "stage" /\ (GoTo(p, "root") \/ Throw(p, TRUE))

Restic == {"root", "state", "visible", "check", "prune", "init", "dry", "restore"}

\* Each restic command is preceded by ensureLease and may take long.
ensureLease(p) ==
    /\ procs[p].pc \in Restic /\ ~procs[p].busy
    /\ ~(procs[p].pc = "root" /\ procs[p].left = {})
    /\ IF Held(p)
       THEN /\ procs' = [procs EXCEPT ![p].busy = TRUE]
            /\ UNCHANGED <<locks, runs, repo, restores, tickets, tasks, mounted, trouble>>
       ELSE Throw(p, TRUE)

Fails == trouble < MaxTrouble /\ trouble' = trouble + 1

RootsDone(p) == procs[p].pc = "root" /\ procs[p].left = {} /\ GoTo(p, "state")

\* restic backup of one root: an error or an answer without a snapshot id is
\* recorded and the next root is taken.
BackupRoot(p, r) ==
    /\ procs[p].pc = "root" /\ procs[p].busy /\ r \in procs[p].left
    /\ \/ /\ repo' = repo \cup {<<procs[p].run, r>>}
          /\ procs' = [procs EXCEPT ![p].left = @ \ {r}, ![p].busy = FALSE,
                                    ![p].snaps = @ \cup {r}]
       \/ /\ procs' = [procs EXCEPT ![p].left = @ \ {r}, ![p].busy = FALSE,
                                    ![p].fails = @ \cup {r}]
          /\ UNCHANGED repo
    /\ UNCHANGED <<locks, runs, restores, tickets, tasks, mounted, trouble>>

\* The staged database copy, trash and manifest are backed up last.
BackupState(p) ==
    /\ procs[p].pc = "state" /\ procs[p].busy
    /\ \/ /\ repo' = repo \cup {<<procs[p].run, "state">>}
          /\ procs' = [procs EXCEPT ![p].pc = "visible", ![p].busy = FALSE,
                                    ![p].snaps = @ \cup {"state"}]
          /\ UNCHANGED <<locks, runs, restores, tickets, tasks, mounted, trouble>>
       \/ Throw(p, TRUE)

snapshotVisible(p) == \A s \in procs[p].snaps : <<procs[p].run, s>> \in repo

CheckVisible_ignores_failures(p) ==
    /\ procs[p].pc = "visible" /\ procs[p].busy
    /\ IF snapshotVisible(p)
       THEN GoTo(p, IF procs[p].kind = "weekly" THEN "check" ELSE "finish")
       ELSE Throw(p, TRUE)

\* A root that failed makes the whole run fail, with the snapshots it has.
CheckVisible(p) ==
    /\ procs[p].pc = "visible" /\ procs[p].busy
    /\ \/ Throw(p, TRUE)
       \/ /\ snapshotVisible(p)
          /\ IF procs[p].fails # {}
             THEN Leave(p, finishBackupRun(procs[p].run, "failed", procs[p].snaps))
             ELSE GoTo(p, IF procs[p].kind = "weekly" THEN "check" ELSE "finish")

\* restic check, in a weekly run, a check run or before a restore.
CheckRepository(p) ==
    /\ procs[p].pc = "check" /\ procs[p].busy
    /\ \/ CASE procs[p].kind = "weekly" -> GoTo(p, "prune")
            [] procs[p].kind = "check" -> GoTo(p, "finish")
            [] OTHER -> /\ restores' = restores \cup {[owner |-> procs[p].owner, old |-> FALSE]}
                        /\ procs' = [procs EXCEPT ![p].pc = "dry", ![p].busy = FALSE]
                        /\ UNCHANGED <<locks, runs, repo, tickets, tasks, mounted, trouble>>
       \/ Throw(p, FALSE)

Newest == {s \in repo : \A t \in repo : t[2] = s[2] => t[1] <= s[1]}

\* restic forget may remove older snapshots, never the newest of a path.
Prune(p) ==
    /\ procs[p].pc = "prune" /\ procs[p].busy
    /\ \/ /\ procs' = [procs EXCEPT ![p].pc = "finish", ![p].busy = FALSE]
          /\ repo' \in {repo, Newest}
          /\ UNCHANGED <<locks, runs, restores, tickets, tasks, mounted, trouble>>
       \/ Throw(p, TRUE)

RestoreStep(p) ==
    /\ procs[p].pc \in {"dry", "restore"} /\ procs[p].busy
    /\ \/ GoTo(p, IF procs[p].pc = "dry" THEN "restore" ELSE "manifest")
       \/ Throw(p, TRUE)

\* What was restored must match its manifest.
ValidateManifest(p) == procs[p].pc = "manifest" /\ (GoTo(p, "finish") \/ Throw(p, TRUE))

InitStep(p) == procs[p].pc = "init" /\ procs[p].busy /\ Leave(p, runs)

Finish(p) ==
    /\ procs[p].pc = "finish"
    /\ Leave(p, finishBackupRun(procs[p].run, "completed", procs[p].snaps))

-----------------------------------------------------------------------------
(* Tracked tasks: health and maintenance.                                  *)

\* A row whose heartbeat stopped for two minutes is marked interrupted when
\* the task is started again; before that the start is refused.
startOpsRun(t) ==
    /\ ops[t].status # "running" \/ ops[t].old
    /\ ops' = [ops EXCEPT ![t] = [status |-> "running", old |-> FALSE]]

finishOpsRun(t, status) ==
    ops' = [ops EXCEPT ![t].status = IF @ = "running" THEN status ELSE @]

StartMaintenance ==
    /\ maint.pc = "idle" /\ startOpsRun("maintenance")
    /\ tickets < MaxRuns
    /\ tickets' = tickets + 1
    /\ \/ /\ acquireExecutionLock("ops:maintenance", tickets + 1)
          /\ maint' = [pc |-> "clean", owner |-> tickets + 1]
       \/ /\ locks["ops:maintenance"] # NONE /\ ~locks["ops:maintenance"].old
          /\ maint' = [pc |-> "fail", owner |-> tickets + 1]
          /\ UNCHANGED locks
    /\ UNCHANGED <<runs, repo, procs, restores, health, readiness, alerts, mounted, trouble>>

\* cleanupRestoreStaging is deferred while a backup holds its lease.
cleanupRestoreStaging ==
    /\ maint.pc = "clean"
    /\ \/ /\ acquireExecutionLock("backup", maint.owner)
          /\ maint' = [maint EXCEPT !.pc = "remove"]
       \/ /\ locks["backup"] # NONE /\ ~locks["backup"].old
          /\ maint' = [maint EXCEPT !.pc = "retain"]
          /\ UNCHANGED locks
    /\ UNCHANGED <<runs, repo, procs, restores, tickets, health, readiness, alerts, ops,
                   mounted, trouble>>

RemoveStaging ==
    /\ maint.pc = "remove"
    /\ \/ /\ isExecutionLockOwner("backup", maint.owner)
          /\ \E d \in restores : d.old /\ restores' = restores \ {d}
          /\ UNCHANGED <<locks, maint, ops>>
       \/ /\ \/ ~isExecutionLockOwner("backup", maint.owner)
             \/ \A d \in restores : ~d.old
          /\ locks' = Released("backup", maint.owner)
          /\ maint' = [maint EXCEPT !.pc =
                         IF isExecutionLockOwner("backup", maint.owner) THEN "retain" ELSE "fail"]
          /\ UNCHANGED <<restores, ops>>
    /\ UNCHANGED <<runs, repo, procs, tickets, health, readiness, alerts, mounted, trouble>>

\* runOpsMaintenanceRetention drops old history; the task then ends.
EndMaintenance ==
    /\ maint.pc \in {"retain", "fail"}
    /\ finishOpsRun("maintenance",
                    IF maint.pc = "retain" /\ isExecutionLockOwner("ops:maintenance", maint.owner)
                    THEN "completed" ELSE "failed")
    /\ locks' = Released("ops:maintenance", maint.owner)
    /\ maint' = [pc |-> "idle", owner |-> 0]
    /\ UNCHANGED <<runs, repo, procs, restores, tickets, health, readiness, alerts,
                   mounted, trouble>>

Scheduled == {i \in DOMAIN runs : runs[i].kind \in {"daily", "weekly"}}
Checking  == {i \in DOMAIN runs : runs[i].kind \in {"daily", "weekly", "check"}}
Latest(S) == CHOOSE i \in S : \A j \in S : j <= i

getOpsTaskOverview(t) ==
    CASE ops[t].status \in {"failed", "interrupted"} -> "failed"
      [] ops[t].status = "running" /\ ops[t].old -> "stale"
      [] OTHER -> ops[t].status

\* What evaluateSystemHealth reports of the roots, the backups and the tasks.
evaluateSystemHealth(seen) ==
    {<<"mount_not_ready", r>> : r \in Roots \ seen}
    \cup {<<"backup_target_not_ready", "system">> : x \in {"target"} \ mounted}
    \cup {<<"backup_failed", "system">> :
            x \in {i \in Scheduled : i = Latest(Scheduled)
                                     /\ runs[i].status \in {"failed", "interrupted"}}}
    \cup {<<"repo_check_failed", "system">> :
            x \in {i \in Checking : i = Latest(Checking)
                                    /\ \/ ~runs[i].check
                                       \/ runs[i].kind = "check"
                                          /\ runs[i].status \in {"failed", "interrupted"}}}
    \cup {<<"backup_stale", "system">> :
            x \in {1} \ {1 : i \in {j \in Scheduled : runs[j].status = "completed"}}}
    \cup {<<"ops_maintenance_unhealthy", "system">> :
            x \in {t \in {"maintenance"} : getOpsTaskOverview(t) \in {"failed", "stale"}}}

refreshRootReadiness ==
    /\ health.pc = "idle" /\ startOpsRun("health")
    /\ readiness' = Roots \cap mounted
    /\ health' = [health EXCEPT !.pc = "evaluate"]
    /\ UNCHANGED <<backup, maint, alerts, mounted, trouble>>

\* The issues are collected; the VOD player is asked before they are stored.
EvaluateHealth ==
    /\ health.pc = "evaluate"
    /\ health' = [pc |-> "reconcile", issues |-> evaluateSystemHealth(readiness)]
    /\ UNCHANGED <<backup, maint, readiness, alerts, ops, mounted, trouble>>

reconcile_keeps_alerts ==
    /\ health.pc = "reconcile"
    /\ alerts' = alerts \cup health.issues
    /\ health' = [pc |-> "idle", issues |-> {}]
    /\ finishOpsRun("health", "completed")
    /\ UNCHANGED <<backup, maint, readiness, mounted, trouble>>

reconcileHealthAlerts ==
    /\ health.pc = "reconcile"
    /\ alerts' = health.issues
    /\ health' = [pc |-> "idle", issues |-> {}]
    /\ finishOpsRun("health", "completed")
    /\ UNCHANGED <<backup, maint, readiness, mounted, trouble>>

-----------------------------------------------------------------------------
(* Faults and the passing of time.                                         *)

\* A process dies: its lease and its rows stay as they are.
Crash ==
    /\ Fails
    /\ \/ /\ \E p \in Procs : procs[p] # Idle /\ procs' = [procs EXCEPT ![p] = Idle]
          /\ UNCHANGED <<maint, health>>
       \/ /\ maint.pc # "idle" /\ maint' = [pc |-> "idle", owner |-> 0]
          /\ UNCHANGED <<procs, health>>
       \/ /\ health.pc # "idle" /\ health' = [pc |-> "idle", issues |-> {}]
          /\ UNCHANGED <<procs, maint>>
    /\ UNCHANGED <<locks, runs, repo, restores, tickets, readiness, alerts, ops, mounted>>

Owners == {procs[p].owner : p \in Procs} \cup {maint.owner}

\* A lease grows old when its owner is gone, or was suspended.
LeaseExpires(name) ==
    /\ locks[name] # NONE /\ ~locks[name].old
    /\ IF locks[name].owner \in Owners THEN Fails ELSE UNCHANGED trouble
    /\ locks' = [locks EXCEPT ![name].old = TRUE]
    /\ UNCHANGED <<runs, repo, procs, restores, tickets, tasks, mounted>>

\* An awakened owner's timer renews its lease, unless it was taken over.
heartbeatExecutionLock(name) ==
    /\ locks[name] # NONE /\ locks[name].old /\ locks[name].owner \in Owners
    /\ locks' = [locks EXCEPT ![name].old = FALSE]
    /\ UNCHANGED <<runs, repo, procs, restores, tickets, tasks, mounted, trouble>>

OpsRowExpires(t) ==
    /\ ops[t].status = "running" /\ ~ops[t].old
    /\ IF t = "health" THEN health.pc = "idle" ELSE maint.pc = "idle"
    /\ ops' = [ops EXCEPT ![t].old = TRUE]
    /\ UNCHANGED <<backup, maint, health, readiness, alerts, mounted, trouble>>

Mounts ==
    /\ \/ /\ Fails
          /\ \E m \in mounted : mounted' = mounted \ {m}
       \/ /\ \E m \in (Roots \cup {"target"}) \ mounted : mounted' = mounted \cup {m}
          /\ UNCHANGED trouble
    /\ UNCHANGED <<backup, tasks>>

StagingAges ==
    /\ \E d \in restores : ~d.old /\ restores' = (restores \ {d}) \cup {[d EXCEPT !.old = TRUE]}
    /\ UNCHANGED <<locks, runs, repo, procs, tickets, tasks, mounted, trouble>>

ProcStep(p) ==
    \/ CheckTarget(p) \/ CheckRoots(p) \/ StageState(p) \/ ensureLease(p) \/ RootsDone(p)
    \/ (\E r \in Roots : BackupRoot(p, r))
    \/ BackupState(p) \/ CheckVisible(p) \/ CheckRepository(p) \/ Prune(p)
    \/ RestoreStep(p) \/ ValidateManifest(p) \/ InitStep(p) \/ Finish(p)

MaintStep == cleanupRestoreStaging \/ RemoveStaging \/ EndMaintenance
HealthStep == refreshRootReadiness \/ EvaluateHealth \/ reconcileHealthAlerts

Next ==
    \/ \E p \in Procs : (\E k \in Kinds : Begin(p, k)) \/ ProcStep(p)
    \/ StartMaintenance \/ MaintStep \/ HealthStep
    \/ Crash \/ Mounts \/ StagingAges
    \/ \E n \in {"backup", "ops:maintenance"} : LeaseExpires(n) \/ heartbeatExecutionLock(n)
    \/ \E t \in {"health", "maintenance"} : OpsRowExpires(t)

Fairness ==
    /\ \A p \in Procs : WF_vars(ProcStep(p))
    /\ WF_vars(MaintStep) /\ WF_vars(HealthStep)
    /\ \A t \in {"health", "maintenance"} : WF_vars(OpsRowExpires(t))

Spec == Init /\ [][Next]_vars /\ Fairness

-----------------------------------------------------------------------------
\* A daily or weekly run that is recorded as completed took a snapshot of
\* every configured root and of the state, and they were in the repository
\* (failures, snapshotVisible and finishBackupRun in runBackup).
CompletedIsWhole ==
    \A i \in Scheduled : runs[i].status = "completed" => runs[i].snaps = Things

\* The alerts follow the system: once nothing changes any more they are what
\* an evaluation would report (reconcileHealthAlerts also resolves what is no
\* longer an issue).
Settled == alerts = evaluateSystemHealth(Roots \cap mounted)

\* See Settled: the alerts come to rest.
AlertsSettle == <>[]Settled
=============================================================================
