------------------------------ MODULE AgentJobs -----------------------------
(***************************************************************************)
(* The agent job pipeline: the API process (apps/api) and the worker       *)
(* process (apps/worker) share the jobs and approvals tables of SQLite.    *)
(*                                                                         *)
(* Every db.transaction and every single statement is one atomic step.     *)
(* The API is one thread: once a handler is past an await it runs its      *)
(* remaining statements before any other handler runs, but the worker may  *)
(* run between two of them and the API may die between two of them.  The   *)
(* variable api holds the statements the running handler has left.         *)
(* The worker starts a tick every pollMs whether or not earlier ticks have *)
(* finished, so several turns are in flight at once.                       *)
(***************************************************************************)
EXTENDS Naturals, Sequences, JobTable

CONSTANTS
  Jobs,           \* job ids
  Approvals,      \* approval ids
  Sessions,       \* agent session ids
  SessionOf,      \* the session each job belongs to
  LocalFallback,  \* ZOS_ENABLE_LOCAL_AGENT_FALLBACK = "1"
  MaxCrashes,     \* bound on process crashes and worker restarts
  NoJob           \* marks an approval row that does not exist

ASSUME JobsAssumption ==
  /\ NoJob \notin Jobs
  /\ SessionOf \in [Jobs -> Sessions]
  /\ LocalFallback \in BOOLEAN
  /\ MaxCrashes \in Nat

VARIABLES
  jobStatus,   \* jobs.status
  notif,       \* operation_notifications.status of the job
  created,     \* the jobs of user messages in created_at order
  sessions,    \* rows of agent_sessions
  appr,        \* pending_approvals.status
  apprJob,     \* pending_approvals.job_id
  apprKind,    \* pending_approvals.kind: "tool", or "operation" for the others
  told,        \* terminal events appended to agent_events for the job
  api,         \* what the running API handler still has to do
  applying,    \* approve handlers suspended in an await
  direct,      \* direct-action handlers suspended in an await
  turn,        \* the worker tick that runs the job
  call,        \* the Pi tool call that waits for the approval
  worker,      \* the worker process: "up", "draining" or "down"
  effects,     \* history: how often the approved change was carried out
  granted,     \* history: approvals that were ever approved
  shielded,    \* history: approvals that cancelling their job expired
  crashes      \* bound counter

dbVars == <<jobStatus, notif, created, sessions, appr, apprJob, apprKind, told>>
apiVars == <<api, applying, direct>>
workerVars == <<turn, call, worker>>
historyVars == <<effects, granted, shielded, crashes>>
vars == <<dbVars, apiVars, workerVars, historyVars>>

ApiIdle == [op |-> "idle", job |-> NoJob, to |-> "none", from |-> {}]

JobsOf(session) == {j \in Jobs : SessionOf[j] = session}
ApprovalsOf(j) == {a \in Approvals : apprJob[a] = j}

TypeOK ==
  /\ jobStatus \in [Jobs -> JobStatus]
  /\ notif \in [Jobs -> NotificationStatus]
  /\ created \in Seq(Jobs)
  /\ sessions \in SUBSET Sessions
  /\ appr \in [Approvals -> ApprovalStatus]
  /\ apprJob \in [Approvals -> Jobs \cup {NoJob}]
  /\ apprKind \in [Approvals -> {"none", "tool", "operation"}]
  /\ told \in [Jobs -> SUBSET TerminalJobStatus]
  /\ api \in [op : {"idle", "approval", "job", "event"}, job : Jobs \cup {NoJob},
              to : JobStatus, from : SUBSET JobStatus]
  /\ applying \in [Approvals -> {"no", "applying", "applied"}]
  /\ direct \in [Jobs -> BOOLEAN]
  /\ turn \in [Jobs -> {"idle", "claimed", "thinking", "proposed", "completed", "failed"}]
  /\ call \in [Approvals -> {"no", "requested", "polling", "granted"}]
  /\ worker \in {"up", "draining", "down"}
  /\ effects \in [Approvals -> Nat]
  /\ granted \in SUBSET Approvals
  /\ shielded \in SUBSET Approvals
  /\ crashes \in Nat

Init ==
  /\ jobStatus = [j \in Jobs |-> "none"]
  /\ notif = [j \in Jobs |-> "none"]
  /\ created = << >>
  /\ sessions = Sessions
  /\ appr = [a \in Approvals |-> "none"]
  /\ apprJob = [a \in Approvals |-> NoJob]
  /\ apprKind = [a \in Approvals |-> "none"]
  /\ told = [j \in Jobs |-> {}]
  /\ api = ApiIdle
  /\ applying = [a \in Approvals |-> "no"]
  /\ direct = [j \in Jobs |-> FALSE]
  /\ turn = [j \in Jobs |-> "idle"]
  /\ call = [a \in Approvals |-> "no"]
  /\ worker = "up"
  /\ effects = [a \in Approvals |-> 0]
  /\ granted = {}
  /\ shielded = {}
  /\ crashes = 0

-----------------------------------------------------------------------------
(* Statements of packages/db that several handlers share.                  *)

(* Mutant: allowedFrom is ignored.                                         *)
UpdateJobStatusUnguarded(j, to, from) ==
  /\ jobStatus' = [jobStatus EXCEPT ![j] = to]
  /\ notif' = [notif EXCEPT ![j] = NotifyJob(@, to)]

(* updateJobStatus(job, to, allowedFrom) for a status other than           *)
(* "cancelled": no row matches when the job has left allowedFrom.          *)
UpdateJobStatus(j, to, from) ==
  IF jobStatus[j] \in from
  THEN /\ jobStatus' = [jobStatus EXCEPT ![j] = to]
       /\ notif' = [notif EXCEPT ![j] = NotifyJob(@, to)]
  ELSE UNCHANGED <<jobStatus, notif>>

(* updateApprovalStatus on a row in an allowed status.                     *)
UpdateApprovalStatus(a, to) ==
  /\ appr' = [appr EXCEPT ![a] = to]
  /\ notif' = [notif EXCEPT ![apprJob[a]] = NotifyApproval(@, to)]

(* The insert of a pending approval by any of its create functions.        *)
InsertApproval(a, j, kind) ==
  /\ appr[a] = "none"
  /\ appr' = [appr EXCEPT ![a] = "pending"]
  /\ apprJob' = [apprJob EXCEPT ![a] = j]
  /\ apprKind' = [apprKind EXCEPT ![a] = kind]

(* appendEvent of a terminal job event: the foreign key to agent_sessions  *)
(* makes the insert throw once the session is gone.                        *)
AppendEvent(j, type) ==
  IF SessionOf[j] \in sessions
  THEN told' = [told EXCEPT ![j] = @ \cup {type}]
  ELSE UNCHANGED told

JobRowExists(j) == jobStatus[j] \notin {"none", "deleted"}

-----------------------------------------------------------------------------
(* The API process.                                                        *)

(* POST /api/sessions/:id/messages.                                        *)
SendMessage(j) ==
  /\ api = ApiIdle /\ SessionOf[j] \in sessions
  /\ jobStatus[j] = "none"
  /\ jobStatus' = [jobStatus EXCEPT ![j] = "queued"]
  /\ created' = Append(created, j)
  /\ UNCHANGED <<notif, sessions, appr, apprJob, apprKind, told, apiVars, workerVars, historyVars>>

(* A proposal route: createActionMessageAndJob, then (next statement) the  *)
(* pending approval.  Bound: an approval id is left for it.                *)
ProposeAction(j) ==
  /\ api = ApiIdle /\ SessionOf[j] \in sessions
  /\ \E a \in Approvals : appr[a] = "none"
  /\ jobStatus[j] = "none"
  /\ jobStatus' = [jobStatus EXCEPT ![j] = "waiting_approval"]
  /\ notif' = [notif EXCEPT ![j] = "pending_approval"]
  /\ api' = [ApiIdle EXCEPT !.op = "approval", !.job = j]
  /\ UNCHANGED <<created, sessions, appr, apprJob, apprKind, told, applying, direct,
                 workerVars, historyVars>>

ProposeApproval(a) ==
  /\ api.op = "approval"
  /\ InsertApproval(a, api.job, "operation")
  /\ api' = ApiIdle
  /\ UNCHANGED <<jobStatus, notif, created, sessions, told, applying, direct,
                 workerVars, historyVars>>

(* A confirmed management action that needs no approval runs in the        *)
(* request: the job starts "running" and the handler awaits the host.      *)
StartDirect(j) ==
  /\ api = ApiIdle /\ SessionOf[j] \in sessions
  /\ jobStatus[j] = "none"
  /\ jobStatus' = [jobStatus EXCEPT ![j] = "running"]
  /\ notif' = [notif EXCEPT ![j] = "running"]
  /\ direct' = [direct EXCEPT ![j] = TRUE]
  /\ UNCHANGED <<created, sessions, appr, apprJob, apprKind, told, api, applying,
                 workerVars, historyVars>>

DirectReturns(j, to) ==
  /\ api = ApiIdle /\ direct[j]
  /\ direct' = [direct EXCEPT ![j] = FALSE]
  /\ api' = [op |-> "job", job |-> j, to |-> to, from |-> {"running"}]
  /\ UNCHANGED <<dbVars, applying, workerVars, historyVars>>

(* Mutant: approve takes a row that was already approved.                  *)
ApproveTwice(a) ==
  /\ api = ApiIdle
  /\ appr[a] \in {"pending", "approved"}
  /\ UpdateApprovalStatus(a, "approved")
  /\ granted' = granted \cup {a}
  /\ applying' = IF apprKind[a] = "operation" THEN [applying EXCEPT ![a] = "applying"]
                 ELSE applying
  /\ UNCHANGED <<jobStatus, created, sessions, apprJob, apprKind, told, api, direct,
                 workerVars, effects, shielded, crashes>>

(* POST /api/approvals/:id/approve up to its first await.                  *)
Approve(a) ==
  /\ api = ApiIdle
  /\ appr[a] = "pending"
  /\ UpdateApprovalStatus(a, "approved")
  /\ granted' = granted \cup {a}
  /\ applying' = IF apprKind[a] = "operation" THEN [applying EXCEPT ![a] = "applying"]
                 ELSE applying
  /\ UNCHANGED <<jobStatus, created, sessions, apprJob, apprKind, told, api, direct,
                 workerVars, effects, shielded, crashes>>

(* The awaited work of the approve handler reaches the disk or the host.   *)
ApplyChange(a) ==
  /\ applying[a] = "applying"
  /\ effects' = [effects EXCEPT ![a] = @ + 1]
  /\ applying' = [applying EXCEPT ![a] = "applied"]
  /\ UNCHANGED <<dbVars, api, direct, workerVars, granted, shielded, crashes>>

(* Mutant: the catch block forgets the approval.                           *)
ApplyReturnsForgets(a, to) ==
  /\ api = ApiIdle
  /\ \/ applying[a] = "applied" /\ to \in {"completed", "failed"}
     \/ applying[a] = "applying" /\ to = "failed"
  /\ IF appr[a] = "approved" /\ to = "completed"
     THEN UpdateApprovalStatus(a, "applied")
     ELSE UNCHANGED <<appr, notif>>
  /\ applying' = [applying EXCEPT ![a] = "no"]
  /\ api' = [op |-> "job", job |-> apprJob[a], to |-> to, from |-> {"waiting_approval"}]
  /\ UNCHANGED <<jobStatus, created, sessions, apprJob, apprKind, told, direct,
                 workerVars, historyVars>>

(* The approve handler resumes: it settles the approval here, and the job  *)
(* and the event in its next two statements.  Work that failed half way    *)
(* may already have changed something.                                     *)
ApplyReturns(a, to) ==
  /\ api = ApiIdle
  /\ \/ applying[a] = "applied" /\ to \in {"completed", "failed"}
     \/ applying[a] = "applying" /\ to = "failed"
  /\ IF appr[a] = "approved"
     THEN UpdateApprovalStatus(a, IF to = "completed" THEN "applied" ELSE "failed")
     ELSE UNCHANGED <<appr, notif>>
  /\ applying' = [applying EXCEPT ![a] = "no"]
  /\ api' = [op |-> "job", job |-> apprJob[a], to |-> to, from |-> {"waiting_approval"}]
  /\ UNCHANGED <<jobStatus, created, sessions, apprJob, apprKind, told, direct,
                 workerVars, historyVars>>

(* POST /api/approvals/:id/reject.                                         *)
Reject(a) ==
  /\ api = ApiIdle
  /\ appr[a] = "pending"
  /\ UpdateApprovalStatus(a, "rejected")
  /\ api' = IF apprKind[a] = "tool" THEN ApiIdle
            ELSE [op |-> "job", job |-> apprJob[a], to |-> "completed",
                  from |-> {"waiting_approval"}]
  /\ UNCHANGED <<jobStatus, created, sessions, apprJob, apprKind, told, applying, direct,
                 workerVars, historyVars>>

(* The last two statements of a handler: the job, then its event, which is *)
(* appended whether or not the job row changed.                            *)
SettleJob ==
  /\ api.op = "job"
  /\ UpdateJobStatus(api.job, api.to, api.from)
  /\ api' = [api EXCEPT !.op = "event"]
  /\ UNCHANGED <<created, sessions, appr, apprJob, apprKind, told, applying, direct,
                 workerVars, historyVars>>

SettleEvent ==
  /\ api.op = "event"
  /\ AppendEvent(api.job, api.to)
  /\ api' = ApiIdle
  /\ UNCHANGED <<jobStatus, notif, created, sessions, appr, apprJob, apprKind, applying,
                 direct, workerVars, historyVars>>

(* Mutant: cancel leaves the pending approvals of the job alone.           *)
CancelKeepsApprovals(j) ==
  /\ api = ApiIdle
  /\ jobStatus[j] \in ActiveJobStatus
  /\ jobStatus' = [jobStatus EXCEPT ![j] = "cancelled"]
  /\ notif' = [notif EXCEPT ![j] = NotifyJob(@, "cancelled")]
  /\ shielded' = shielded \cup {a \in ApprovalsOf(j) : appr[a] = "pending"}
  /\ api' = [op |-> "event", job |-> j, to |-> "cancelled", from |-> {}]
  /\ UNCHANGED <<created, sessions, appr, apprJob, apprKind, told, applying, direct, workerVars,
                 effects, granted, crashes>>

(* POST /api/jobs/:id/cancel: in one transaction the job is cancelled and  *)
(* its pending approvals expire.                                           *)
Cancel(j) ==
  LET expiring == {a \in ApprovalsOf(j) : appr[a] = "pending"} IN
  /\ api = ApiIdle
  /\ jobStatus[j] \in ActiveJobStatus
  /\ jobStatus' = [jobStatus EXCEPT ![j] = "cancelled"]
  /\ appr' = [a \in Approvals |-> IF a \in expiring THEN "expired" ELSE appr[a]]
  /\ notif' = [notif EXCEPT ![j] = NotifyJob(@, "cancelled")]
  /\ shielded' = shielded \cup expiring
  /\ api' = [op |-> "event", job |-> j, to |-> "cancelled", from |-> {}]
  /\ UNCHANGED <<created, sessions, apprJob, apprKind, told, applying, direct, workerVars,
                 effects, granted, crashes>>

(* DELETE /api/sessions/:id: refused while a job of the session is active; *)
(* the rows below the session go with it.                                  *)
DeleteSession(s) ==
  /\ api = ApiIdle /\ s \in sessions
  /\ \A j \in JobsOf(s) : jobStatus[j] \notin ActiveJobStatus
  /\ sessions' = sessions \ {s}
  /\ jobStatus' = [j \in Jobs |-> IF j \in JobsOf(s) /\ JobRowExists(j) THEN "deleted"
                                  ELSE jobStatus[j]]
  /\ notif' = [j \in Jobs |-> IF j \in JobsOf(s) THEN "none" ELSE notif[j]]
  /\ appr' = [a \in Approvals |-> IF apprJob[a] \in JobsOf(s) THEN "deleted" ELSE appr[a]]
  /\ UNCHANGED <<created, apprJob, apprKind, told, apiVars, workerVars, historyVars>>

(* The API process dies and is restarted: suspended handlers are lost, and *)
(* nothing on start-up looks at agent jobs or approvals.                   *)
ApiCrash ==
  /\ crashes < MaxCrashes
  /\ api' = ApiIdle
  /\ applying' = [a \in Approvals |-> "no"]
  /\ direct' = [j \in Jobs |-> FALSE]
  /\ crashes' = crashes + 1
  /\ UNCHANGED <<dbVars, workerVars, effects, granted, shielded>>

-----------------------------------------------------------------------------
(* The worker process.                                                     *)

(* tick: claimNextJob takes the oldest queued job.                         *)
ClaimNextJob ==
  /\ worker = "up"
  /\ \E i \in DOMAIN created :
       /\ jobStatus[created[i]] = "queued"
       /\ \A k \in 1..(i - 1) : jobStatus[created[k]] # "queued"
       /\ jobStatus' = [jobStatus EXCEPT ![created[i]] = "running"]
       /\ notif' = [notif EXCEPT ![created[i]] = NotifyAs(@, "running", FALSE)]
       /\ turn' = [turn EXCEPT ![created[i]] = "claimed"]
  /\ UNCHANGED <<created, sessions, appr, apprJob, apprKind, told, apiVars, call, worker,
                 historyVars>>

(* The tick looks its job up again and asks isCancelled before it starts   *)
(* the agent; a row that is gone counts as cancelled.                      *)
BeginTurn(j) ==
  /\ turn[j] = "claimed"
  /\ turn' = [turn EXCEPT ![j] = IF jobStatus[j] \in {"cancelled", "deleted"} THEN "idle"
                                 ELSE "thinking"]
  /\ UNCHANGED <<dbVars, apiVars, call, worker, historyVars>>

(* withApproval, first statement: a bash, edit or write call of the model  *)
(* records its approval.  Cancellation is not looked at here.  Bound: the  *)
(* id a running proposal route is about to use is left to it.              *)
RequestTool(j, a) ==
  /\ ~LocalFallback
  /\ api.op = "approval" => \E b \in Approvals \ {a} : appr[b] = "none"
  /\ turn[j] = "thinking" /\ JobRowExists(j)
  /\ InsertApproval(a, j, "tool")
  /\ call' = [call EXCEPT ![a] = "requested"]
  /\ UNCHANGED <<jobStatus, notif, created, sessions, told, apiVars, turn, worker, historyVars>>

(* Mutant: the job is marked waiting whatever became of it.                *)
MarkWaitingAnyway(a) ==
  /\ call[a] = "requested"
  /\ UpdateJobStatus(apprJob[a], "waiting_approval", JobStatus \ {"deleted"})
  /\ call' = [call EXCEPT ![a] = "polling"]
  /\ UNCHANGED <<created, sessions, appr, apprJob, apprKind, told, apiVars, turn, worker,
                 historyVars>>

(* withApproval, second statement: markWaitingForApproval.                 *)
MarkWaitingForApproval(a) ==
  /\ call[a] = "requested"
  /\ UpdateJobStatus(apprJob[a], "waiting_approval", {"running"})
  /\ call' = [call EXCEPT ![a] = "polling"]
  /\ UNCHANGED <<created, sessions, appr, apprJob, apprKind, told, apiVars, turn, worker,
                 historyVars>>

(* Mutant: the poll loop looks at the approval only.                       *)
WaitIgnoresCancel(a) ==
  /\ call[a] = "polling"
  /\ appr[a] # "pending"
  /\ call' = [call EXCEPT ![a] = IF appr[a] = "approved" THEN "granted" ELSE "no"]
  /\ UNCHANGED <<dbVars, apiVars, turn, worker, historyVars>>

(* Mutant: every decision but "rejected" lets the tool run.                *)
WaitTakesAnyDecision(a) ==
  /\ call[a] = "polling"
  /\ appr[a] # "pending"
  /\ call' = [call EXCEPT ![a] = IF appr[a] # "rejected" THEN "granted" ELSE "no"]
  /\ UNCHANGED <<dbVars, apiVars, turn, worker, historyVars>>

(* One round of waitForApprovalDecision that ends the wait.                *)
WaitForApprovalDecision(a) ==
  /\ call[a] = "polling"
  /\ \/ /\ jobStatus[apprJob[a]] \in {"cancelled", "deleted"}
        /\ call' = [call EXCEPT ![a] = "no"]
     \/ /\ jobStatus[apprJob[a]] \notin {"cancelled", "deleted"}
        /\ appr[a] # "pending"
        /\ call' = [call EXCEPT ![a] = IF appr[a] = "approved" THEN "granted" ELSE "no"]
  /\ UNCHANGED <<dbVars, apiVars, turn, worker, historyVars>>

(* withApproval, last statement: the tool runs inside the worker.          *)
ExecuteTool(a) ==
  /\ call[a] = "granted"
  /\ effects' = [effects EXCEPT ![a] = @ + 1]
  /\ call' = [call EXCEPT ![a] = "no"]
  /\ UNCHANGED <<dbVars, apiVars, turn, worker, granted, shielded, crashes>>

(* proposeChange of the local fallback agent: the approval is recorded     *)
(* while the job is still running.                                         *)
ProposeChange(j, a) ==
  /\ LocalFallback
  /\ api.op = "approval" => \E b \in Approvals \ {a} : appr[b] = "none"
  /\ turn[j] = "thinking" /\ JobRowExists(j)
  /\ InsertApproval(a, j, "operation")
  /\ turn' = [turn EXCEPT ![j] = "proposed"]
  /\ UNCHANGED <<jobStatus, notif, created, sessions, told, apiVars, call, worker, historyVars>>

(* processNextJob on a turn that returned "waiting_approval".              *)
ReturnWaiting(j) ==
  /\ turn[j] = "proposed"
  /\ UpdateJobStatus(j, "waiting_approval", {"running"})
  /\ turn' = [turn EXCEPT ![j] = "idle"]
  /\ UNCHANGED <<created, sessions, appr, apprJob, apprKind, told, apiVars, call, worker,
                 historyVars>>

(* Mutant: the result is recorded for running jobs only.                   *)
ReturnResultRunningOnly(j, to) ==
  /\ turn[j] = "thinking"
  /\ \A a \in ApprovalsOf(j) : call[a] = "no"
  /\ UpdateJobStatus(j, to, {"running"})
  /\ turn' = [turn EXCEPT ![j] = IF jobStatus[j] = "running" THEN to ELSE "idle"]
  /\ UNCHANGED <<created, sessions, appr, apprJob, apprKind, told, apiVars, call, worker,
                 historyVars>>

(* processNextJob on a turn that returned or threw, with no tool call of   *)
(* it still waiting.  A job that has left the two statuses is let alone.   *)
ReturnResult(j, to) ==
  /\ turn[j] = "thinking"
  /\ \A a \in ApprovalsOf(j) : call[a] = "no"
  /\ UpdateJobStatus(j, to, {"running", "waiting_approval"})
  /\ turn' = [turn EXCEPT ![j] = IF jobStatus[j] \in {"running", "waiting_approval"}
                                 THEN to ELSE "idle"]
  /\ UNCHANGED <<created, sessions, appr, apprJob, apprKind, told, apiVars, call, worker,
                 historyVars>>

(* processNextJob tells the session about the result it recorded.          *)
EmitResult(j) ==
  /\ turn[j] \in {"completed", "failed"}
  /\ AppendEvent(j, turn[j])
  /\ turn' = [turn EXCEPT ![j] = "idle"]
  /\ UNCHANGED <<jobStatus, notif, created, sessions, appr, apprJob, apprKind, apiVars, call,
                 worker, historyVars>>

(* SIGTERM: no more ticks; the database is closed when the last one ends.  *)
Shutdown ==
  /\ worker = "up" /\ crashes < MaxCrashes
  /\ worker' = "draining"
  /\ crashes' = crashes + 1
  /\ UNCHANGED <<dbVars, apiVars, turn, call, effects, granted, shielded>>

CloseDatabaseWhenIdle ==
  /\ worker = "draining" /\ \A j \in Jobs : turn[j] = "idle"
  /\ worker' = "down"
  /\ UNCHANGED <<dbVars, apiVars, turn, call, historyVars>>

WorkerCrash ==
  /\ worker # "down" /\ crashes < MaxCrashes
  /\ worker' = "down"
  /\ turn' = [j \in Jobs |-> "idle"]
  /\ call' = [a \in Approvals |-> "no"]
  /\ crashes' = crashes + 1
  /\ UNCHANGED <<dbVars, apiVars, effects, granted, shielded>>

(* A fresh worker process.  It has no recovery step for running jobs.      *)
WorkerStart ==
  /\ worker = "down"
  /\ worker' = "up"
  /\ UNCHANGED <<dbVars, apiVars, turn, call, historyVars>>

-----------------------------------------------------------------------------
UserRequest ==
  \/ \E j \in Jobs : SendMessage(j) \/ ProposeAction(j) \/ StartDirect(j) \/ Cancel(j)
  \/ \E a \in Approvals : Approve(a) \/ Reject(a)
  \/ \E s \in Sessions : DeleteSession(s)

ApiStep ==
  \/ SettleJob \/ SettleEvent
  \/ \E a \in Approvals : ProposeApproval(a)
  \/ \E a \in Approvals : ApplyChange(a)
  \/ \E a \in Approvals, to \in {"completed", "failed"} : ApplyReturns(a, to)
  \/ \E j \in Jobs, to \in {"completed", "failed"} : DirectReturns(j, to)

AgentChoice ==
  \E j \in Jobs, a \in Approvals : RequestTool(j, a) \/ ProposeChange(j, a)

TurnStep ==
  \/ \E j \in Jobs : BeginTurn(j) \/ ReturnWaiting(j) \/ EmitResult(j)
  \/ \E j \in Jobs, to \in {"completed", "failed"} : ReturnResult(j, to)
  \/ \E a \in Approvals :
       MarkWaitingForApproval(a) \/ WaitForApprovalDecision(a) \/ ExecuteTool(a)

Next ==
  \/ UserRequest \/ ApiStep \/ ApiCrash
  \/ ClaimNextJob \/ AgentChoice \/ TurnStep
  \/ Shutdown \/ CloseDatabaseWhenIdle \/ WorkerCrash \/ WorkerStart

Spec == Init /\ [][Next]_vars

(* The event loop of each process keeps running while the process is up:   *)
(* a handler past its await and a tick past its claim are eventually       *)
(* resumed, the awaited host or model call eventually returns, and the     *)
(* timer keeps firing.  Users owe nothing.                                 *)
Fairness ==
  /\ WF_vars(SettleJob) /\ WF_vars(SettleEvent)
  /\ WF_vars(ClaimNextJob)
  /\ WF_vars(\E a \in Approvals : ProposeApproval(a))
  /\ \A a \in Approvals :
       /\ SF_vars(ApplyReturns(a, "completed") \/ ApplyReturns(a, "failed"))
       /\ WF_vars(MarkWaitingForApproval(a))
       /\ WF_vars(WaitForApprovalDecision(a))
       /\ WF_vars(ExecuteTool(a))
  /\ \A j \in Jobs :
       /\ WF_vars(BeginTurn(j))
       /\ WF_vars(ReturnWaiting(j))
       /\ SF_vars(ReturnResult(j, "completed") \/ ReturnResult(j, "failed"))
       /\ WF_vars(EmitResult(j))
       /\ SF_vars(DirectReturns(j, "completed") \/ DirectReturns(j, "failed"))

FairSpec == Spec /\ Fairness

-----------------------------------------------------------------------------
(* Whatever the order of approve, reject, cancel and delete requests, tool *)
(* polls, crashes and restarts: the change behind an approval is carried   *)
(* out at most once, and only after a user approved it.                    *)
ChangeNeedsApproval ==
  \A a \in Approvals :
    /\ effects[a] <= 1
    /\ effects[a] = 1 => a \in granted

(* The decision on an approval as the abstract gate sees it.               *)
DecisionOf(a) ==
  IF a \in granted THEN "granted"
  ELSE IF appr[a] = "none" THEN "unasked"
  ELSE IF appr[a] = "pending" THEN "pending"
  ELSE "denied"

Decisions == [a \in Approvals |-> DecisionOf(a)]

Gate == INSTANCE ApprovalGate
          WITH Requests <- Approvals, decision <- Decisions, performed <- effects

(* The job pipeline implements the approval gate: every step of the API,   *)
(* of the worker and of a crash asks, grants, denies or performs one       *)
(* change, or leaves all of them as they are.  A decision is never taken   *)
(* back and a denied change is never performed.                            *)
ImplementsApprovalGate == Gate!Spec

(* An approval that was pending when its job was cancelled can no longer   *)
(* be approved: cancel expires it in the same transaction (updateJobStatus)*)
(* so neither the API nor a polling tool call carries its change out.      *)
CancelExpiresForGood ==
  \A a \in shielded :
    /\ appr[a] \in {"expired", "deleted"}
    /\ a \notin granted
    /\ effects[a] = 0

(* The allowedFrom lists of updateJobStatus make the end of a job final:   *)
(* a late worker result or a late approve handler never moves a completed, *)
(* failed or cancelled job; only deleting its session removes it.          *)
EndedJobsStay ==
  [][\A j \in Jobs :
       jobStatus[j] \in TerminalJobStatus => jobStatus'[j] \in {jobStatus[j], "deleted"}]_vars

(* What the notification of a proposed action says about the change is     *)
(* true, also when approve, reject, cancel and crashes interleave: after   *)
(* "rejected" nothing was changed, and "succeeded" means it was.           *)
NotificationIsTruthful ==
  \A j \in Jobs, a \in Approvals :
    (apprJob[a] = j /\ apprKind[a] = "operation") =>
       /\ notif[j] = "rejected" => effects[a] = 0
       /\ notif[j] = "succeeded" => effects[a] = 1

(* A session that was told a job completed or failed never shows that job  *)
(* as active again: handlers append the event without looking whether      *)
(* their guarded update changed the job row.                               *)
ToldJobsHaveEnded ==
  \A j \in Jobs : told[j] # {} => jobStatus[j] \notin ActiveJobStatus

(* As long as no process died, a job in "waiting_approval" always has      *)
(* something that can still move it besides cancel: its turn, an           *)
(* undecided approval, or a handler that is still at work on it.           *)
WaitingJobsCanMove ==
  crashes = 0 =>
    \A j \in Jobs : jobStatus[j] = "waiting_approval" =>
       \/ turn[j] # "idle"
       \/ api.job = j
       \/ \E a \in ApprovalsOf(j) : appr[a] = "pending" \/ applying[a] # "no"

(* Cancelling works although nothing interrupts the agent: once its job is *)
(* cancelled the tick that runs it ends, and no tool call of it keeps on   *)
(* waiting for a decision that nobody will make.                           *)
CancelledTurnsEnd ==
  \A j \in Jobs :
    jobStatus[j] \in {"cancelled", "deleted"} ~>
      (turn[j] = "idle" /\ \A a \in ApprovalsOf(j) : call[a] = "no")

(* If the API does not die, an approved operation is settled: it ends      *)
(* applied or failed, unless its session is deleted meanwhile.             *)
ApprovedOperationsSettle ==
  \A a \in Approvals :
    (appr[a] = "approved" /\ apprKind[a] = "operation") ~>
      (appr[a] \in {"applied", "failed", "deleted"} \/ crashes > 0)
=============================================================================
