--------------------------- MODULE AgentJobsProofs --------------------------
(***************************************************************************)
(* Proofs about AgentJobs for any sets of jobs, approvals and sessions,    *)
(* any number of crashes, with and without the local fallback agent.       *)
(*                                                                         *)
(* There are two inductive invariants.  IInv is about approvals and the    *)
(* changes they allow.  ToldInv adds how the rows of a job, its turn, its  *)
(* handler, its notification and its operation speak of one another, which *)
(* what users are told rests on.                                           *)
(***************************************************************************)
EXTENDS AgentJobs, TLAPS

(* The running API handler names an existing job, moves it to a terminal   *)
(* status, and only out of an active one.                                  *)
HandlerInv ==
  /\ api.op # "idle" => api.job \in Jobs
  /\ api.op \in {"job", "event"} => api.to \in TerminalJobStatus
  /\ api.op = "job" => api.from \subseteq ActiveJobStatus

(* Where an approval can be while somebody works on it, and what that says *)
(* about the decision and the change.                                      *)
ApprovalInv(a) ==
  /\ appr[a] = "none" => call[a] = "no" /\ applying[a] = "no"
  /\ appr[a] # "none" => apprJob[a] \in Jobs /\ apprKind[a] # "none"
  /\ appr[a] = "none" => apprJob[a] = NoJob
  /\ apprKind[a] = "operation" => call[a] = "no"
  /\ apprKind[a] = "tool" => applying[a] = "no"
  /\ appr[a] \in {"approved", "applied"} => a \in granted
  /\ a \in granted => appr[a] \in {"approved", "applied", "failed", "deleted"}
  /\ applying[a] # "no" => a \in granted
  /\ applying[a] = "applying" => effects[a] = 0
  /\ call[a] # "no" => effects[a] = 0
  /\ call[a] = "granted" => a \in granted
  /\ effects[a] # 0 => a \in granted /\ effects[a] = 1
  /\ a \in shielded => appr[a] \in {"expired", "deleted"} /\ a \notin granted

IInv ==
  /\ TypeOK
  /\ HandlerInv
  /\ \A a \in Approvals : ApprovalInv(a)

-----------------------------------------------------------------------------
(* What the notification rules return is a notification status.            *)
LEMMA NotificationTypes ==
  ASSUME NEW current \in NotificationStatus
  PROVE  /\ \A to \in ActiveJobStatus \cup TerminalJobStatus :
              NotifyJob(current, to) \in NotificationStatus
         /\ \A to \in ApprovalStatus : NotifyApproval(current, to) \in NotificationStatus
         /\ NotifyAs(current, "running", FALSE) \in NotificationStatus
  BY Zenon DEF NotifyJob, NotifyApproval, NotifyAs, NotificationForJob, NotificationForApproval,
         NotificationStatus, ActiveJobStatus, TerminalJobStatus, ApprovalStatus

(* updateJobStatus keeps the types of the rows it rewrites.                *)
LEMMA UpdateJobTypes ==
  ASSUME TypeOK, NEW j \in Jobs, NEW to \in ActiveJobStatus \cup TerminalJobStatus,
         NEW from, UpdateJobStatus(j, to, from)
  PROVE  jobStatus' \in [Jobs -> JobStatus] /\ notif' \in [Jobs -> NotificationStatus]
  <1>1. to \in JobStatus
    BY Zenon DEF JobStatus
  <1>2. CASE jobStatus[j] \in from
    <2>1. NotifyJob(notif[j], to) \in NotificationStatus
      BY NotificationTypes, Zenon DEF TypeOK
    <2> QED BY <1>1, <1>2, <2>1, ZenonT(60) DEF TypeOK, UpdateJobStatus
  <1>3. CASE jobStatus[j] \notin from
    BY <1>3, Zenon DEF TypeOK, UpdateJobStatus
  <1> QED BY <1>2, <1>3, Zenon

(* updateApprovalStatus keeps the types of the rows it rewrites.           *)
LEMMA UpdateApprovalTypes ==
  ASSUME TypeOK, NEW a \in Approvals, NEW to \in ApprovalStatus, UpdateApprovalStatus(a, to)
  PROVE  appr' \in [Approvals -> ApprovalStatus] /\ notif' \in [Jobs -> NotificationStatus]
  BY NotificationTypes, Zenon DEF TypeOK, UpdateApprovalStatus

(* appendEvent records one more terminal event of the job, or nothing.     *)
LEMMA AppendEventTypes ==
  ASSUME TypeOK, NEW j \in Jobs, NEW type \in TerminalJobStatus, AppendEvent(j, type)
  PROVE  told' \in [Jobs -> SUBSET TerminalJobStatus]
  <1>1. told[j] \cup {type} \in SUBSET TerminalJobStatus
    BY Zenon DEF TypeOK
  <1>2. told \in [Jobs -> SUBSET TerminalJobStatus]
    BY Zenon DEF TypeOK
  <1>3. [told EXCEPT ![j] = @ \cup {type}] \in [Jobs -> SUBSET TerminalJobStatus]
    BY <1>1, <1>2, Zenon
  <1> QED BY <1>2, <1>3, Zenon DEF AppendEvent

(* Every step keeps every variable in its type.                            *)
LEMMA TypeStep ==
  ASSUME IInv, [Next]_vars
  PROVE  TypeOK'
  <1> USE DEF IInv, TypeOK, dbVars, apiVars, workerVars, historyVars
  <1>1. ASSUME NEW j \in Jobs, SendMessage(j) PROVE TypeOK'
    BY <1>1 DEF SendMessage, JobStatus, ActiveJobStatus
  <1>2. ASSUME NEW j \in Jobs, ProposeAction(j) PROVE TypeOK'
    BY <1>2, Zenon DEF ProposeAction, ApiIdle, NotificationStatus, JobStatus, ActiveJobStatus
  <1>3. ASSUME NEW j \in Jobs, StartDirect(j) PROVE TypeOK'
    BY <1>3, Zenon DEF StartDirect, NotificationStatus, JobStatus, ActiveJobStatus
  <1>4. ASSUME NEW j \in Jobs, Cancel(j) PROVE TypeOK'
    BY <1>4, NotificationTypes, Zenon
       DEF Cancel, ApprovalsOf, ApprovalStatus, JobStatus, ActiveJobStatus, TerminalJobStatus
  <1>5. ASSUME NEW a \in Approvals, Approve(a) PROVE TypeOK'
    BY <1>5, UpdateApprovalTypes, Zenon DEF Approve, ApprovalStatus
  <1>6. ASSUME NEW a \in Approvals, Reject(a) PROVE TypeOK'
    BY <1>6, UpdateApprovalTypes, JobsAssumption, Zenon
       DEF Reject, ApiIdle, ApprovalStatus, JobStatus, ActiveJobStatus, TerminalJobStatus
  <1>7. ASSUME NEW s \in Sessions, DeleteSession(s) PROVE TypeOK'
    BY <1>7, Zenon
       DEF DeleteSession, JobsOf, JobRowExists, JobStatus, ApprovalStatus, NotificationStatus
  <1>8. CASE SettleJob
    BY <1>8, UpdateJobTypes, Zenon DEF SettleJob, HandlerInv
  <1>9. CASE SettleEvent
    BY <1>9, AppendEventTypes, Zenon DEF SettleEvent, ApiIdle, HandlerInv, JobStatus
  <1>10. ASSUME NEW a \in Approvals, ProposeApproval(a) PROVE TypeOK'
    BY <1>10, Zenon
       DEF ProposeApproval, InsertApproval, ApiIdle, HandlerInv, JobStatus, ApprovalStatus
  <1>11. ASSUME NEW a \in Approvals, ApplyChange(a) PROVE TypeOK'
    BY <1>11 DEF ApplyChange
  <1>12. ASSUME NEW a \in Approvals, NEW to \in {"completed", "failed"}, ApplyReturns(a, to)
         PROVE  TypeOK'
    BY <1>12, UpdateApprovalTypes, ZenonT(60)
       DEF ApplyReturns, ApprovalStatus, JobStatus, ActiveJobStatus, TerminalJobStatus
  <1>13. ASSUME NEW j \in Jobs, NEW to \in {"completed", "failed"}, DirectReturns(j, to)
         PROVE  TypeOK'
    BY <1>13, Zenon DEF DirectReturns, JobStatus, ActiveJobStatus, TerminalJobStatus
  <1>14. CASE ApiCrash
    BY <1>14 DEF ApiCrash, ApiIdle, JobStatus
  <1>15. CASE ClaimNextJob
    <2>1. PICK i \in DOMAIN created :
            /\ jobStatus' = [jobStatus EXCEPT ![created[i]] = "running"]
            /\ notif' = [notif EXCEPT ![created[i]] = NotifyAs(@, "running", FALSE)]
            /\ turn' = [turn EXCEPT ![created[i]] = "claimed"]
      BY <1>15, Zenon DEF ClaimNextJob
    <2>2. created[i] \in Jobs
      OBVIOUS
    <2>3. NotifyAs(notif[created[i]], "running", FALSE) \in NotificationStatus
      BY <2>2, NotificationTypes, Zenon
    <2> QED BY <1>15, <2>1, <2>2, <2>3, Zenon DEF ClaimNextJob, JobStatus, ActiveJobStatus
  <1>16. ASSUME NEW j \in Jobs, NEW a \in Approvals, RequestTool(j, a) PROVE TypeOK'
    BY <1>16, Zenon DEF RequestTool, InsertApproval, ApprovalStatus
  <1>17. ASSUME NEW j \in Jobs, NEW a \in Approvals, ProposeChange(j, a) PROVE TypeOK'
    BY <1>17, Zenon DEF ProposeChange, InsertApproval, ApprovalStatus
  <1>18. ASSUME NEW j \in Jobs, BeginTurn(j) PROVE TypeOK'
    BY <1>18, Zenon DEF BeginTurn
  <1>19. ASSUME NEW j \in Jobs, ReturnWaiting(j) PROVE TypeOK'
    BY <1>19, UpdateJobTypes, Zenon DEF ReturnWaiting, ActiveJobStatus
  <1>20. ASSUME NEW j \in Jobs, EmitResult(j) PROVE TypeOK'
    BY <1>20, AppendEventTypes DEF EmitResult, TerminalJobStatus
  <1>21. ASSUME NEW j \in Jobs, NEW to \in {"completed", "failed"}, ReturnResult(j, to)
         PROVE  TypeOK'
    BY <1>21, UpdateJobTypes, Zenon DEF ReturnResult, TerminalJobStatus
  <1>22. ASSUME NEW a \in Approvals, MarkWaitingForApproval(a) PROVE TypeOK'
    BY <1>22, UpdateJobTypes, Zenon DEF MarkWaitingForApproval, ApprovalInv, ActiveJobStatus
  <1>23. ASSUME NEW a \in Approvals, WaitForApprovalDecision(a) PROVE TypeOK'
    BY <1>23, Zenon DEF WaitForApprovalDecision
  <1>24. ASSUME NEW a \in Approvals, ExecuteTool(a) PROVE TypeOK'
    BY <1>24 DEF ExecuteTool
  <1>25. CASE Shutdown
    BY <1>25 DEF Shutdown
  <1>26. CASE CloseDatabaseWhenIdle
    BY <1>26, Zenon DEF CloseDatabaseWhenIdle
  <1>27. CASE WorkerCrash
    BY <1>27 DEF WorkerCrash
  <1>28. CASE WorkerStart
    BY <1>28, Zenon DEF WorkerStart
  <1>29. CASE UNCHANGED vars
    BY <1>29, Zenon DEF vars
  <1> QED
    BY ZenonT(60), <1>1, <1>2, <1>3, <1>4, <1>5, <1>6, <1>7, <1>8, <1>9, <1>10,
       <1>11, <1>12, <1>13, <1>14, <1>15, <1>16, <1>17, <1>18, <1>19, <1>20,
       <1>21, <1>22, <1>23, <1>24, <1>25, <1>26, <1>27, <1>28, <1>29, Zenon
       DEF Next, UserRequest, ApiStep, AgentChoice, TurnStep

(* Every step keeps the running handler within the active jobs.            *)
LEMMA HandlerStep ==
  ASSUME IInv, [Next]_vars
  PROVE  HandlerInv'
  <1> USE DEF IInv, TypeOK, HandlerInv, ApprovalInv, ApiIdle, ActiveJobStatus,
         TerminalJobStatus, dbVars, apiVars, workerVars, historyVars
  <1>1. ASSUME NEW j \in Jobs, ProposeAction(j) PROVE HandlerInv'
    BY <1>1, Zenon DEF ProposeAction
  <1>2. ASSUME NEW j \in Jobs, Cancel(j) PROVE HandlerInv'
    BY <1>2, Zenon DEF Cancel
  <1>3. ASSUME NEW a \in Approvals, Reject(a) PROVE HandlerInv'
    BY <1>3, Zenon DEF Reject
  <1>4. CASE SettleJob
    BY <1>4, Zenon DEF SettleJob
  <1>5. CASE SettleEvent
    BY <1>5, Zenon DEF SettleEvent
  <1>6. ASSUME NEW a \in Approvals, ProposeApproval(a) PROVE HandlerInv'
    BY <1>6, Zenon DEF ProposeApproval
  <1>7. ASSUME NEW a \in Approvals, NEW to \in {"completed", "failed"}, ApplyReturns(a, to)
        PROVE  HandlerInv'
    BY <1>7, Zenon DEF ApplyReturns
  <1>8. ASSUME NEW j \in Jobs, NEW to \in {"completed", "failed"}, DirectReturns(j, to)
        PROVE  HandlerInv'
    BY <1>8, Zenon DEF DirectReturns
  <1>9. CASE ApiCrash
    BY <1>9, Zenon DEF ApiCrash
  <1>10. CASE UNCHANGED api
    BY <1>10, Zenon
  <1> HIDE DEF IInv, TypeOK, HandlerInv, ApprovalInv
  <1> QED BY <1>1, <1>2, <1>3, <1>4, <1>5, <1>6, <1>7, <1>8, <1>9, <1>10, Zenon
    DEF Next, UserRequest, ApiStep, AgentChoice, TurnStep, vars, SendMessage,
         StartDirect, Approve, DeleteSession, ApplyChange, ClaimNextJob,
         RequestTool, ProposeChange, BeginTurn, ReturnWaiting, EmitResult,
         ReturnResult, MarkWaitingForApproval, WaitForApprovalDecision,
         ExecuteTool, Shutdown, CloseDatabaseWhenIdle, WorkerCrash, WorkerStart

(* Every step keeps what is known of each approval.                        *)
LEMMA ApprovalStep ==
  ASSUME IInv, [Next]_vars
  PROVE  \A b \in Approvals : ApprovalInv(b)'
  <1> USE DEF IInv, TypeOK, HandlerInv, ApprovalInv, dbVars, apiVars, workerVars,
         historyVars
  <1>1. ASSUME NEW j \in Jobs, Cancel(j) PROVE \A b \in Approvals : ApprovalInv(b)'
    BY <1>1, Zenon DEF Cancel, ApprovalsOf
  <1>2. ASSUME NEW a \in Approvals, Approve(a) PROVE \A b \in Approvals : ApprovalInv(b)'
    BY <1>2 DEF Approve, UpdateApprovalStatus
  <1>3. ASSUME NEW a \in Approvals, Reject(a) PROVE \A b \in Approvals : ApprovalInv(b)'
    BY <1>3 DEF Reject, UpdateApprovalStatus
  <1>4. ASSUME NEW s \in Sessions, DeleteSession(s) PROVE \A b \in Approvals : ApprovalInv(b)'
    BY <1>4, JobsAssumption DEF DeleteSession, JobsOf
  <1>5. ASSUME NEW a \in Approvals, ProposeApproval(a) PROVE \A b \in Approvals : ApprovalInv(b)'
    BY <1>5 DEF ProposeApproval, InsertApproval
  <1>6. ASSUME NEW a \in Approvals, ApplyChange(a) PROVE \A b \in Approvals : ApprovalInv(b)'
    BY <1>6 DEF ApplyChange
  <1>7. ASSUME NEW a \in Approvals, NEW to \in {"completed", "failed"}, ApplyReturns(a, to)
        PROVE  \A b \in Approvals : ApprovalInv(b)'
    BY <1>7 DEF ApplyReturns, UpdateApprovalStatus
  <1>8. CASE ApiCrash
    BY <1>8, Zenon DEF ApiCrash
  <1>9. ASSUME NEW j \in Jobs, NEW a \in Approvals, RequestTool(j, a)
        PROVE  \A b \in Approvals : ApprovalInv(b)'
    BY <1>9 DEF RequestTool, InsertApproval
  <1>10. ASSUME NEW j \in Jobs, NEW a \in Approvals, ProposeChange(j, a)
         PROVE  \A b \in Approvals : ApprovalInv(b)'
    BY <1>10 DEF ProposeChange, InsertApproval
  <1>11. ASSUME NEW a \in Approvals, MarkWaitingForApproval(a)
         PROVE  \A b \in Approvals : ApprovalInv(b)'
    BY <1>11 DEF MarkWaitingForApproval
  <1>12. ASSUME NEW a \in Approvals, WaitForApprovalDecision(a)
         PROVE  \A b \in Approvals : ApprovalInv(b)'
    BY <1>12 DEF WaitForApprovalDecision
  <1>13. ASSUME NEW a \in Approvals, ExecuteTool(a) PROVE \A b \in Approvals : ApprovalInv(b)'
    BY <1>13 DEF ExecuteTool
  <1>14. CASE WorkerCrash
    BY <1>14, Zenon DEF WorkerCrash
  <1>15. CASE UNCHANGED <<appr, apprJob, apprKind, applying, call, effects, granted, shielded>>
    BY <1>15, Zenon
  <1> HIDE DEF IInv, TypeOK, HandlerInv, ApprovalInv
  <1> QED BY <1>1, <1>2, <1>3, <1>4, <1>5, <1>6, <1>7, <1>8, <1>9, <1>10, <1>11,
         <1>12, <1>13, <1>14, <1>15, Zenon
    DEF Next, UserRequest, ApiStep, AgentChoice, TurnStep, vars, SendMessage,
         ProposeAction, StartDirect, SettleJob, SettleEvent, DirectReturns,
         ClaimNextJob, BeginTurn, ReturnWaiting, EmitResult, ReturnResult,
         Shutdown, CloseDatabaseWhenIdle, WorkerStart

-----------------------------------------------------------------------------
(* The invariant is inductive: no order of requests, polls, ticks and      *)
(* crashes leaves it.                                                      *)
THEOREM InductiveInvariant == Spec => []IInv
  <1>1. Init => IInv
    BY JobsAssumption DEF Init, IInv, TypeOK, HandlerInv, ApprovalInv, ApiIdle, JobStatus,
       NotificationStatus, ApprovalStatus
  <1>2. IInv /\ [Next]_vars => IInv'
    BY TypeStep, HandlerStep, ApprovalStep, Zenon DEF IInv
  <1> QED BY <1>1, <1>2, PTL DEF Spec

(* Every variable stays in its type, whatever the constants.               *)
THEOREM TypeCorrect == Spec => []TypeOK
  BY InductiveInvariant, PTL DEF IInv

(* The change behind an approval is carried out at most once and only      *)
(* after a user approved it: approve runs on a pending row only, a tool    *)
(* call proceeds on an approved row only, and each forgets the approval    *)
(* once it is used.                                                        *)
THEOREM ChangeNeedsApprovalHolds == Spec => []ChangeNeedsApproval
  <1>1. IInv => ChangeNeedsApproval
    BY DEF IInv, ApprovalInv, TypeOK, ChangeNeedsApproval
  <1> QED BY <1>1, InductiveInvariant, PTL

(* An approval that a cancellation expired is never approved and its       *)
(* change never carried out.                                               *)
THEOREM CancelExpiresForGoodHolds == Spec => []CancelExpiresForGood
  <1>1. IInv => CancelExpiresForGood
    BY Zenon DEF IInv, ApprovalInv, TypeOK, CancelExpiresForGood
  <1> QED BY <1>1, InductiveInvariant, PTL

(* No step moves a job that has ended, except deleting its session: every  *)
(* updateJobStatus call names only active statuses to move from.           *)
LEMMA EndedStep ==
  ASSUME IInv, [Next]_vars
  PROVE  \A k \in Jobs :
           jobStatus[k] \in TerminalJobStatus => jobStatus'[k] \in {jobStatus[k], "deleted"}
  <1> DEFINE Stays == \A k \in Jobs :
        jobStatus[k] \in TerminalJobStatus => jobStatus'[k] \in {jobStatus[k], "deleted"}
  <1> SUFFICES Stays
    BY Zenon
  <1> USE DEF IInv, TypeOK, ActiveJobStatus, TerminalJobStatus
  <1>1. ASSUME NEW j \in Jobs, SendMessage(j) PROVE Stays
    BY <1>1, Zenon DEF SendMessage
  <1>2. ASSUME NEW j \in Jobs, ProposeAction(j) PROVE Stays
    BY <1>2, ZenonT(60) DEF ProposeAction
  <1>3. ASSUME NEW j \in Jobs, StartDirect(j) PROVE Stays
    BY <1>3, Zenon DEF StartDirect
  <1>4. ASSUME NEW j \in Jobs, Cancel(j) PROVE Stays
    BY <1>4, Zenon DEF Cancel
  <1>5. ASSUME NEW s \in Sessions, DeleteSession(s) PROVE Stays
    BY <1>5, Zenon DEF DeleteSession
  <1>6. CASE SettleJob
    BY <1>6, ZenonT(60) DEF SettleJob, HandlerInv, UpdateJobStatus
  <1>7. CASE ClaimNextJob
    BY <1>7 DEF ClaimNextJob
  <1>8. ASSUME NEW j \in Jobs, ReturnWaiting(j) PROVE Stays
    BY <1>8, ZenonT(60) DEF ReturnWaiting, UpdateJobStatus
  <1>9. ASSUME NEW j \in Jobs, NEW to \in {"completed", "failed"}, ReturnResult(j, to) PROVE Stays
    BY <1>9, ZenonT(60) DEF ReturnResult, UpdateJobStatus
  <1>10. ASSUME NEW a \in Approvals, MarkWaitingForApproval(a) PROVE Stays
    BY <1>10, ZenonT(60) DEF MarkWaitingForApproval, UpdateJobStatus
  <1>11. CASE UNCHANGED jobStatus
    BY <1>11, Zenon
  <1>12. ASSUME NEW a \in Approvals,
                \/ Approve(a) \/ Reject(a) \/ ProposeApproval(a) \/ ApplyChange(a)
                \/ \E to \in {"completed", "failed"} : ApplyReturns(a, to)
                \/ WaitForApprovalDecision(a) \/ ExecuteTool(a)
                \/ \E j \in Jobs : RequestTool(j, a) \/ ProposeChange(j, a)
         PROVE  UNCHANGED jobStatus
    BY <1>12, Zenon DEF Approve, Reject, ProposeApproval, ApplyChange, ApplyReturns,
       WaitForApprovalDecision, ExecuteTool, RequestTool, ProposeChange, dbVars
  <1>13. ASSUME NEW j \in Jobs,
                \/ \E to \in {"completed", "failed"} : DirectReturns(j, to)
                \/ BeginTurn(j) \/ EmitResult(j)
         PROVE  UNCHANGED jobStatus
    BY <1>13, Zenon DEF DirectReturns, BeginTurn, EmitResult, dbVars
  <1>14. CASE \/ SettleEvent \/ ApiCrash \/ Shutdown \/ CloseDatabaseWhenIdle
             \/ WorkerCrash \/ WorkerStart \/ UNCHANGED vars
    <2>1. UNCHANGED jobStatus
      BY <1>14, Zenon DEF SettleEvent, ApiCrash, Shutdown, CloseDatabaseWhenIdle, WorkerCrash,
         WorkerStart, vars, dbVars
    <2> QED BY <2>1, <1>11, Zenon
  <1> HIDE DEF IInv, TypeOK, ActiveJobStatus, TerminalJobStatus, Stays
  <1> QED
    BY <1>1, <1>2, <1>3, <1>4, <1>5, <1>6, <1>7, <1>8, <1>9, <1>10, <1>11, <1>12, <1>13, <1>14, Zenon
       DEF Next, UserRequest, ApiStep, AgentChoice, TurnStep

(* The end of a job is final in every behaviour of the two processes.      *)
THEOREM EndedJobsStayHolds == Spec => EndedJobsStay
  <1>1. IInv /\ [Next]_vars =>
          [\A j \in Jobs :
             jobStatus[j] \in TerminalJobStatus => jobStatus'[j] \in {jobStatus[j], "deleted"}]_vars
    BY EndedStep, Zenon
  <1> QED BY <1>1, InductiveInvariant, PTL DEF Spec, EndedJobsStay

-----------------------------------------------------------------------------
(* Every step of the pipeline is a step of the approval gate or leaves it  *)
(* as it is.                                                               *)
LEMMA GateStep ==
  ASSUME IInv, [Next]_vars
  PROVE  Gate!Next \/ UNCHANGED <<Decisions, effects>>
  <1> DEFINE Goal == Gate!Next \/ UNCHANGED <<Decisions, effects>>
  <1> SUFFICES Goal
    BY Zenon
  <1>0. /\ effects \in [Approvals -> Nat] /\ appr \in [Approvals -> ApprovalStatus]
        /\ \A b \in Approvals : appr[b] \in {"none", "pending"} => b \notin granted
    BY Zenon DEF IInv, TypeOK, ApprovalInv
  <1>1. ASSUME NEW a \in Approvals, NEW j \in Jobs,
               ProposeApproval(a) \/ RequestTool(j, a) \/ ProposeChange(j, a)
        PROVE  Goal
    <2>1. DecisionOf(a) = "unasked" /\ DecisionOf(a)' = "pending"
      BY <1>0, <1>1, Zenon DEF DecisionOf, ProposeApproval, RequestTool, ProposeChange,
         InsertApproval, historyVars
    <2>2. \A b \in Approvals \ {a} : DecisionOf(b)' = DecisionOf(b)
      BY <1>0, <1>1, Zenon DEF DecisionOf, ProposeApproval, RequestTool, ProposeChange,
         InsertApproval, historyVars
    <2>3. UNCHANGED effects
      BY <1>1, Zenon DEF ProposeApproval, RequestTool, ProposeChange, historyVars
    <2>4. Gate!Ask(a)
      BY <2>1, <2>2, <2>3, Zenon DEF Decisions, Gate!Ask
    <2> QED BY <2>4, Zenon DEF Gate!Next
  <1>2. ASSUME NEW a \in Approvals, Approve(a)
        PROVE  Goal
    <2>1. DecisionOf(a) = "pending" /\ DecisionOf(a)' = "granted"
      BY <1>0, <1>2, Zenon DEF DecisionOf, Approve, UpdateApprovalStatus
    <2>2. \A b \in Approvals \ {a} : DecisionOf(b)' = DecisionOf(b)
      BY <1>0, <1>2, Zenon DEF DecisionOf, Approve, UpdateApprovalStatus
    <2>3. Gate!Grant(a)
      BY <1>2, <2>1, <2>2, Zenon DEF Approve, Decisions, Gate!Grant
    <2> QED BY <2>3, Zenon DEF Gate!Next
  <1>3. ASSUME NEW a \in Approvals, Reject(a)
        PROVE  Goal
    <2> DEFINE open == {a}
    <2>1. \A b \in open : DecisionOf(b) = "pending"
      BY <1>0, <1>3, Zenon DEF DecisionOf, Reject, UpdateApprovalStatus, historyVars
    <2>2. \A b \in Approvals : DecisionOf(b)' = IF b \in open THEN "denied" ELSE DecisionOf(b)
      BY <1>0, <1>3, Zenon DEF DecisionOf, Reject, UpdateApprovalStatus, historyVars
    <2>3. open \in SUBSET Approvals
      BY Zenon DEF ApprovalsOf
    <2>4. UNCHANGED effects
      BY <1>3, Zenon DEF Reject, historyVars
    <2>5. Gate!Deny(open)
      <3> HIDE DEF open
      <3> QED BY <2>1, <2>2, <2>3, <2>4, Zenon DEF Decisions, Gate!Deny
    <2> QED BY <2>3, <2>5, Zenon DEF Gate!Next
  <1>4. ASSUME NEW j \in Jobs, Cancel(j)
        PROVE  Goal
    <2> DEFINE open == {a \in ApprovalsOf(j) : appr[a] = "pending"}
    <2>1. \A b \in open : DecisionOf(b) = "pending"
      BY <1>0, <1>4, Zenon DEF DecisionOf, Cancel, ApprovalsOf
    <2>2. \A b \in Approvals : DecisionOf(b)' = IF b \in open THEN "denied" ELSE DecisionOf(b)
      BY <1>0, <1>4, Zenon DEF DecisionOf, Cancel, ApprovalsOf
    <2>3. open \in SUBSET Approvals
      BY Zenon DEF ApprovalsOf
    <2>4. UNCHANGED effects
      BY <1>4, Zenon DEF Cancel
    <2>5. Gate!Deny(open)
      <3> HIDE DEF open
      <3> QED BY <2>1, <2>2, <2>3, <2>4, Zenon DEF Decisions, Gate!Deny
    <2> QED BY <2>3, <2>5, Zenon DEF Gate!Next
  <1>5. ASSUME NEW s \in Sessions, DeleteSession(s)
        PROVE  Goal
    <2> DEFINE open == {a \in Approvals : apprJob[a] \in JobsOf(s) /\ appr[a] = "pending"}
    <2>0. \A a \in Approvals : apprJob[a] \in JobsOf(s) => appr[a] # "none"
      BY JobsAssumption, Zenon DEF IInv, ApprovalInv, JobsOf
    <2>1. \A b \in open : DecisionOf(b) = "pending"
      BY <1>0, <1>5, <2>0, Zenon DEF DecisionOf, DeleteSession, historyVars
    <2>2. \A b \in Approvals : DecisionOf(b)' = IF b \in open THEN "denied" ELSE DecisionOf(b)
      BY <1>0, <1>5, <2>0, Zenon DEF DecisionOf, DeleteSession, historyVars
    <2>3. open \in SUBSET Approvals
      BY Zenon DEF ApprovalsOf
    <2>4. UNCHANGED effects
      BY <1>5, Zenon DEF DeleteSession, historyVars
    <2>5. Gate!Deny(open)
      <3> HIDE DEF open
      <3> QED BY <2>1, <2>2, <2>3, <2>4, Zenon DEF Decisions, Gate!Deny
    <2> QED BY <2>3, <2>5, Zenon DEF Gate!Next
  <1>6. ASSUME NEW a \in Approvals, ApplyChange(a) \/ ExecuteTool(a)
        PROVE  Goal
    <2>1. DecisionOf(a) = "granted" /\ effects[a] = 0
      BY <1>6, Zenon DEF IInv, TypeOK, ApprovalInv, DecisionOf, ApplyChange, ExecuteTool
    <2>2. UNCHANGED Decisions
      BY <1>6, Zenon DEF Decisions, DecisionOf, ApplyChange, ExecuteTool, dbVars
    <2>3. effects' = [effects EXCEPT ![a] = 1]
      BY <1>6, <2>1, <1>0 DEF ApplyChange, ExecuteTool
    <2>4. Gate!Perform(a)
      BY <2>1, <2>2, <2>3, Zenon DEF Decisions, Gate!Perform
    <2> QED BY <2>4, Zenon DEF Gate!Next
  <1>7. ASSUME NEW a \in Approvals, NEW to \in {"completed", "failed"}, ApplyReturns(a, to)
        PROVE  Goal
    <2>1. \A b \in Approvals : DecisionOf(b)' = DecisionOf(b)
      BY <1>7
         DEF IInv, TypeOK, ApprovalInv, DecisionOf, ApplyReturns, UpdateApprovalStatus,
             historyVars
    <2> QED BY <1>7, <2>1, Zenon DEF Decisions, ApplyReturns, historyVars
  <1>8. CASE UNCHANGED <<appr, granted, effects>>
    BY <1>8, Zenon DEF Decisions, DecisionOf
  <1> HIDE DEF Goal
  <1>9. ASSUME NEW j \in Jobs,
               \/ SendMessage(j) \/ ProposeAction(j) \/ StartDirect(j) \/ BeginTurn(j)
               \/ ReturnWaiting(j) \/ EmitResult(j)
               \/ \E to \in {"completed", "failed"} : DirectReturns(j, to) \/ ReturnResult(j, to)
        PROVE  UNCHANGED <<appr, granted, effects>>
    BY <1>9, Zenon DEF SendMessage, ProposeAction, StartDirect, BeginTurn, ReturnWaiting, EmitResult,
       DirectReturns, ReturnResult, dbVars, historyVars
  <1>10. ASSUME NEW a \in Approvals, MarkWaitingForApproval(a) \/ WaitForApprovalDecision(a)
         PROVE  UNCHANGED <<appr, granted, effects>>
    BY <1>10, Zenon DEF MarkWaitingForApproval, WaitForApprovalDecision, dbVars, historyVars
  <1>11. ASSUME \/ SettleJob \/ SettleEvent \/ ApiCrash \/ ClaimNextJob \/ Shutdown
                \/ CloseDatabaseWhenIdle \/ WorkerCrash \/ WorkerStart \/ UNCHANGED vars
         PROVE  UNCHANGED <<appr, granted, effects>>
    BY <1>11, Zenon DEF SettleJob, SettleEvent, ApiCrash, ClaimNextJob, Shutdown,
       CloseDatabaseWhenIdle, WorkerCrash, WorkerStart, vars, dbVars, historyVars
  <1>12. ASSUME NEW a \in Approvals, ProposeApproval(a) PROVE Goal
    BY <1>1, <1>12, Zenon DEF ProposeApproval, IInv, HandlerInv
  <1> QED
    BY <1>1, <1>2, <1>3, <1>4, <1>5, <1>6, <1>7, <1>8, <1>9, <1>10, <1>11, <1>12, Zenon
       DEF Next, UserRequest, ApiStep, AgentChoice, TurnStep

(* The agent job pipeline implements the approval gate.                    *)
THEOREM ImplementsApprovalGateHolds == Spec => ImplementsApprovalGate
  <1>1. Init => Gate!Init
    BY DEF Init, Gate!Init, Decisions, DecisionOf
  <1>2. IInv /\ [Next]_vars => [Gate!Next]_<<Decisions, effects>>
    BY GateStep, Zenon
  <1> QED BY <1>1, <1>2, InductiveInvariant, PTL DEF Spec, ImplementsApprovalGate, Gate!Spec

-----------------------------------------------------------------------------
(* What users are told.                                                    *)

(* A job that is over.                                                     *)
Ended == TerminalJobStatus \cup {"deleted"}

(* The jobs of user messages; the others are those of action routes.       *)
Sent == {created[i] : i \in DOMAIN created}

(* A job is begun once, by a message, a proposal or a direct action.  Only *)
(* the jobs of messages have turns, and they have no notification.         *)
JobInv(j) ==
  /\ jobStatus[j] = "none" =>
       /\ j \notin Sent /\ notif[j] = "none" /\ turn[j] = "idle" /\ ~direct[j]
       /\ api.job # j /\ ApprovalsOf(j) = {}
  /\ j \in Sent => notif[j] = "none"
  /\ jobStatus[j] = "queued" => turn[j] = "idle"
  /\ turn[j] # "idle" => j \in Sent
  /\ direct[j] => j \notin Sent /\ ApprovalsOf(j) = {} /\ jobStatus[j] \in {"running"} \cup Ended
  /\ turn[j] \in {"completed", "failed"} => jobStatus[j] \in Ended
  /\ turn[j] = "proposed" => LocalFallback
  /\ ~LocalFallback /\ told[j] # {} => jobStatus[j] \in Ended

(* Tools belong to the turn of a message.  An operation of an action route *)
(* is the only one of its job, and the notification of the job speaks of   *)
(* it.                                                                     *)
RequestInv(a) ==
  /\ apprKind[a] = "tool" => apprJob[a] \in Sent
  /\ call[a] # "no" => ~LocalFallback /\ turn[apprJob[a]] = "thinking"
  /\ applying[a] = "applied" => effects[a] = 1
  /\ apprKind[a] = "operation" =>
       /\ appr[a] # "none"
       /\ ~LocalFallback => /\ apprJob[a] \notin Sent
                            /\ jobStatus[apprJob[a]] \in {"waiting_approval"} \cup Ended
       /\ apprJob[a] \notin Sent =>
            /\ \A b \in Approvals : apprJob[b] = apprJob[a] => b = a
            /\ notif[apprJob[a]] = "rejected" => appr[a] # "pending" /\ a \notin granted
            /\ notif[apprJob[a]] = "succeeded" => effects[a] = 1

(* What the running handler knows of its job.                              *)
ReplyInv ==
  /\ api.op = "idle" => api.job = NoJob
  /\ api.op = "approval" =>
       /\ api.job \notin Sent /\ ApprovalsOf(api.job) = {} /\ ~direct[api.job]
       /\ notif[api.job] = "pending_approval"
       /\ jobStatus[api.job] \in {"waiting_approval"} \cup Ended
  /\ api.op = "job" =>
       \/ /\ api.from = {"running"} /\ ApprovalsOf(api.job) = {} /\ api.job \notin Sent
          /\ jobStatus[api.job] \in {"running"} \cup Ended
       \/ /\ api.from = {"waiting_approval"}
          /\ ~LocalFallback => jobStatus[api.job] \in {"waiting_approval"} \cup Ended
  /\ api.op = "job" /\ api.to = "completed" /\ notif[api.job] \notin {"none", "rejected"} =>
       \A a \in ApprovalsOf(api.job) : apprKind[a] = "operation" => effects[a] = 1
  /\ ~LocalFallback /\ api.op = "event" => jobStatus[api.job] \in Ended

(* Who will move a job that waits, as long as no process has died.         *)
WaitInv(j) ==
  ~LocalFallback /\ crashes = 0 /\ jobStatus[j] = "waiting_approval" =>
    IF j \in Sent THEN turn[j] # "idle"
    ELSE \/ api.job = j
         \/ \E a \in ApprovalsOf(j) :
              apprKind[a] = "operation" /\ (appr[a] = "pending" \/ applying[a] # "no")

(* The second invariant.                                                   *)
Told ==
  /\ ReplyInv
  /\ \A j \in Jobs : JobInv(j) /\ WaitInv(j)
  /\ \A a \in Approvals : RequestInv(a)

ToldInv == IInv /\ Told

-----------------------------------------------------------------------------
(* The elements of a sequence.                                             *)
LEMMA ElementOfSequence ==
  ASSUME NEW S, NEW s \in Seq(S), NEW i \in DOMAIN s
  PROVE  s[i] \in S
  OBVIOUS

(* Only a message adds to the jobs of messages.                            *)
LEMMA SentFacts ==
  ASSUME ToldInv
  PROVE  /\ \A j \in Jobs : created' = Append(created, j) => Sent' = Sent \cup {j}
         /\ Sent \subseteq Jobs
  <1>1. created \in Seq(Jobs)
    BY Zenon DEF ToldInv, IInv, TypeOK
  <1>2. ASSUME NEW j \in Jobs, created' = Append(created, j) PROVE Sent' = Sent \cup {j}
    <2>1. /\ Len(created) \in Nat /\ DOMAIN created = 1 .. Len(created)
          /\ DOMAIN created' = 1 .. Len(created) + 1
          /\ \A i \in 1 .. Len(created) : created'[i] = created[i]
          /\ created'[Len(created) + 1] = j
      BY <1>1, <1>2
    <2>2. Sent' = {created'[i] : i \in DOMAIN created'} /\ Sent = {created[i] : i \in DOMAIN created}
      BY Zenon DEF Sent
    <2>3. Sent' \subseteq Sent \cup {j}
      BY <2>1, <2>2
    <2>4. Sent \cup {j} \subseteq Sent'
      BY <2>1, <2>2
    <2> QED BY <2>3, <2>4, Zenon
  <1>3. Sent \subseteq Jobs
    BY <1>1, ElementOfSequence, Zenon DEF Sent
  <1> QED BY <1>2, <1>3, Zenon

(* The domains of the tables, and what a step that sends no message leaves *)
(* alone.                                                                  *)
LEMMA Tables ==
  ASSUME ToldInv
  PROVE  /\ DOMAIN jobStatus = Jobs /\ DOMAIN notif = Jobs /\ DOMAIN told = Jobs
         /\ DOMAIN direct = Jobs /\ DOMAIN turn = Jobs
         /\ DOMAIN appr = Approvals /\ DOMAIN apprJob = Approvals /\ DOMAIN apprKind = Approvals
         /\ DOMAIN applying = Approvals /\ DOMAIN call = Approvals /\ DOMAIN effects = Approvals
         /\ created' = created => Sent' = Sent
         /\ NoJob \notin Jobs /\ crashes \in Nat
  BY JobsAssumption DEF ToldInv, Told, IInv, TypeOK, Sent

(* The parts of ToldInv, one by one.                                       *)
LEMMA HandlerPart ==
  ASSUME ToldInv
  PROVE  HandlerInv
  BY Zenon DEF ToldInv, IInv

(* What the API handler will answer, and the job it names.                 *)
LEMMA ReplyPart ==
  ASSUME ToldInv
  PROVE  ReplyInv /\ (api.op # "idle" => api.job \in Jobs)
  BY Zenon DEF ToldInv, IInv, Told, HandlerInv

(* What each job's row, event and notification say of one another.         *)
LEMMA JobPart ==
  ASSUME ToldInv
  PROVE  \A j \in Jobs : JobInv(j)
  BY Zenon DEF ToldInv, Told

(* What a job that waits for an approval waits for.                        *)
LEMMA WaitPart ==
  ASSUME ToldInv
  PROVE  \A j \in Jobs : WaitInv(j)
  BY Zenon DEF ToldInv, Told

(* Where each approval is, as the first invariant has it.                  *)
LEMMA ApprovalPart ==
  ASSUME ToldInv
  PROVE  \A a \in Approvals : ApprovalInv(a)
  BY Zenon DEF ToldInv, IInv

(* What each approval's request says, and that it names a job.             *)
LEMMA RequestPart ==
  ASSUME ToldInv
  PROVE  \A a \in Approvals :
           RequestInv(a) /\ (apprKind[a] = "operation" \/ call[a] # "no" => apprJob[a] \in Jobs)
  BY Zenon DEF ToldInv, IInv, Told, ApprovalInv, RequestInv

(* What an invariant does not speak of may change.                         *)
LEMMA Frames ==
  ASSUME ToldInv, Sent' = Sent
  PROVE  /\ UNCHANGED <<api, apprJob, direct, notif, jobStatus, apprKind, effects>> => ReplyInv'
         /\ UNCHANGED <<jobStatus, notif, turn, direct, api, apprJob, told>> =>
              \A k \in Jobs : JobInv(k)'
         /\ UNCHANGED <<crashes, jobStatus, turn, api, apprJob, apprKind, appr, applying>> =>
              \A k \in Jobs : WaitInv(k)'
         /\ UNCHANGED <<apprKind, apprJob, call, turn, applying, effects, jobStatus, appr, notif,
                        granted>> =>
              \A b \in Approvals : RequestInv(b)'
  <1>1. UNCHANGED <<api, apprJob, direct, notif, jobStatus, apprKind, effects>> => ReplyInv'
    BY ReplyPart, Zenon DEF ReplyInv, ApprovalsOf
  <1>2. UNCHANGED <<jobStatus, notif, turn, direct, api, apprJob, told>> =>
          \A k \in Jobs : JobInv(k)'
    BY JobPart DEF JobInv, ApprovalsOf
  <1>3. UNCHANGED <<crashes, jobStatus, turn, api, apprJob, apprKind, appr, applying>> =>
          \A k \in Jobs : WaitInv(k)'
    BY WaitPart, ZenonT(60) DEF WaitInv, ApprovalsOf
  <1>4. UNCHANGED <<apprKind, apprJob, call, turn, applying, effects, jobStatus, appr, notif,
                    granted>> =>
          \A b \in Approvals : RequestInv(b)'
    BY RequestPart, Zenon DEF RequestInv
  <1> QED BY <1>1, <1>2, <1>3, <1>4, Zenon

(* A job that was not begun is not in anybody's hands.                     *)
LEMMA FreshJob ==
  ASSUME ToldInv, NEW j \in Jobs, jobStatus[j] = "none"
  PROVE  /\ j \notin Sent /\ notif[j] = "none" /\ turn[j] = "idle" /\ ~direct[j]
         /\ \A b \in Approvals : apprJob[b] # j
  BY JobPart, Zenon DEF JobInv, ApprovalsOf

(* An approval that was not asked for belongs to no job.                   *)
LEMMA FreshApproval ==
  ASSUME ToldInv, NEW a \in Approvals, appr[a] = "none"
  PROVE  /\ apprJob[a] = NoJob /\ apprKind[a] # "operation" /\ call[a] = "no" /\ applying[a] = "no"
         /\ a \notin granted /\ NoJob \notin Jobs
  BY ApprovalPart, RequestPart, JobsAssumption, Zenon DEF ApprovalInv, RequestInv

(* Whose an approval is while it is pending, carried out or waited for.    *)
LEMMA ApprovalFacts ==
  ASSUME ToldInv, NEW a \in Approvals
  PROVE  /\ apprKind[a] \in {"none", "tool", "operation"}
         /\ appr[a] = "pending" => apprJob[a] \in Jobs /\ apprKind[a] # "none" /\ a \notin granted
         /\ applying[a] # "no" => apprJob[a] \in Jobs /\ apprKind[a] = "operation"
         /\ applying[a] = "applied" => effects[a] = 1
         /\ call[a] # "no" => /\ apprJob[a] \in Jobs /\ apprKind[a] = "tool"
                              /\ applying[a] = "no"
  <1>1. apprKind[a] \in {"none", "tool", "operation"}
    BY Zenon DEF ToldInv, IInv, TypeOK
  <1>2. ApprovalInv(a) /\ RequestInv(a)
    BY ApprovalPart, RequestPart, Zenon
  <1> QED BY <1>1, <1>2, Zenon DEF ApprovalInv, RequestInv

(* A decision is written into the approval and into the notification of    *)
(* its job, if the job has one.                                            *)
LEMMA DecisionFacts ==
  ASSUME ToldInv, NEW a \in Approvals, apprJob[a] \in Jobs,
         NEW to \in {"approved", "rejected", "applied", "failed"}, UpdateApprovalStatus(a, to)
  PROVE  /\ appr'[a] = to /\ \A b \in Approvals : b # a => appr'[b] = appr[b]
         /\ notif[apprJob[a]] = "none" => notif'[apprJob[a]] = "none"
         /\ notif[apprJob[a]] # "none" => notif'[apprJob[a]] = NotificationForApproval(to)
         /\ \A k \in Jobs : k # apprJob[a] => notif'[k] = notif[k]
  BY Tables, Zenon DEF UpdateApprovalStatus, NotifyApproval, NotifyAs

-----------------------------------------------------------------------------
(* Every step keeps Told.                                                  *)

(* A message begins a job that nobody has heard of.                        *)
LEMMA SendMessageKeeps ==
  ASSUME ToldInv, NEW j \in Jobs, SendMessage(j)
  PROVE  Told'
  <1>1. /\ api.op = "idle" /\ api.job \notin Jobs
        /\ jobStatus[j] = "none" /\ jobStatus'[j] = "queued"
        /\ \A k \in Jobs : k # j => jobStatus'[k] = jobStatus[k]
        /\ Sent' = Sent \cup {j}
        /\ UNCHANGED <<notif, appr, apprJob, apprKind, told, api, applying, direct, turn, call,
                       effects, granted, crashes>>
        /\ j \notin Sent /\ notif[j] = "none" /\ turn[j] = "idle" /\ ~direct[j]
        /\ \A b \in Approvals : apprJob[b] # j
    BY Tables, SentFacts, FreshJob, Zenon DEF SendMessage, ApiIdle, apiVars, workerVars,
           historyVars
  <1>2. ReplyInv'
    BY <1>1, ReplyPart, Zenon DEF ReplyInv, ApprovalsOf, Ended, TerminalJobStatus
  <1>3. \A k \in Jobs : JobInv(k)'
    BY <1>1, JobPart, ZenonT(60) DEF JobInv, ApprovalsOf, Ended, TerminalJobStatus
  <1>4. \A k \in Jobs : WaitInv(k)'
    BY <1>1, WaitPart DEF WaitInv, ApprovalsOf
  <1>5. \A b \in Approvals : RequestInv(b)'
    BY <1>1, RequestPart, Zenon DEF RequestInv, Ended, TerminalJobStatus
  <1> QED BY <1>2, <1>3, <1>4, <1>5, Zenon DEF Told

(* A proposal route begins a job, and will record its approval next.       *)
LEMMA ProposeActionKeeps ==
  ASSUME ToldInv, NEW j \in Jobs, ProposeAction(j)
  PROVE  Told'
  <1>1. /\ api.op = "idle" /\ api.job \notin Jobs
        /\ jobStatus[j] = "none"
        /\ jobStatus'[j] = "waiting_approval"
        /\ notif'[j] = "pending_approval"
        /\ \A k \in Jobs : k # j => jobStatus'[k] = jobStatus[k] /\ notif'[k] = notif[k]
        /\ api'.op = "approval" /\ api'.job = j
        /\ Sent' = Sent
        /\ UNCHANGED <<appr, apprJob, apprKind, told, applying, direct, turn, call, effects,
                       granted, crashes>>
        /\ j \notin Sent /\ notif[j] = "none" /\ turn[j] = "idle" /\ ~direct[j]
        /\ \A b \in Approvals : apprJob[b] # j
    BY Tables, FreshJob, Zenon DEF ProposeAction, ApiIdle, workerVars, historyVars
  <1>2. ReplyInv'
    BY <1>1, ReplyPart, Zenon DEF ReplyInv, ApprovalsOf, Ended, TerminalJobStatus
  <1>3. \A k \in Jobs : JobInv(k)'
    BY <1>1, JobPart DEF JobInv, ApprovalsOf, Ended, TerminalJobStatus
  <1>4. \A k \in Jobs : WaitInv(k)'
    BY <1>1, WaitPart DEF WaitInv, ApprovalsOf
  <1>5. \A b \in Approvals : RequestInv(b)'
    BY <1>1, RequestPart, ZenonT(60) DEF RequestInv, Ended, TerminalJobStatus
  <1> QED BY <1>2, <1>3, <1>4, <1>5, Zenon DEF Told

(* A direct action begins a job that has no approval.                      *)
LEMMA StartDirectKeeps ==
  ASSUME ToldInv, NEW j \in Jobs, StartDirect(j)
  PROVE  Told'
  <1>1. /\ api.op = "idle" /\ api.job \notin Jobs
        /\ jobStatus[j] = "none" /\ jobStatus'[j] = "running" /\ notif'[j] = "running"
        /\ direct'[j]
        /\ \A k \in Jobs : k # j =>
               /\ jobStatus'[k] = jobStatus[k]
               /\ notif'[k] = notif[k]
               /\ direct'[k] = direct[k]
        /\ Sent' = Sent
        /\ UNCHANGED <<api, appr, apprJob, apprKind, told, applying, turn, call, effects,
                       granted, crashes>>
        /\ j \notin Sent /\ notif[j] = "none" /\ turn[j] = "idle" /\ ~direct[j]
        /\ \A b \in Approvals : apprJob[b] # j
    BY Tables, FreshJob, Zenon DEF StartDirect, ApiIdle, workerVars, historyVars
  <1>2. ReplyInv'
    BY <1>1, ReplyPart, Zenon DEF ReplyInv, ApprovalsOf, Ended, TerminalJobStatus
  <1>3. \A k \in Jobs : JobInv(k)'
    BY <1>1, JobPart DEF JobInv, ApprovalsOf, Ended, TerminalJobStatus
  <1>4. \A k \in Jobs : WaitInv(k)'
    BY <1>1, WaitPart DEF WaitInv, ApprovalsOf
  <1>5. \A b \in Approvals : RequestInv(b)'
    BY <1>1, RequestPart DEF RequestInv, Ended, TerminalJobStatus
  <1> QED BY <1>2, <1>3, <1>4, <1>5, Zenon DEF Told

(* A cancelled job has ended, and its pending approvals with it.           *)
LEMMA CancelKeeps ==
  ASSUME ToldInv, NEW j \in Jobs, Cancel(j)
  PROVE  Told'
  <1>1. /\ api.op = "idle" /\ api.job \notin Jobs
        /\ jobStatus[j] # "none" /\ jobStatus'[j] = "cancelled"
        /\ notif'[j] \in {"none", "cancelled"} /\ (notif[j] = "none" => notif'[j] = "none")
        /\ \A k \in Jobs : k # j => jobStatus'[k] = jobStatus[k] /\ notif'[k] = notif[k]
        /\ \A b \in Approvals :
               appr'[b] = appr[b] \/ (apprJob[b] = j /\ appr[b] = "pending" /\ appr'[b] = "expired")
        /\ api'.op = "event" /\ api'.job = j
        /\ Sent' = Sent
        /\ UNCHANGED <<apprJob, apprKind, told, applying, direct, turn, call, effects, granted,
                       crashes>>
    BY Tables, Zenon DEF Cancel, ApiIdle, ActiveJobStatus, ApprovalsOf, workerVars, NotifyJob,
           NotifyAs, NotificationForJob
  <1>2. ReplyInv'
    BY <1>1, ReplyPart, Zenon DEF ReplyInv, ApprovalsOf, Ended, TerminalJobStatus
  <1>3. \A k \in Jobs : JobInv(k)'
    BY <1>1, JobPart DEF JobInv, ApprovalsOf, Ended, TerminalJobStatus
  <1>4. \A k \in Jobs : WaitInv(k)'
    BY <1>1, WaitPart DEF WaitInv, ApprovalsOf
  <1>5. \A b \in Approvals : RequestInv(b)'
    BY <1>1, RequestPart DEF RequestInv, Ended, TerminalJobStatus
  <1> QED BY <1>2, <1>3, <1>4, <1>5, Zenon DEF Told

(* An approved operation has a handler.                                    *)
LEMMA ApproveKeeps ==
  ASSUME ToldInv, NEW a \in Approvals, Approve(a)
  PROVE  Told'
  <1>1. /\ api.op = "idle" /\ api.job \notin Jobs
        /\ appr[a] = "pending" /\ appr'[a] = "approved" /\ apprJob[a] \in Jobs
        /\ notif'[apprJob[a]] \in {"none", "running"}
        /\ (notif[apprJob[a]] = "none" => notif'[apprJob[a]] = "none")
        /\ \A k \in Jobs : k # apprJob[a] => notif'[k] = notif[k]
        /\ \A b \in Approvals : b # a => appr'[b] = appr[b] /\ applying'[b] = applying[b]
        /\ applying'[a] = IF apprKind[a] = "operation" THEN "applying" ELSE applying[a]
        /\ granted' = granted \cup {a} /\ Sent' = Sent
        /\ UNCHANGED <<jobStatus, api, apprJob, apprKind, told, direct, turn, call, effects,
                       crashes>>
    BY Tables, ApprovalFacts, DecisionFacts DEF Approve, ApiIdle, workerVars,
           NotificationForApproval
  <1>2. ReplyInv'
    BY <1>1, ReplyPart, Zenon DEF ReplyInv, ApprovalsOf, Ended, TerminalJobStatus
  <1>3. \A k \in Jobs : JobInv(k)'
    BY <1>1, JobPart DEF JobInv, ApprovalsOf, Ended, TerminalJobStatus
  <1>4. \A k \in Jobs : WaitInv(k)'
    BY <1>1, WaitPart DEF WaitInv, ApprovalsOf
  <1>5. \A b \in Approvals : RequestInv(b)'
    BY <1>1, RequestPart DEF RequestInv, Ended, TerminalJobStatus
  <1> QED BY <1>2, <1>3, <1>4, <1>5, Zenon DEF Told

(* A rejected operation is not carried out, and its handler completes the job.*)
LEMMA RejectKeeps ==
  ASSUME ToldInv, NEW a \in Approvals, Reject(a)
  PROVE  Told'
  <1>1. /\ api.op = "idle" /\ api.job \notin Jobs
        /\ appr[a] = "pending"
        /\ appr'[a] = "rejected"
        /\ apprJob[a] \in Jobs
        /\ a \notin granted
        /\ notif'[apprJob[a]] \in {"none", "rejected"}
        /\ (notif[apprJob[a]] = "none" => notif'[apprJob[a]] = "none")
        /\ \A k \in Jobs : k # apprJob[a] => notif'[k] = notif[k]
        /\ \A b \in Approvals : b # a => appr'[b] = appr[b]
        /\ IF apprKind[a] = "tool"
           THEN api' = api
           ELSE /\ api'.op = "job"
                /\ api'.job = apprJob[a]
                /\ api'.to = "completed"
                /\ api'.from = {"waiting_approval"}
                /\ apprKind[a] = "operation"
        /\ Sent' = Sent
        /\ UNCHANGED <<jobStatus, apprJob, apprKind, told, applying, direct, turn, call,
                       effects, granted, crashes>>
    BY Tables, ApprovalFacts, DecisionFacts, Zenon DEF Reject, ApiIdle, workerVars, historyVars,
           NotificationForApproval
  <1>2. ReplyInv'
    BY <1>1, ReplyPart, RequestPart, Zenon DEF ReplyInv, RequestInv, ApprovalsOf, Ended,
           TerminalJobStatus
  <1>3. \A k \in Jobs : JobInv(k)'
    BY <1>1, JobPart DEF JobInv, ApprovalsOf, Ended, TerminalJobStatus
  <1>4. \A k \in Jobs : WaitInv(k)'
    BY <1>1, WaitPart DEF WaitInv, ApprovalsOf
  <1>5. \A b \in Approvals : RequestInv(b)'
    BY <1>1, RequestPart DEF RequestInv, Ended, TerminalJobStatus
  <1> QED BY <1>2, <1>3, <1>4, <1>5, Zenon DEF Told

(* A session goes with its jobs, none of which is active.                  *)
LEMMA DeleteSessionKeeps ==
  ASSUME ToldInv, NEW s \in Sessions, DeleteSession(s)
  PROVE  Told'
  <1>1. /\ api.op = "idle" /\ api.job \notin Jobs
        /\ \A k \in Jobs :
               jobStatus'[k] = jobStatus[k] \/ (jobStatus[k] # "none" /\ jobStatus'[k] = "deleted")
        /\ \A k \in Jobs : notif'[k] \in {notif[k], "none"}
        /\ \A b \in Approvals : appr'[b] \in {appr[b], "deleted"}
        /\ \A b \in Approvals : apprJob[b] \in Jobs /\ jobStatus[apprJob[b]] = "waiting_approval" =>
               /\ appr'[b] = appr[b]
        /\ Sent' = Sent
        /\ UNCHANGED <<api, apprJob, apprKind, told, applying, direct, turn, call, effects,
                       granted, crashes>>
    BY Tables, Zenon DEF DeleteSession, JobsOf, JobRowExists, ApiIdle, ActiveJobStatus, apiVars,
           workerVars, historyVars
  <1>2. ReplyInv'
    BY <1>1, ReplyPart, Zenon DEF ReplyInv, ApprovalsOf, Ended, TerminalJobStatus
  <1>3. \A k \in Jobs : JobInv(k)'
    BY <1>1, JobPart DEF JobInv, ApprovalsOf, Ended, TerminalJobStatus
  <1>4. \A k \in Jobs : WaitInv(k)'
    BY <1>1, WaitPart DEF WaitInv, ApprovalsOf
  <1>5. \A b \in Approvals : RequestInv(b)'
    BY <1>1, RequestPart DEF RequestInv, Ended, TerminalJobStatus
  <1> QED BY <1>2, <1>3, <1>4, <1>5, Zenon DEF Told

(* The handler moves the job it knows, if it is still where it left it.    *)
LEMMA SettleJobKeeps ==
  ASSUME ToldInv, SettleJob
  PROVE  Told'
  <1>1. /\ api.op = "job" /\ api.job \in Jobs /\ api'.op = "event" /\ api'.job = api.job
        /\ jobStatus'[api.job] = IF jobStatus[api.job] \in api.from THEN api.to ELSE jobStatus[api.job]
        /\ api.to \in Ended
        /\ \/ notif'[api.job] = notif[api.job]
           \/ (notif[api.job] # "none" /\ notif'[api.job] \in {"failed", "cancelled"})
           \/ (notif[api.job] \notin {"none", "rejected"} /\ notif'[api.job] = "succeeded" /\ api.to = "completed")
        /\ \A k \in Jobs : k # api.job => jobStatus'[k] = jobStatus[k] /\ notif'[k] = notif[k]
        /\ Sent' = Sent
        /\ UNCHANGED <<appr, apprJob, apprKind, told, applying, direct, turn, call, effects,
                       granted, crashes>>
    BY Tables, HandlerPart DEF SettleJob, UpdateJobStatus, HandlerInv, TerminalJobStatus,
           Ended, workerVars, historyVars, NotifyJob, NotifyAs, NotificationForJob
  <1>2. api.to = "completed" /\ notif[api.job] \notin {"none", "rejected"} =>
          \A b \in Approvals : apprJob[b] = api.job /\ apprKind[b] = "operation" => effects[b] = 1
    BY <1>1, ReplyPart, Zenon DEF ReplyInv, ApprovalsOf
  <1>3. ReplyInv'
    BY <1>1, <1>2, ReplyPart, Zenon DEF ReplyInv, ApprovalsOf, Ended, TerminalJobStatus
  <1>4. \A k \in Jobs : JobInv(k)'
    BY <1>1, <1>2, JobPart DEF JobInv, ApprovalsOf, Ended, TerminalJobStatus
  <1>5. \A k \in Jobs : WaitInv(k)'
    BY <1>1, <1>2, WaitPart DEF WaitInv, ApprovalsOf, Ended, TerminalJobStatus
  <1>6. \A b \in Approvals : RequestInv(b)'
    BY <1>1, <1>2, RequestPart DEF RequestInv, Ended, TerminalJobStatus
  <1> QED BY <1>3, <1>4, <1>5, <1>6, Zenon DEF Told

(* The handler tells the session of a job that has ended.                  *)
LEMMA SettleEventKeeps ==
  ASSUME ToldInv, SettleEvent
  PROVE  Told'
  <1>1. /\ api.op = "event" /\ api.job \in Jobs
        /\ api'.op = "idle" /\ api'.job = NoJob /\ NoJob \notin Jobs
        /\ \A k \in Jobs : k # api.job => told'[k] = told[k]
        /\ Sent' = Sent
        /\ UNCHANGED <<jobStatus, notif, appr, apprJob, apprKind, applying, direct, turn, call,
                       effects, granted, crashes>>
        /\ ~LocalFallback => jobStatus[api.job] \in Ended
    BY Tables, HandlerPart, ReplyPart, Zenon DEF SettleEvent, AppendEvent, HandlerInv, ApiIdle,
           workerVars, historyVars, ReplyInv
  <1>2. \A b \in Approvals : RequestInv(b)'
    BY <1>1, Frames, Zenon
  <1>3. ReplyInv'
    BY <1>1, ReplyPart, Zenon DEF ReplyInv, ApprovalsOf, Ended, TerminalJobStatus
  <1>4. \A k \in Jobs : JobInv(k)'
    BY <1>1, JobPart DEF JobInv, ApprovalsOf, Ended, TerminalJobStatus
  <1>5. \A k \in Jobs : WaitInv(k)'
    BY <1>1, WaitPart, Zenon DEF WaitInv, ApprovalsOf, Ended, TerminalJobStatus
  <1> QED BY <1>2, <1>3, <1>4, <1>5, Zenon DEF Told

(* The approval of a proposal is the first of its job.                     *)
LEMMA ProposeApprovalKeeps ==
  ASSUME ToldInv, NEW a \in Approvals, ProposeApproval(a)
  PROVE  Told'
  <1>1. /\ api.op = "approval" /\ api.job \in Jobs /\ api.job # NoJob
        /\ api'.op = "idle" /\ api'.job = NoJob /\ NoJob \notin Jobs
        /\ appr[a] = "none"
        /\ appr'[a] = "pending"
        /\ apprJob'[a] = api.job
        /\ apprKind'[a] = "operation"
        /\ \A b \in Approvals : b # a =>
               /\ appr'[b] = appr[b]
               /\ apprJob'[b] = apprJob[b]
               /\ apprKind'[b] = apprKind[b]
        /\ Sent' = Sent
        /\ UNCHANGED <<jobStatus, notif, told, applying, direct, turn, call, effects, granted,
                       crashes>>
        /\ apprJob[a] = NoJob
        /\ apprKind[a] # "operation"
        /\ call[a] = "no"
        /\ applying[a] = "no"
        /\ a \notin granted /\ NoJob \notin Jobs
    BY Tables, HandlerPart, FreshApproval, Zenon DEF ProposeApproval, InsertApproval, HandlerInv,
           ApiIdle, workerVars, historyVars
  <1>2. /\ api.job \notin Sent /\ ~direct[api.job] /\ notif[api.job] = "pending_approval"
        /\ jobStatus[api.job] \in {"waiting_approval"} \cup Ended
        /\ \A b \in Approvals : apprJob[b] # api.job
    BY <1>1, ReplyPart, Zenon DEF ReplyInv, ApprovalsOf
  <1>3. ReplyInv'
    BY <1>1, <1>2, ReplyPart, Zenon DEF ReplyInv, ApprovalsOf, Ended, TerminalJobStatus
  <1>4. \A k \in Jobs : JobInv(k)'
    BY <1>1, <1>2, JobPart DEF JobInv, ApprovalsOf, Ended, TerminalJobStatus
  <1>5. \A k \in Jobs : WaitInv(k)'
    BY <1>1, <1>2, WaitPart DEF WaitInv, ApprovalsOf
  <1>6. \A b \in Approvals : RequestInv(b)'
    BY <1>1, <1>2, RequestPart DEF RequestInv, Ended, TerminalJobStatus
  <1> QED BY <1>3, <1>4, <1>5, <1>6, Zenon DEF Told

(* An operation that runs has not been carried out before.                 *)
LEMMA ApplyChangeKeeps ==
  ASSUME ToldInv, NEW a \in Approvals, ApplyChange(a)
  PROVE  Told'
  <1>1. /\ applying[a] = "applying"
        /\ applying'[a] = "applied"
        /\ effects[a] = 0
        /\ effects'[a] = 1
        /\ \A b \in Approvals : b # a => applying'[b] = applying[b] /\ effects'[b] = effects[b]
        /\ Sent' = Sent
        /\ UNCHANGED <<api, jobStatus, notif, appr, apprJob, apprKind, told, direct, turn, call,
                       granted, crashes>>
    BY Tables, ApprovalPart DEF ApplyChange, ApprovalInv, dbVars, workerVars
  <1>2. \A k \in Jobs : JobInv(k)'
    BY <1>1, Frames, Zenon
  <1>3. ReplyInv'
    BY <1>1, ReplyPart, Zenon DEF ReplyInv, ApprovalsOf, Ended, TerminalJobStatus
  <1>4. \A k \in Jobs : WaitInv(k)'
    BY <1>1, WaitPart DEF WaitInv, ApprovalsOf
  <1>5. \A b \in Approvals : RequestInv(b)'
    BY <1>1, RequestPart, ZenonT(60) DEF RequestInv, Ended, TerminalJobStatus
  <1> QED BY <1>2, <1>3, <1>4, <1>5, Zenon DEF Told

(* The approve handler completes a job only after its operation was carried out.*)
LEMMA ApplyReturnsKeeps ==
  ASSUME ToldInv, NEW a \in Approvals, NEW to \in {"completed", "failed"}, ApplyReturns(a, to)
  PROVE  Told'
  <1>1. /\ api.op = "idle" /\ api.job \notin Jobs
        /\ apprKind[a] = "operation"
        /\ apprJob[a] \in Jobs
        /\ applying'[a] = "no"
        /\ (to = "completed" => effects[a] = 1)
        /\ \A b \in Approvals : b # a => appr'[b] = appr[b] /\ applying'[b] = applying[b]
        /\ appr'[a] = appr[a] \/ appr'[a] \in {"applied", "failed"}
        /\ api'.op = "job"
        /\ api'.job = apprJob[a]
        /\ api'.to = to
        /\ api'.from = {"waiting_approval"}
        /\ \A k \in Jobs : k # apprJob[a] => notif'[k] = notif[k]
        /\ \/ notif'[apprJob[a]] = notif[apprJob[a]]
           \/ (notif[apprJob[a]] # "none" /\ notif'[apprJob[a]] = "failed")
           \/ (notif[apprJob[a]] # "none" /\ notif'[apprJob[a]] = "succeeded" /\ effects[a] = 1)
        /\ Sent' = Sent
        /\ UNCHANGED <<jobStatus, apprJob, apprKind, told, direct, turn, call, effects, granted,
                       crashes>>
    <2>1. /\ api = ApiIdle /\ applying[a] # "no" /\ (to = "completed" => applying[a] = "applied")
          /\ applying' = [applying EXCEPT ![a] = "no"] /\ created' = created
          /\ api' = [op |-> "job", job |-> apprJob[a], to |-> to, from |-> {"waiting_approval"}]
          /\ UNCHANGED <<jobStatus, apprJob, apprKind, told, direct, turn, call, effects, granted,
                         crashes>>
      BY Zenon DEF ApplyReturns, workerVars, historyVars
    <2>2. /\ apprJob[a] \in Jobs /\ apprKind[a] = "operation"
          /\ to = "completed" => effects[a] = 1
      BY <2>1, ApprovalFacts, Zenon
    <2>3. \/ UNCHANGED <<appr, notif>>
          \/ UpdateApprovalStatus(a, IF to = "completed" THEN "applied" ELSE "failed")
      BY Zenon DEF ApplyReturns
    <2>4. CASE UNCHANGED <<appr, notif>>
      BY <2>1, <2>2, <2>4, Tables, Zenon DEF ApiIdle
    <2>5. CASE UpdateApprovalStatus(a, IF to = "completed" THEN "applied" ELSE "failed")
      BY <2>1, <2>2, <2>5, Tables, DecisionFacts, Zenon DEF ApiIdle, NotificationForApproval
    <2> QED BY <2>3, <2>4, <2>5, Zenon
  <1>2. ReplyInv'
    BY <1>1, ReplyPart, JobPart, RequestPart DEF ReplyInv, JobInv, RequestInv, ApprovalsOf,
           Ended, TerminalJobStatus
  <1>3. \A k \in Jobs : JobInv(k)'
    BY <1>1, JobPart DEF JobInv, ApprovalsOf, Ended, TerminalJobStatus
  <1>4. \A k \in Jobs : WaitInv(k)'
    BY <1>1, WaitPart DEF WaitInv, ApprovalsOf
  <1>5. \A b \in Approvals : RequestInv(b)'
    BY <1>1, RequestPart DEF RequestInv, Ended, TerminalJobStatus
  <1> QED BY <1>2, <1>3, <1>4, <1>5, Zenon DEF Told

(* A direct action that returns has no approvals.                          *)
LEMMA DirectReturnsKeeps ==
  ASSUME ToldInv, NEW j \in Jobs, NEW to \in {"completed", "failed"}, DirectReturns(j, to)
  PROVE  Told'
  <1>1. /\ api.op = "idle" /\ api.job \notin Jobs
        /\ direct[j] /\ ~direct'[j]
        /\ \A k \in Jobs : k # j => direct'[k] = direct[k]
        /\ api'.op = "job" /\ api'.job = j /\ api'.to = to /\ api'.from = {"running"}
        /\ Sent' = Sent
        /\ UNCHANGED <<jobStatus, notif, appr, apprJob, apprKind, told, applying, turn, call,
                       effects, granted, crashes>>
    BY Tables, Zenon DEF DirectReturns, ApiIdle, dbVars, workerVars, historyVars
  <1>2. \A b \in Approvals : RequestInv(b)'
    BY <1>1, Frames, Zenon
  <1>3. ReplyInv'
    BY SMTT(30), <1>1, ReplyPart, JobPart DEF ReplyInv, JobInv, ApprovalsOf, Ended, TerminalJobStatus
  <1>4. \A k \in Jobs : JobInv(k)'
    BY <1>1, JobPart DEF JobInv, ApprovalsOf, Ended, TerminalJobStatus
  <1>5. \A k \in Jobs : WaitInv(k)'
    BY <1>1, WaitPart, Zenon DEF WaitInv, ApprovalsOf
  <1> QED BY <1>2, <1>3, <1>4, <1>5, Zenon DEF Told

(* A crash of the API process loses handlers and no row.                   *)
LEMMA ApiCrashKeeps ==
  ASSUME ToldInv, ApiCrash
  PROVE  Told'
  <1>1. /\ api'.op = "idle" /\ api'.job = NoJob /\ NoJob \notin Jobs
        /\ \A b \in Approvals : applying'[b] = "no"
        /\ \A k \in Jobs : ~direct'[k]
        /\ crashes' # 0 /\ Sent' = Sent
        /\ UNCHANGED <<jobStatus, notif, appr, apprJob, apprKind, told, turn, call, effects,
                       granted>>
    BY Tables DEF ApiCrash, ApiIdle, dbVars, workerVars
  <1>2. ReplyInv'
    BY <1>1, ReplyPart, Zenon DEF ReplyInv, ApprovalsOf, Ended, TerminalJobStatus
  <1>3. \A k \in Jobs : JobInv(k)'
    BY <1>1, JobPart DEF JobInv, ApprovalsOf, Ended, TerminalJobStatus
  <1>4. \A k \in Jobs : WaitInv(k)'
    BY <1>1, WaitPart, Zenon DEF WaitInv, ApprovalsOf
  <1>5. \A b \in Approvals : RequestInv(b)'
    BY <1>1, RequestPart, Zenon DEF RequestInv, Ended, TerminalJobStatus
  <1> QED BY <1>2, <1>3, <1>4, <1>5, Zenon DEF Told

(* A tool call belongs to the turn of a message.                           *)
LEMMA RequestToolKeeps ==
  ASSUME ToldInv, NEW j \in Jobs, NEW a \in Approvals, RequestTool(j, a)
  PROVE  Told'
  <1>1. /\ ~LocalFallback /\ turn[j] = "thinking" /\ jobStatus[j] # "none"
        /\ appr[a] = "none" /\ appr'[a] = "pending" /\ apprJob'[a] = j /\ apprKind'[a] = "tool"
        /\ \A b \in Approvals : b # a =>
               /\ appr'[b] = appr[b]
               /\ apprJob'[b] = apprJob[b]
               /\ apprKind'[b] = apprKind[b]
               /\ call'[b] = call[b]
        /\ Sent' = Sent
        /\ UNCHANGED <<api, jobStatus, notif, told, applying, direct, turn, effects, granted,
                       crashes>>
        /\ j \in Sent /\ notif[j] = "none"
        /\ apprJob[a] = NoJob
        /\ apprKind[a] # "operation"
        /\ call[a] = "no"
        /\ applying[a] = "no"
        /\ a \notin granted /\ NoJob \notin Jobs
    BY Tables, JobPart, FreshApproval, Zenon DEF RequestTool, InsertApproval, JobRowExists,
           apiVars, historyVars, JobInv
  <1>2. ReplyInv'
    BY SMTT(30), <1>1, ReplyPart DEF ReplyInv, ApprovalsOf, Ended, TerminalJobStatus
  <1>3. \A k \in Jobs : JobInv(k)'
    BY <1>1, JobPart DEF JobInv, ApprovalsOf, Ended, TerminalJobStatus
  <1>4. \A k \in Jobs : WaitInv(k)'
    BY <1>1, WaitPart DEF WaitInv, ApprovalsOf
  <1>5. \A b \in Approvals : RequestInv(b)'
    BY <1>1, RequestPart DEF RequestInv, Ended, TerminalJobStatus
  <1> QED BY <1>2, <1>3, <1>4, <1>5, Zenon DEF Told

(* The local agent proposes a change in the turn of a message.             *)
LEMMA ProposeChangeKeeps ==
  ASSUME ToldInv, NEW j \in Jobs, NEW a \in Approvals, ProposeChange(j, a)
  PROVE  Told'
  <1>1. /\ LocalFallback
        /\ turn[j] = "thinking"
        /\ turn'[j] = "proposed"
        /\ jobStatus[j] # "none"
        /\ \A k \in Jobs : k # j => turn'[k] = turn[k]
        /\ appr[a] = "none"
        /\ appr'[a] = "pending"
        /\ apprJob'[a] = j
        /\ apprKind'[a] = "operation"
        /\ \A b \in Approvals : b # a =>
               /\ appr'[b] = appr[b]
               /\ apprJob'[b] = apprJob[b]
               /\ apprKind'[b] = apprKind[b]
        /\ Sent' = Sent
        /\ UNCHANGED <<api, jobStatus, notif, told, applying, direct, call, effects, granted,
                       crashes>>
        /\ j \in Sent /\ notif[j] = "none"
        /\ apprJob[a] = NoJob
        /\ apprKind[a] # "operation"
        /\ call[a] = "no"
        /\ applying[a] = "no"
        /\ a \notin granted /\ NoJob \notin Jobs
    BY Tables, JobPart, FreshApproval, Zenon DEF ProposeChange, InsertApproval, JobRowExists,
           apiVars, historyVars, JobInv
  <1>2. ReplyInv'
    BY SMTT(30), <1>1, ReplyPart DEF ReplyInv, ApprovalsOf, Ended, TerminalJobStatus
  <1>3. \A k \in Jobs : JobInv(k)'
    BY <1>1, JobPart DEF JobInv, ApprovalsOf, Ended, TerminalJobStatus
  <1>4. \A k \in Jobs : WaitInv(k)'
    BY <1>1, WaitPart, Zenon DEF WaitInv, ApprovalsOf
  <1>5. \A b \in Approvals : RequestInv(b)'
    BY <1>1, RequestPart DEF RequestInv, Ended, TerminalJobStatus
  <1> QED BY <1>2, <1>3, <1>4, <1>5, Zenon DEF Told

(* A tick that was claimed begins its turn, or drops a cancelled job.      *)
LEMMA BeginTurnKeeps ==
  ASSUME ToldInv, NEW j \in Jobs, BeginTurn(j)
  PROVE  Told'
  <1>1. /\ turn[j] = "claimed"
        /\ \/ turn'[j] = "thinking"
           \/ (turn'[j] = "idle" /\ jobStatus[j] \in {"cancelled", "deleted"})
        /\ \A k \in Jobs : k # j => turn'[k] = turn[k]
        /\ Sent' = Sent
        /\ UNCHANGED <<api, jobStatus, notif, appr, apprJob, apprKind, told, applying, direct,
                       call, effects, granted, crashes>>
    BY Tables, Zenon DEF BeginTurn, dbVars, apiVars, historyVars
  <1>2. ReplyInv'
    BY <1>1, Frames, Zenon
  <1>3. \A k \in Jobs : JobInv(k)'
    BY <1>1, JobPart DEF JobInv, ApprovalsOf, Ended, TerminalJobStatus
  <1>4. \A k \in Jobs : WaitInv(k)'
    BY <1>1, WaitPart, Zenon DEF WaitInv, ApprovalsOf
  <1>5. \A b \in Approvals : RequestInv(b)'
    BY <1>1, RequestPart, Zenon DEF RequestInv, Ended, TerminalJobStatus
  <1> QED BY <1>2, <1>3, <1>4, <1>5, Zenon DEF Told

(* Only a turn of the local agent returns with its job waiting.            *)
LEMMA ReturnWaitingKeeps ==
  ASSUME ToldInv, NEW j \in Jobs, ReturnWaiting(j)
  PROVE  Told'
  <1>1. /\ turn[j] = "proposed" /\ turn'[j] = "idle" /\ j \in Sent /\ LocalFallback
        /\ \A k \in Jobs : k # j => turn'[k] = turn[k] /\ jobStatus'[k] = jobStatus[k]
        /\ jobStatus'[j] = IF jobStatus[j] = "running" THEN "waiting_approval" ELSE jobStatus[j]
        /\ \A k \in Jobs : notif'[k] = notif[k]
        /\ Sent' = Sent
        /\ UNCHANGED <<api, appr, apprJob, apprKind, told, applying, direct, call, effects,
                       granted, crashes>>
    BY Tables, JobPart, Zenon DEF ReturnWaiting, UpdateJobStatus, JobInv, apiVars, historyVars,
           NotifyJob, NotifyAs, NotificationForJob
  <1>2. ReplyInv'
    BY <1>1, ReplyPart, Zenon DEF ReplyInv, ApprovalsOf, Ended, TerminalJobStatus
  <1>3. \A k \in Jobs : JobInv(k)'
    BY <1>1, JobPart DEF JobInv, ApprovalsOf, Ended, TerminalJobStatus
  <1>4. \A k \in Jobs : WaitInv(k)'
    BY <1>1, WaitPart, Zenon DEF WaitInv, ApprovalsOf
  <1>5. \A b \in Approvals : RequestInv(b)'
    BY <1>1, RequestPart, ZenonT(60) DEF RequestInv, Ended, TerminalJobStatus
  <1> QED BY <1>2, <1>3, <1>4, <1>5, Zenon DEF Told

(* A turn that returns ends its job, or drops one that has ended.          *)
LEMMA ReturnResultKeeps ==
  ASSUME ToldInv, NEW j \in Jobs, NEW to \in {"completed", "failed"}, ReturnResult(j, to)
  PROVE  Told'
  <1>1. /\ turn[j] = "thinking"
        /\ j \in Sent
        /\ \A b \in Approvals : apprJob[b] = j => call[b] = "no"
        /\ \A k \in Jobs : k # j => turn'[k] = turn[k] /\ jobStatus'[k] = jobStatus[k]
        /\ IF jobStatus[j] \in {"running", "waiting_approval"}
           THEN jobStatus'[j] = to /\ turn'[j] = to
           ELSE jobStatus'[j] = jobStatus[j] /\ turn'[j] = "idle"
        /\ \A k \in Jobs : notif'[k] = notif[k]
        /\ Sent' = Sent
        /\ UNCHANGED <<api, appr, apprJob, apprKind, told, applying, direct, call, effects,
                       granted, crashes>>
    BY Tables, JobPart, ZenonT(60) DEF ReturnResult, UpdateJobStatus, JobInv, apiVars, historyVars,
           NotifyJob, NotifyAs, NotificationForJob, ApprovalsOf
  <1>2. ReplyInv'
    BY <1>1, ReplyPart, Zenon DEF ReplyInv, ApprovalsOf, Ended, TerminalJobStatus
  <1>3. \A k \in Jobs : JobInv(k)'
    BY <1>1, JobPart DEF JobInv, ApprovalsOf, Ended, TerminalJobStatus
  <1>4. \A k \in Jobs : WaitInv(k)'
    BY <1>1, WaitPart DEF WaitInv, ApprovalsOf
  <1>5. \A b \in Approvals : RequestInv(b)'
    BY <1>1, RequestPart DEF RequestInv, Ended, TerminalJobStatus
  <1> QED BY <1>2, <1>3, <1>4, <1>5, Zenon DEF Told

(* The worker tells the session of a job it has ended.                     *)
LEMMA EmitResultKeeps ==
  ASSUME ToldInv, NEW j \in Jobs, EmitResult(j)
  PROVE  Told'
  <1>1. /\ turn'[j] = "idle" /\ jobStatus[j] \in Ended /\ turn[j] # "thinking"
        /\ \A k \in Jobs : k # j => turn'[k] = turn[k] /\ told'[k] = told[k]
        /\ Sent' = Sent
        /\ UNCHANGED <<api, jobStatus, notif, appr, apprJob, apprKind, applying, direct, call,
                       effects, granted, crashes>>
    BY Tables, JobPart, Zenon DEF EmitResult, AppendEvent, JobInv, apiVars, historyVars
  <1>2. ReplyInv'
    BY <1>1, Frames, Zenon
  <1>3. \A k \in Jobs : JobInv(k)'
    BY <1>1, JobPart DEF JobInv, ApprovalsOf, Ended, TerminalJobStatus
  <1>4. \A k \in Jobs : WaitInv(k)'
    BY <1>1, WaitPart, Zenon DEF WaitInv, ApprovalsOf, Ended, TerminalJobStatus
  <1>5. \A b \in Approvals : RequestInv(b)'
    BY <1>1, RequestPart, ZenonT(60) DEF RequestInv, Ended, TerminalJobStatus
  <1> QED BY <1>2, <1>3, <1>4, <1>5, Zenon DEF Told

(* A job waits for a tool during its turn.                                 *)
LEMMA MarkWaitingForApprovalKeeps ==
  ASSUME ToldInv, NEW a \in Approvals, MarkWaitingForApproval(a)
  PROVE  Told'
  <1>1. /\ call[a] = "requested"
        /\ call'[a] = "polling"
        /\ apprJob[a] \in Sent
        /\ apprJob[a] \in Jobs
        /\ turn[apprJob[a]] = "thinking"
        /\ \A b \in Approvals : b # a => call'[b] = call[b]
        /\ \A k \in Jobs : k # apprJob[a] => jobStatus'[k] = jobStatus[k]
        /\ jobStatus'[apprJob[a]] = IF jobStatus[apprJob[a]] = "running" THEN "waiting_approval" ELSE jobStatus[apprJob[a]]
        /\ \A k \in Jobs : notif'[k] = notif[k]
        /\ Sent' = Sent
        /\ UNCHANGED <<api, appr, apprJob, apprKind, told, applying, direct, turn, effects,
                       granted, crashes>>
    BY Tables, ApprovalFacts, RequestPart, JobPart DEF MarkWaitingForApproval,
           UpdateJobStatus, RequestInv, JobInv, apiVars, historyVars, NotifyJob, NotifyAs,
           NotificationForJob
  <1>2. ReplyInv'
    BY <1>1, ReplyPart, Zenon DEF ReplyInv, ApprovalsOf, Ended, TerminalJobStatus
  <1>3. \A k \in Jobs : JobInv(k)'
    BY <1>1, JobPart DEF JobInv, ApprovalsOf, Ended, TerminalJobStatus
  <1>4. \A k \in Jobs : WaitInv(k)'
    BY <1>1, WaitPart DEF WaitInv, ApprovalsOf
  <1>5. \A b \in Approvals : RequestInv(b)'
    BY <1>1, RequestPart, ZenonT(60) DEF RequestInv, Ended, TerminalJobStatus
  <1> QED BY <1>2, <1>3, <1>4, <1>5, Zenon DEF Told

(* A tool call that has its decision leaves every row alone.               *)
LEMMA WaitForApprovalDecisionKeeps ==
  ASSUME ToldInv, NEW a \in Approvals, WaitForApprovalDecision(a)
  PROVE  Told'
  <1>1. /\ call[a] # "no"
        /\ \A b \in Approvals : b # a => call'[b] = call[b]
        /\ Sent' = Sent
        /\ UNCHANGED <<api, jobStatus, notif, appr, apprJob, apprKind, told, applying, direct,
                       turn, effects, granted, crashes>>
    BY Tables, Zenon DEF WaitForApprovalDecision, dbVars, apiVars, historyVars
  <1>2. ReplyInv' /\ (\A k \in Jobs : JobInv(k)') /\ (\A k \in Jobs : WaitInv(k)')
    BY <1>1, Frames, Zenon
  <1>3. \A b \in Approvals : RequestInv(b)'
    BY <1>1, RequestPart, Zenon DEF RequestInv, Ended, TerminalJobStatus
  <1> QED BY <1>2, <1>3, Zenon DEF Told

(* A tool that runs is not an operation.                                   *)
LEMMA ExecuteToolKeeps ==
  ASSUME ToldInv, NEW a \in Approvals, ExecuteTool(a)
  PROVE  Told'
  <1>1. /\ apprKind[a] # "operation" /\ applying[a] = "no" /\ call'[a] = "no"
        /\ \A b \in Approvals : b # a => call'[b] = call[b] /\ effects'[b] = effects[b]
        /\ Sent' = Sent
        /\ UNCHANGED <<api, jobStatus, notif, appr, apprJob, apprKind, told, applying, direct,
                       turn, granted, crashes>>
    BY Tables, ApprovalFacts, Zenon DEF ExecuteTool, dbVars, apiVars
  <1>2. (\A k \in Jobs : JobInv(k)') /\ (\A k \in Jobs : WaitInv(k)')
    BY <1>1, Frames, Zenon
  <1>3. ReplyInv'
    BY <1>1, ReplyPart, Zenon DEF ReplyInv, ApprovalsOf, Ended, TerminalJobStatus
  <1>4. \A b \in Approvals : RequestInv(b)'
    BY <1>1, RequestPart, ZenonT(60) DEF RequestInv, Ended, TerminalJobStatus
  <1> QED BY <1>2, <1>3, <1>4, Zenon DEF Told

(* A crash of the worker loses its turns and no row.                       *)
LEMMA WorkerCrashKeeps ==
  ASSUME ToldInv, WorkerCrash
  PROVE  Told'
  <1>1. /\ \A k \in Jobs : turn'[k] = "idle"
        /\ \A b \in Approvals : call'[b] = "no"
        /\ crashes' # 0 /\ Sent' = Sent
        /\ UNCHANGED <<api, jobStatus, notif, appr, apprJob, apprKind, told, applying, direct,
                       effects, granted>>
    BY Tables DEF WorkerCrash, dbVars, apiVars
  <1>2. ReplyInv'
    BY <1>1, Frames, Zenon
  <1>3. \A k \in Jobs : JobInv(k)'
    BY <1>1, JobPart DEF JobInv, ApprovalsOf, Ended, TerminalJobStatus
  <1>4. \A k \in Jobs : WaitInv(k)'
    BY <1>1, WaitPart, Zenon DEF WaitInv, ApprovalsOf
  <1>5. \A b \in Approvals : RequestInv(b)'
    BY <1>1, RequestPart, ZenonT(60) DEF RequestInv, Ended, TerminalJobStatus
  <1> QED BY <1>2, <1>3, <1>4, <1>5, Zenon DEF Told

(* claimNextJob takes the job of a message, which has no notification.     *)
LEMMA ClaimNextJobKeeps ==
  ASSUME ToldInv, ClaimNextJob
  PROVE  Told'
  <1>1. PICK i \in DOMAIN created :
          /\ jobStatus[created[i]] = "queued"
          /\ \A k \in 1..(i - 1) : jobStatus[created[k]] # "queued"
          /\ jobStatus' = [jobStatus EXCEPT ![created[i]] = "running"]
          /\ notif' = [notif EXCEPT ![created[i]] = NotifyAs(@, "running", FALSE)]
          /\ turn' = [turn EXCEPT ![created[i]] = "claimed"]
    BY Zenon DEF ClaimNextJob
  <1>2. PICK j \in Jobs : j = created[i] /\ j \in Sent
    BY <1>1, SentFacts, Zenon DEF Sent
  <1>3. UNCHANGED <<created, appr, apprJob, apprKind, told, api, applying, direct, call, effects,
                    granted, crashes>>
    BY Zenon DEF ClaimNextJob, apiVars, historyVars
  <1>4. notif[j] = "none" /\ turn[j] = "idle"
    BY <1>1, <1>2, JobPart, Zenon DEF JobInv
  <1>5. /\ j \in Sent /\ Sent' = Sent
        /\ jobStatus[j] = "queued" /\ jobStatus'[j] = "running" /\ turn'[j] = "claimed"
        /\ \A k \in Jobs : k # j => jobStatus'[k] = jobStatus[k] /\ turn'[k] = turn[k]
        /\ \A k \in Jobs : notif'[k] = notif[k]
    BY <1>1, <1>2, <1>3, <1>4, Tables, Zenon DEF NotifyAs
  <1>6. ReplyInv'
    BY <1>3, <1>5, ReplyPart, Zenon DEF ReplyInv, ApprovalsOf, Ended, TerminalJobStatus
  <1>7. \A k \in Jobs : JobInv(k)'
    BY <1>3, <1>5, JobPart DEF JobInv, ApprovalsOf, Ended, TerminalJobStatus
  <1>8. \A k \in Jobs : WaitInv(k)'
    BY <1>3, <1>5, WaitPart DEF WaitInv, ApprovalsOf
  <1>9. \A b \in Approvals : RequestInv(b)'
    BY <1>3, <1>4, <1>5, RequestPart, ZenonT(60) DEF RequestInv, Ended, TerminalJobStatus
  <1> QED BY <1>6, <1>7, <1>8, <1>9, Zenon DEF Told

(* The worker process comes and goes between turns without touching a row. *)
LEMMA QuietStepsKeep ==
  ASSUME ToldInv, Shutdown \/ CloseDatabaseWhenIdle \/ WorkerStart \/ UNCHANGED vars
  PROVE  Told'
  <1>1. /\ Sent' = Sent /\ (crashes' = 0 => crashes = 0)
        /\ UNCHANGED <<api, jobStatus, notif, appr, apprJob, apprKind, told, applying, direct,
                       turn, call, effects, granted>>
    <2>1. CASE Shutdown
      BY <2>1, Tables DEF Shutdown, dbVars, apiVars
    <2>2. CASE CloseDatabaseWhenIdle \/ WorkerStart
      BY <2>2, Tables, Zenon DEF CloseDatabaseWhenIdle, WorkerStart, dbVars, apiVars, historyVars
    <2>3. CASE UNCHANGED vars
      BY <2>3, Tables, Zenon DEF vars, dbVars, apiVars, workerVars, historyVars
    <2> QED BY <2>1, <2>2, <2>3, Zenon
  <1>2. /\ ReplyInv' /\ \A k \in Jobs : JobInv(k)'
        /\ \A b \in Approvals : RequestInv(b)'
    BY <1>1, Frames, Zenon
  <1>3. \A k \in Jobs : WaitInv(k)'
    BY <1>1, WaitPart, Zenon DEF WaitInv, ApprovalsOf
  <1> QED BY <1>2, <1>3, Zenon DEF Told

(* Every step of the system is one of those.                               *)
LEMMA ToldStep ==
  ASSUME ToldInv, [Next]_vars
  PROVE  Told'
  <1>1. CASE UserRequest
    BY <1>1, SendMessageKeeps, ProposeActionKeeps, StartDirectKeeps, CancelKeeps, ApproveKeeps,
       RejectKeeps, DeleteSessionKeeps, Zenon DEF UserRequest
  <1>2. CASE ApiStep
    BY <1>2, SettleJobKeeps, SettleEventKeeps, ProposeApprovalKeeps, ApplyChangeKeeps,
       ApplyReturnsKeeps, DirectReturnsKeeps, Zenon DEF ApiStep
  <1>3. CASE AgentChoice
    BY <1>3, RequestToolKeeps, ProposeChangeKeeps, Zenon DEF AgentChoice
  <1>4. CASE TurnStep
    BY <1>4, BeginTurnKeeps, ReturnWaitingKeeps, EmitResultKeeps, ReturnResultKeeps,
       MarkWaitingForApprovalKeeps, WaitForApprovalDecisionKeeps, ExecuteToolKeeps, Zenon
       DEF TurnStep
  <1>5. CASE ApiCrash \/ ClaimNextJob \/ WorkerCrash
    BY <1>5, ApiCrashKeeps, ClaimNextJobKeeps, WorkerCrashKeeps, Zenon
  <1>6. CASE Shutdown \/ CloseDatabaseWhenIdle \/ WorkerStart \/ UNCHANGED vars
    BY <1>6, QuietStepsKeep, Zenon
  <1> QED BY <1>1, <1>2, <1>3, <1>4, <1>5, <1>6, Zenon DEF Next

(* Nothing has been asked for at first.                                    *)
LEMMA InitTold ==
  ASSUME Init
  PROVE  ToldInv
  <1>1. IInv
    BY JobsAssumption DEF Init, IInv, TypeOK, HandlerInv, ApprovalInv, ApiIdle, JobStatus,
       NotificationStatus, ApprovalStatus
  <1>2. Sent = {}
    BY DEF Init, Sent
  <1>3. \A j \in Jobs : ApprovalsOf(j) = {}
    BY JobsAssumption, Zenon DEF Init, ApprovalsOf
  <1>4. ReplyInv
    BY Zenon DEF Init, ReplyInv, ApiIdle
  <1>5. \A j \in Jobs : JobInv(j) /\ WaitInv(j)
    BY <1>2, <1>3, JobsAssumption, Zenon DEF Init, JobInv, WaitInv, ApiIdle
  <1>6. \A a \in Approvals : RequestInv(a)
    BY Zenon DEF Init, RequestInv
  <1> QED BY <1>1, <1>4, <1>5, <1>6, Zenon DEF ToldInv, Told

(* ToldInv holds in every reachable state, with either agent.              *)
THEOREM ToldInvariant == Spec => []ToldInv
  <1>1. Init => ToldInv
    BY InitTold, Zenon
  <1>2. ToldInv /\ [Next]_vars => ToldInv'
    <2> SUFFICES ASSUME ToldInv, [Next]_vars PROVE ToldInv'
      BY Zenon
    <2>1. IInv'
      BY TypeStep, HandlerStep, ApprovalStep, Zenon DEF ToldInv, IInv
    <2> QED BY <2>1, ToldStep, Zenon DEF ToldInv
  <1> QED BY <1>1, <1>2, PTL DEF Spec

(* What a notification says of a proposed change is true, with either      *)
(* agent: a job of an action route has one operation and a job of a        *)
(* message has no notification.                                            *)
THEOREM NotificationIsTruthfulHolds == Spec => []NotificationIsTruthful
  <1>1. ToldInv => NotificationIsTruthful
    BY ApprovalPart, JobPart, RequestPart
       DEF ApprovalInv, JobInv, RequestInv, NotificationIsTruthful
  <1> QED BY <1>1, ToldInvariant, PTL

(* With Pi, a session that was told of the end of a job never shows it as  *)
(* active, although handlers append the event whether or not their guarded *)
(* update of the job row matched.                                          *)
THEOREM ToldJobsHaveEndedHolds == ~LocalFallback => (Spec => []ToldJobsHaveEnded)
  <1> SUFFICES ASSUME ~LocalFallback PROVE Spec => []ToldJobsHaveEnded
    BY Zenon
  <1>1. ToldInv => ToldJobsHaveEnded
    BY JobPart, Zenon DEF JobInv, ToldJobsHaveEnded, Ended, TerminalJobStatus, ActiveJobStatus
  <1> QED BY <1>1, ToldInvariant, PTL

(* With Pi, and as long as no process has died, a job that waits for an    *)
(* approval has a turn, a handler or an undecided approval that will move  *)
(* it.                                                                     *)
THEOREM WaitingJobsCanMoveHolds == ~LocalFallback => (Spec => []WaitingJobsCanMove)
  <1> SUFFICES ASSUME ~LocalFallback PROVE Spec => []WaitingJobsCanMove
    BY Zenon
  <1>1. ToldInv => WaitingJobsCanMove
    BY WaitPart, Zenon DEF WaitInv, WaitingJobsCanMove
  <1> QED BY <1>1, ToldInvariant, PTL
=============================================================================
