------------------------------ MODULE JobTable ------------------------------
(***************************************************************************)
(* The rows that every ZOS process shares through SQLite: the status of a  *)
(* job (jobs.status), of an approval (pending_approvals.status) and of the *)
(* notification kept beside an action job (operation_notifications.status),*)
(* with the rules packages/db applies when it rewrites one of them.        *)
(* A row that does not exist has the status "none".  A row removed by      *)
(* ON DELETE CASCADE has the status "deleted".                             *)
(***************************************************************************)

ActiveJobStatus == {"queued", "running", "waiting_approval"}
TerminalJobStatus == {"completed", "failed", "cancelled"}
JobStatus == {"none", "deleted"} \cup ActiveJobStatus \cup TerminalJobStatus

ApprovalStatus ==
  {"none", "deleted", "pending", "approved", "applied", "failed", "rejected", "expired"}

NotificationStatus ==
  {"none", "pending_approval", "running", "succeeded", "failed", "rejected", "cancelled"}

(* notificationStatusForJob. *)
NotificationForJob(status) ==
  CASE status = "waiting_approval"        -> "pending_approval"
    [] status \in {"queued", "running"}   -> "running"
    [] status = "completed"               -> "succeeded"
    [] status = "failed"                  -> "failed"
    [] status = "cancelled"               -> "cancelled"

(* The status updateApprovalStatus writes into the job's notification.     *)
NotificationForApproval(status) ==
  CASE status = "pending"   -> "pending_approval"
    [] status = "approved"  -> "running"
    [] status = "applied"   -> "succeeded"
    [] status = "rejected"  -> "rejected"
    [] status = "expired"   -> "cancelled"
    [] OTHER                -> "failed"

(* updateOperationNotificationForJob: a job without a notification stays   *)
(* without one, and a completed job does not overwrite "rejected".         *)
NotifyAs(current, status, preserveRejected) ==
  IF current = "none" \/ (preserveRejected /\ current = "rejected")
  THEN current
  ELSE status

(* Mutant: a completed job overwrites "rejected".                          *)
NotifyJobOverwrites(current, status) ==
  NotifyAs(current, NotificationForJob(status), FALSE)

(* What updateJobStatus leaves in the notification of the job it moved.    *)
NotifyJob(current, status) ==
  NotifyAs(current, NotificationForJob(status), status = "completed")

(* Mutant: the approval status is written without being translated.        *)
NotifyApprovalRaw(current, status) == NotifyAs(current, status, FALSE)

(* What updateApprovalStatus leaves in the notification of the job.        *)
NotifyApproval(current, status) ==
  NotifyAs(current, NotificationForApproval(status), FALSE)
=============================================================================
