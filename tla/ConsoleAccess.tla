--------------------------- MODULE ConsoleAccess ---------------------------
(***************************************************************************)
(* A Docker console.  The user proposes it, approves it, asks for one or   *)
(* more console sessions (authorizations that live five minutes and are    *)
(* used once) and opens a WebSocket with each; the handler of the socket   *)
(* awaits the Docker engine and then records that the console was started  *)
(* or that its start failed.                                               *)
(***************************************************************************)
EXTENDS Naturals, JobTable

CONSTANTS Auths  \* authorizations that may be created for the operation

VARIABLES approval,  \* pending_approvals.status of the console operation
          operation, \* docker_operations.status
          job,       \* jobs.status
          note,      \* operation_notifications.status
          auth,      \* docker_console_authorizations.status
          overdue,   \* authorizations older than their TTL
          socket,    \* the WebSocket that consumed an authorization
          opened     \* history: times an authorization started a console

rows == <<approval, operation, job, note>>
vars == <<rows, auth, overdue, socket, opened>>

(* After POST /api/docker/proposals with the action console.               *)
Init ==
  /\ approval = "pending" /\ operation = "pending"
  /\ job = "waiting_approval" /\ note = "pending_approval"
  /\ auth = [a \in Auths |-> "none"]
  /\ overdue = {}
  /\ socket = [a \in Auths |-> {}]
  /\ opened = [a \in Auths |-> 0]

----------------------------------------------------------------------------
(* POST /api/approvals/:id/approve for a console: nothing is started yet.  *)
Approve ==
  /\ approval = "pending"
  /\ approval' = "approved" /\ operation' = "approved"
  /\ note' = NotifyApproval(note, "approved")
  /\ UNCHANGED <<job, auth, overdue, socket, opened>>

(* POST /api/approvals/:id/reject.                                         *)
Reject ==
  /\ approval = "pending"
  /\ approval' = "rejected" /\ operation' = "failed"
  /\ job' = IF job = "waiting_approval" THEN "completed" ELSE job
  /\ note' = IF job = "waiting_approval"
             THEN NotifyJob(NotifyApproval(note, "rejected"), "completed")
             ELSE NotifyApproval(note, "rejected")
  /\ UNCHANGED <<auth, overdue, socket, opened>>

(* POST /api/jobs/:id/cancel: a pending approval expires, an approved one  *)
(* stays.                                                                  *)
Cancel ==
  /\ job \in ActiveJobStatus
  /\ job' = "cancelled"
  /\ approval' = IF approval = "pending" THEN "expired" ELSE approval
  /\ note' = NotifyJob(note, "cancelled")
  /\ UNCHANGED <<operation, auth, overdue, socket, opened>>

InsertAuthorization(a) ==
  /\ auth[a] = "none"
  /\ auth' = [auth EXCEPT ![a] = "active"]
  /\ UNCHANGED <<rows, overdue, socket, opened>>

(* Mutant: an authorization is given before the approval.                  *)
CreateUnapproved(a) == InsertAuthorization(a)

(* POST /api/docker/console-sessions: createDockerConsoleAuthorization.    *)
CreateAuthorization(a) ==
  operation = "approved" /\ approval = "approved" /\ InsertAuthorization(a)

(* The clock passes expires_at.                                            *)
Age(a) ==
  /\ auth[a] # "none" /\ a \notin overdue
  /\ overdue' = overdue \cup {a}
  /\ UNCHANGED <<rows, auth, socket, opened>>

(* Mutant: expires_at is not looked at.                                    *)
ConnectOverdue(a) ==
  /\ auth[a] = "active"
  /\ auth' = [auth EXCEPT ![a] = "used"]
  /\ socket' = [socket EXCEPT ![a] = @ \cup {"starting"}]
  /\ opened' = [opened EXCEPT ![a] = @ + 1]
  /\ UNCHANGED <<rows, overdue>>

(* GET /api/docker/console/:id up to its first await:                      *)
(* consumeDockerConsoleAuthorization.                                      *)
Connect(a) ==
  /\ auth[a] = "active"
  /\ IF a \in overdue
     THEN auth' = [auth EXCEPT ![a] = "expired"] /\ UNCHANGED <<socket, opened>>
     ELSE /\ auth' = [auth EXCEPT ![a] = "used"]
          /\ socket' = [socket EXCEPT ![a] = @ \cup {"starting"}]
          /\ opened' = [opened EXCEPT ![a] = @ + 1]
  /\ UNCHANGED <<rows, overdue>>

(* Mutant: the job is completed whatever it was.                           *)
StartedAnyway(a) ==
  /\ "starting" \in socket[a]
  /\ socket' = [socket EXCEPT ![a] = {"open"}]
  /\ operation' = "applied"
  /\ approval' = IF approval = "approved" THEN "applied" ELSE approval
  /\ job' = "completed"
  /\ note' = NotifyJob(note, "completed")
  /\ UNCHANGED <<auth, overdue, opened>>

(* markConsoleStarted, after createExec and startExec.                     *)
Started(a) ==
  /\ "starting" \in socket[a]
  /\ socket' = [socket EXCEPT ![a] = {"open"}]
  /\ operation' = "applied"
  /\ approval' = IF approval = "approved" THEN "applied" ELSE approval
  /\ LET told == IF approval = "approved" THEN NotifyApproval(note, "applied") ELSE note
     IN  IF job \in {"waiting_approval", "completed"}
         THEN job' = "completed" /\ note' = NotifyJob(told, "completed")
         ELSE note' = told /\ UNCHANGED job
  /\ UNCHANGED <<auth, overdue, opened>>

(* markConsoleStartupFailed: the job becomes failed whatever it was.       *)
StartupFails(a) ==
  /\ "starting" \in socket[a]
  /\ socket' = [socket EXCEPT ![a] = {}]
  /\ auth' = [auth EXCEPT ![a] = "failed"]
  /\ operation' = "failed"
  /\ approval' = IF approval \in {"approved", "applied"} THEN "failed" ELSE approval
  /\ job' = "failed" /\ note' = NotifyJob(note, "failed")
  /\ UNCHANGED <<overdue, opened>>

(* Either end closes the console.                                          *)
Close(a) ==
  /\ "open" \in socket[a]
  /\ socket' = [socket EXCEPT ![a] = {}]
  /\ UNCHANGED <<rows, auth, overdue, opened>>

(* The API dies and is started again: its sockets are gone, the rows stay. *)
Restart ==
  /\ \E a \in Auths : socket[a] # {}
  /\ socket' = [a \in Auths |-> {}]
  /\ UNCHANGED <<rows, auth, overdue, opened>>

Next ==
  \/ Approve \/ Reject \/ Cancel \/ Restart
  \/ \E a \in Auths : \/ CreateAuthorization(a) \/ Age(a) \/ Connect(a)
                      \/ Started(a) \/ StartupFails(a) \/ Close(a)

Spec == Init /\ [][Next]_vars

----------------------------------------------------------------------------
(* Every row has one of the statuses its table allows.                     *)
TypeOK ==
  /\ approval \in ApprovalStatus /\ job \in JobStatus /\ note \in NotificationStatus
  /\ operation \in {"pending", "approved", "applied", "failed"}
  /\ auth \in [Auths -> {"none", "active", "used", "expired", "failed"}]
  /\ overdue \subseteq Auths
  /\ socket \in [Auths -> SUBSET {"starting", "open"}] /\ opened \in [Auths -> Nat]

(* A console is opened only with an approval of the user, and every        *)
(* authorization opens one console at most, whatever the order in which    *)
(* sockets connect, fail and close.                                        *)
ConsoleNeedsApproval ==
  \A a \in Auths :
     /\ opened[a] <= 1
     /\ opened[a] = 1 => /\ approval \in {"approved", "applied", "failed"}
                         /\ auth[a] \in {"used", "failed"}

(* No console starts with an authorization that had run out, and after the *)
(* first console was started or has failed no new authorization is given.  *)
AuthorizationEnds ==
  [][\A a \in Auths :
       /\ a \in overdue => opened'[a] = opened[a]
       /\ operation \in {"applied", "failed"} => (auth[a] = "none" => auth'[a] = "none")]_vars

(* A job that has ended is moved by a failed console start only            *)
(* (markConsoleStartupFailed names no allowed statuses): neither a late    *)
(* start nor a late decision revives a completed, cancelled or failed job. *)
EndedJobOnlyFails ==
  [][(job \in TerminalJobStatus) => job' \in {job, "failed"}]_vars
=============================================================================
