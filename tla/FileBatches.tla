---------------------------- MODULE FileBatches ----------------------------
(***************************************************************************)
(* File batches: POST /api/files/batches inserts a job, a batch and its    *)
(* items in one transaction, and the FileBatchRunner of the API process    *)
(* moves or trashes one item after the other.  The items and the job are   *)
(* rows that survive the process; the rename is a change of the file       *)
(* system that no transaction covers, so after a crash the runner looks at *)
(* the paths to decide whether an item was already applied.                *)
(*                                                                         *)
(* The API is one event loop.  A handler or the runner gives it up only at *)
(* an await, so a crash can come between two statements (busy # {}), other *)
(* handlers cannot.                                                        *)
(***************************************************************************)
EXTENDS Naturals, FiniteSets, Sequences, JobTable

CONSTANTS Batches,        \* the batches that may be posted
          Paths,          \* paths of the storage pool and of the trash
          Plan,           \* Plan[b]: the items of b, a sequence of records
          NoFile,         \* what is at a path where nothing is
          DeleteSessions, \* whether users delete sessions
          MaxCrashes      \* bound on crashes of the API

Items == UNION { {b} \X (1 .. Len(Plan[b])) : b \in Batches }
ItemsOf(b) == {b} \X (1 .. Len(Plan[b]))
Src(i) == Plan[i[1]][i[2]].src
Dst(i) == Plan[i[1]][i[2]].dst
Op(i) == Plan[i[1]][i[2]].op

(* The file system when the model starts: a file, named after its path, at *)
(* every source.                                                           *)
Sources == { Src(i) : i \in Items }

ASSUME PlanAssumption ==
  /\ NoFile \notin Paths
  /\ Plan \in [Batches -> Seq([src : Paths, dst : Paths, op : {"move", "trash"}])]
  /\ \A i \in Items : Dst(i) \notin Sources
  /\ \A i, j \in Items : Op(i) = "trash" /\ Dst(i) = Dst(j) => i = j

VARIABLES job,       \* jobs.status of every batch
          item,      \* file_batch_items.status
          done,      \* file_batches.completed_count
          note,      \* operation_notifications.status
          order,     \* the batches in the order of created_at
          posting,   \* batches whose POST has validated its paths
          ops,       \* items with a file_operations row
          trashRows, \* items with a trash_entries row
          fs,        \* the file at every path
          moved,     \* history: the items whose own rename took place
          runner,    \* the position of FileBatchRunner
          current,   \* the item the runner works on
          busy,      \* the batch whose cancel handler has a statement left
          crashes

rows == <<job, item, done, note, order>>
records == <<ops, trashRows>>
disk == <<fs, moved>>
vars == <<rows, posting, records, disk, runner, current, busy, crashes>>

ItemStatus == {"none", "queued", "running", "completed", "failed", "cancelled"}
ActiveItem == {"queued", "running"}
SettledItem == {"completed", "failed", "cancelled"}

(* "down": no process.  "idle": no drain is active.  "drain": the loop is  *)
(* about to claim.  The others are awaits of processNextFileBatchItem, and *)
(* "trashed", "recorded" the points between its statements.                *)
RunnerAt == {"down", "idle", "drain", "claimed", "apply", "copied", "found",
             "trashed", "recorded"}

Init ==
  /\ job = [b \in Batches |-> "none"]
  /\ item = [i \in Items |-> "none"]
  /\ done = [b \in Batches |-> 0]
  /\ note = [b \in Batches |-> "none"]
  /\ order = <<>>
  /\ posting = {}
  /\ ops = {} /\ trashRows = {}
  /\ fs = [p \in Paths |-> IF p \in Sources THEN p ELSE NoFile]
  /\ moved = {}
  /\ runner = "idle"
  /\ current = {}
  /\ busy = {}
  /\ crashes = 0

At(p) == fs[p] # NoFile
Free == runner # "down" /\ busy = {} /\ runner \notin {"trashed", "recorded"}
Rows(b) == job[b] \notin {"none", "deleted"}

(* refreshBatchCounts, given the items it counts.                          *)
CountOf(b, status) == Cardinality({i \in ItemsOf(b) : status[i] \in SettledItem})

----------------------------------------------------------------------------
(* The handlers of the API.                                                *)

(* The awaits of the POST handler: every source exists and no target does. *)
ValidateBatch(b) ==
  /\ Free /\ job[b] = "none" /\ b \notin posting
  /\ \A i \in ItemsOf(b) : At(Src(i)) /\ (Op(i) = "move" => ~At(Dst(i)))
  /\ posting' = posting \cup {b}
  /\ UNCHANGED <<rows, records, disk, runner, current, busy, crashes>>

(* The duplicate query of createFileBatch: no item of a batch whose job is *)
(* queued or running has one of the source paths.                          *)
SourcesAreFree(b) ==
  \A i \in ItemsOf(b), j \in Items :
     Src(i) = Src(j) => job[j[1]] \notin {"queued", "running"}

WakeRunner == runner' = IF runner = "idle" THEN "drain" ELSE runner

(* createFileBatch and wake, or the 409 of a FileBatchConflictError.       *)
CreateBatch(b) ==
  /\ Free /\ b \in posting
  /\ posting' = posting \ {b}
  /\ IF SourcesAreFree(b)
     THEN /\ job' = [job EXCEPT ![b] = "queued"]
          /\ item' = [i \in Items |-> IF i[1] = b THEN "queued" ELSE item[i]]
          /\ note' = [note EXCEPT ![b] = "running"]
          /\ order' = Append(order, b)
          /\ WakeRunner
          /\ UNCHANGED done
     ELSE UNCHANGED <<rows, runner>>
  /\ UNCHANGED <<records, disk, current, busy, crashes>>

(* POST /api/jobs/:id/cancel: updateJobStatus, guarded by the statuses the *)
(* route accepts.                                                          *)
CancelJob(b) ==
  /\ Free /\ job[b] \in ActiveJobStatus
  /\ job' = [job EXCEPT ![b] = "cancelled"]
  /\ note' = [note EXCEPT ![b] = NotifyJob(@, "cancelled")]
  /\ busy' = {b}
  /\ UNCHANGED <<item, done, order, posting, records, disk, runner, current, crashes>>

(* Mutant: the route stops after it has changed the job.                   *)
CancelQueuedForgotten(b) ==
  /\ busy = {b} /\ busy' = {}
  /\ UNCHANGED <<rows, posting, records, disk, runner, current, crashes>>

(* Its second statement: cancelQueuedFileBatchItems.                       *)
CancelQueuedItems(b) ==
  LET cancelled == [i \in Items |-> IF i[1] = b /\ item[i] = "queued"
                                    THEN "cancelled" ELSE item[i]]
  IN  /\ busy = {b} /\ busy' = {}
      /\ item' = cancelled
      /\ done' = [done EXCEPT ![b] = CountOf(b, cancelled)]
      /\ UNCHANGED <<job, note, order, posting, records, disk, runner, current, crashes>>

(* DELETE /api/sessions/:id of the session a batch belongs to: refused     *)
(* while a job is active, otherwise the job, the batch and its items go.   *)
DeleteSession(b) ==
  /\ DeleteSessions /\ Free
  /\ job[b] \in TerminalJobStatus
  /\ job' = [job EXCEPT ![b] = "deleted"]
  /\ item' = [i \in Items |-> IF i[1] = b THEN "none" ELSE item[i]]
  /\ UNCHANGED <<done, note, order, posting, records, disk, runner, current, busy, crashes>>

----------------------------------------------------------------------------
(* FileBatchRunner.                                                        *)

(* The rows claimNextFileBatchItem selects from.                            *)
Claimable(i) == item[i] = "queued" /\ job[i[1]] \in {"queued", "running"}

(* The oldest batch first, then the lowest ordinal.                        *)
Precedes(i, j) ==
  LET pos(b) == CHOOSE n \in 1 .. Len(order) : order[n] = b
  IN  pos(i[1]) < pos(j[1]) \/ (i[1] = j[1] /\ i[2] <= j[2])

(* claimNextFileBatchItem, and the "job.running" event.                    *)
Claim(i) ==
  /\ runner = "drain" /\ busy = {}
  /\ Claimable(i)
  /\ \A j \in Items : Claimable(j) => Precedes(i, j)
  /\ item' = [item EXCEPT ![i] = "running"]
  /\ job' = [job EXCEPT ![i[1]] = IF @ = "queued" THEN "running" ELSE @]
  /\ note' = [note EXCEPT ![i[1]] = NotifyJob(@, "running")]
  /\ current' = {i} /\ runner' = "claimed"
  /\ UNCHANGED <<done, order, posting, records, disk, busy, crashes>>

(* Nothing to claim: the drain returns and the runner waits for a wake.    *)
DrainEnds ==
  /\ runner = "drain" /\ busy = {}
  /\ ~ \E i \in Items : Claimable(i)
  /\ runner' = "idle"
  /\ UNCHANGED <<rows, posting, records, disk, current, busy, crashes>>

(* Mutant: a batch without active items ends as its items say, cancelled   *)
(* or not.                                                                 *)
FinalIgnoresCancel(b, after) ==
  IF \E j \in ItemsOf(b) : after[j] = "failed" THEN "failed" ELSE "completed"

(* Mutant: failed items are not looked at.                                 *)
FinalIgnoresFailures(b, after) ==
  IF job[b] = "cancelled" THEN "cancelled" ELSE "completed"

(* The status a batch ends with.                                           *)
FinalStatus(b, after) ==
  IF job[b] = "cancelled" THEN "cancelled"
  ELSE IF \E j \in ItemsOf(b) : after[j] = "failed" THEN "failed"
  ELSE "completed"

(* finishFileBatchItem, one transaction.  It throws when the item is gone; *)
(* processNextFileBatchItem then calls it once more and throws too, and    *)
(* drain returns.  Otherwise the loop goes on.                             *)
Finish(i, status) ==
  LET b == i[1]
      after == [j \in Items |->
                  CASE j = i /\ item[i] = "running"       -> status
                    [] /\ j[1] = b /\ j # i
                       /\ job[b] = "cancelled"
                       /\ item[j] = "queued"             -> "cancelled"
                    [] OTHER                             -> item[j]]
      active == \E j \in ItemsOf(b) : after[j] \in ActiveItem
      final == FinalStatus(b, after)
  IN  /\ current' = {}
      /\ IF ~Rows(b)
         THEN runner' = "idle" /\ UNCHANGED <<job, item, done, note>>
         ELSE /\ runner' = "drain"
              /\ item' = after
              /\ done' = [done EXCEPT ![b] = CountOf(b, after)]
              /\ job' = [job EXCEPT ![b] = IF active THEN @ ELSE final]
              /\ note' = [note EXCEPT ![b] = IF active THEN @ ELSE NotifyJob(@, final)]
      /\ UNCHANGED order

(* Mutant: an occupied target is taken for the result of the item.         *)
InspectTargetOnly(i) == IF At(Dst(i)) THEN "found" ELSE "apply"

(* What recoverAppliedMutation makes of the two paths: apply the item,     *)
(* find it applied, or refuse.                                             *)
Inspect(i) ==
  CASE Op(i) = "trash" /\ At(Src(i)) /\ At(Dst(i)) -> "fail"
    [] ~At(Src(i)) /\ At(Dst(i))                  -> "found"
    [] OTHER                                      -> "apply"

(* The start of applyClaimedItem: nothing to do when the operation has its *)
(* row, otherwise the two paths decide.  Resolving the scope may fail.     *)
Recover(i) ==
  /\ runner = "claimed" /\ current = {i} /\ busy = {}
  /\ \/ /\ i \in ops
        /\ Finish(i, "completed")
     \/ /\ i \notin ops
        /\ Inspect(i) # "fail"
        /\ runner' = Inspect(i)
        /\ UNCHANGED <<rows, current>>
     \/ /\ i \notin ops
        /\ Finish(i, "failed")
  /\ UNCHANGED <<posting, records, disk, busy, crashes>>

(* Mutant: applyMove and applyTrash do not assert that the target is free. *)
ApplyOverwrites(i) ==
  /\ runner = "apply" /\ current = {i} /\ busy = {}
  /\ At(Src(i))
  /\ fs' = [fs EXCEPT ![Dst(i)] = fs[Src(i)], ![Src(i)] = NoFile]
  /\ moved' = moved \cup {i} /\ runner' = "found"
  /\ UNCHANGED <<rows, posting, records, current, busy, crashes>>

(* applyFileMutation: the source must exist and the target must not; a     *)
(* rename on one file system, the first half of a copy across two.  Any    *)
(* call of it may fail.                                                    *)
Apply(i) ==
  /\ runner = "apply" /\ current = {i} /\ busy = {}
  /\ \/ /\ At(Src(i)) /\ ~At(Dst(i))
        /\ \/ /\ fs' = [fs EXCEPT ![Dst(i)] = fs[Src(i)], ![Src(i)] = NoFile]
              /\ moved' = moved \cup {i}
              /\ runner' = "found"
           \/ /\ fs' = [fs EXCEPT ![Dst(i)] = fs[Src(i)]]
              /\ runner' = "copied"
              /\ UNCHANGED moved
        /\ UNCHANGED <<rows, current>>
     \/ Finish(i, "failed") /\ UNCHANGED disk
  /\ UNCHANGED <<posting, records, busy, crashes>>

(* Mutant: the removal of the source is reported as a failure.             *)
RemoveSourceThrows(i) ==
  /\ runner = "copied" /\ current = {i} /\ busy = {}
  /\ fs' = [fs EXCEPT ![Src(i)] = NoFile]
  /\ moved' = moved \cup {i}
  /\ Finish(i, "failed")
  /\ UNCHANGED <<posting, records, busy, crashes>>

(* The second half of movePath across file systems: remove the source, or  *)
(* remove the target again when that fails.                                *)
RemoveSource(i) ==
  /\ runner = "copied" /\ current = {i} /\ busy = {}
  /\ \/ /\ fs' = [fs EXCEPT ![Src(i)] = NoFile]
        /\ moved' = moved \cup {i}
        /\ runner' = "found"
        /\ UNCHANGED <<rows, current>>
     \/ /\ fs' = [fs EXCEPT ![Dst(i)] = NoFile]
        /\ Finish(i, "failed")
        /\ UNCHANGED moved
  /\ UNCHANGED <<posting, records, busy, crashes>>

(* Mutant: no trash entry is created.                                      *)
RecordTrashSkipped(i) ==
  /\ runner = "found" /\ current = {i} /\ busy = {}
  /\ runner' = "trashed"
  /\ UNCHANGED <<rows, posting, records, disk, current, busy, crashes>>

(* createTrashEntry, unless the entry has its row.                         *)
RecordTrash(i) ==
  /\ runner = "found" /\ current = {i} /\ busy = {}
  /\ trashRows' = IF Op(i) = "trash" THEN trashRows \cup {i} ELSE trashRows
  /\ runner' = "trashed"
  /\ UNCHANGED <<rows, posting, ops, disk, current, busy, crashes>>

(* recordAppliedOperation.                                                 *)
RecordOperation(i) ==
  /\ runner = "trashed" /\ current = {i}
  /\ ops' = ops \cup {i}
  /\ runner' = "recorded"
  /\ UNCHANGED <<rows, posting, trashRows, disk, current, busy, crashes>>

(* processNextFileBatchItem after applyClaimedItem has returned.           *)
Complete(i) ==
  /\ runner = "recorded" /\ current = {i}
  /\ Finish(i, "completed")
  /\ UNCHANGED <<posting, records, disk, busy, crashes>>

----------------------------------------------------------------------------
(* The process.                                                            *)

(* The API dies between any two steps; its memory is lost.                 *)
Crash ==
  /\ runner # "down" /\ crashes < MaxCrashes
  /\ runner' = "down" /\ current' = {} /\ busy' = {} /\ posting' = {}
  /\ crashes' = crashes + 1
  /\ UNCHANGED <<rows, records, disk>>

(* Mutant: the jobs are queued again, their running items are not.         *)
StartForgetsItems ==
  /\ runner = "down"
  /\ job' = [b \in Batches |-> IF job[b] = "running" THEN "queued" ELSE job[b]]
  /\ runner' = "drain"
  /\ UNCHANGED <<item, done, note, order, posting, records, disk, current, busy, crashes>>

(* FileBatchRunner.start of the new process: recoverInterruptedFileBatches *)
(* and wake.                                                               *)
Start ==
  /\ runner = "down"
  /\ item' = [i \in Items |-> IF item[i] = "running" /\ job[i[1]] = "running"
                              THEN "queued" ELSE item[i]]
  /\ job' = [b \in Batches |-> IF job[b] = "running" THEN "queued" ELSE job[b]]
  /\ runner' = "drain"
  /\ UNCHANGED <<done, note, order, posting, records, disk, current, busy, crashes>>

RunnerStep ==
  \/ DrainEnds
  \/ \E i \in Items : \/ Claim(i) \/ Recover(i) \/ Apply(i) \/ RemoveSource(i)
                      \/ RecordTrash(i) \/ RecordOperation(i) \/ Complete(i)

Next ==
  \/ \E b \in Batches : \/ ValidateBatch(b) \/ CreateBatch(b)
                        \/ CancelJob(b) \/ CancelQueuedItems(b) \/ DeleteSession(b)
  \/ RunnerStep
  \/ Crash \/ Start

Spec == Init /\ [][Next]_vars

(* An awaited call of the runner returns, a handler that has begun runs    *)
(* on, and systemd (or docker compose) starts the API again.               *)
FairSpec ==
  /\ Spec
  /\ WF_vars(RunnerStep)
  /\ \A b \in Batches : WF_vars(CancelQueuedItems(b))
  /\ WF_vars(Start)

----------------------------------------------------------------------------
(* Every row and every position is one the code can write.                 *)
TypeOK ==
  /\ job \in [Batches -> JobStatus] /\ note \in [Batches -> NotificationStatus]
  /\ item \in [Items -> ItemStatus] /\ done \in [Batches -> Nat]
  /\ order \in Seq(Batches) /\ posting \subseteq Batches
  /\ ops \subseteq Items /\ trashRows \subseteq Items /\ moved \subseteq Items
  /\ fs \in [Paths -> Sources \cup {NoFile}]
  /\ runner \in RunnerAt /\ busy \subseteq Batches /\ crashes \in Nat
  /\ current \subseteq Items /\ (current # {} <=> runner \notin {"down", "idle", "drain"})

(* Whatever fails, and wherever the API dies, a batch loses no file: every *)
(* file is at some path of the pool or of the trash.                       *)
FilesSurvive == \A f \in Sources : \E p \in Paths : fs[p] = f

(* A file operation that a batch reports as applied, also one recovered    *)
(* after a crash, is a rename that this item itself carried out: what      *)
(* rollback undoes is what the item did.                                   *)
AppliedWasMoved == ops \subseteq moved

(* An item is reported completed only once its operation, and for a trash  *)
(* item its trash entry, has been recorded: nothing that succeeded is      *)
(* without the row that undoes it.                                         *)
CompletedIsRecorded ==
  \A i \in Items : item[i] = "completed" =>
     i \in ops /\ (Op(i) = "trash" => i \in trashRows)

(* As long as the API does not die on the way, an item reported failed or  *)
(* cancelled has not been moved.                                           *)
FailedKeepsSource ==
  crashes = 0 => \A i \in Items : item[i] \in {"failed", "cancelled"} => i \notin moved

(* The count shown as progress is the number of settled items, and a job   *)
(* that has completed or failed has no item left and says what they say.   *)
BatchTellsItems ==
  \A b \in Batches : Rows(b) =>
     /\ done[b] = CountOf(b, item)
     /\ job[b] = "completed" => \A i \in ItemsOf(b) : item[i] = "completed"
     /\ job[b] = "failed" => /\ \E i \in ItemsOf(b) : item[i] = "failed"
                             /\ \A i \in ItemsOf(b) : item[i] \in SettledItem

(* Once the runner has let go of a cancelled batch, and unless the API     *)
(* died on the way, none of its items is left queued or running.           *)
CancelledBatchSettles ==
  \A b \in Batches :
     job[b] = "cancelled" /\ crashes = 0 /\ b \notin busy
       => \A i \in ItemsOf(b) \ current : item[i] \in SettledItem

(* Cancelling is final: no item of a cancelled batch is started, and the   *)
(* job of an ended batch keeps its status until its session is deleted.    *)
EndedBatchesStay ==
  [][\A b \in Batches :
       /\ job[b] \in TerminalJobStatus => job'[b] \in {job[b], "deleted"}
       /\ job[b] = "cancelled" =>
            ~ \E i \in ItemsOf(b) : item[i] = "queued" /\ item'[i] = "running"]_vars

(* No batch waits or runs.                                                 *)
Settled == \A b \in Batches : job[b] \notin {"queued", "running"}

(* The batches that were posted end, whatever fails and although the API   *)
(* may crash: none is left queued or running.                              *)
BatchesFinish == <>[]Settled
=============================================================================
