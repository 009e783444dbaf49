----------------------------- MODULE Downloader -----------------------------
(***************************************************************************)
(* One HTTP download.  The API (routes/downloads.ts) writes requests into  *)
(* the row of the task; a zos-downloader process claims the row under a    *)
(* lease, transfers the segments into a .part file, journals the identity  *)
(* of that file, renames it to the target and completes the task.  When a  *)
(* process died, another one decides from the journal and from the two     *)
(* names on disk what had happened.                                        *)
(*                                                                         *)
(* Every statement of SQLite and every call to the file system is one      *)
(* step.  The file names are looked up anew at every call, so a file       *)
(* (an inode, 1, 2, ...) may be gone from its name while it is written to. *)
(* The transfer is the segmented one; a download in a single stream, which *)
(* resumes at the length of the file, is left out.                         *)
(***************************************************************************)
EXTENDS Naturals

CONSTANTS Workers,    \* downloader processes, each with a fresh worker id
          Nobody,     \* worker_id IS NULL
          Handlers,   \* handle_task futures that may exist at once
          Segs,       \* the segments of the file
          Requests,   \* API requests that may be in flight at once
          MaxFiles,   \* bound on .part files created
          MaxRetries, \* max_auto_retries of the settings
          MaxEvents   \* bound on requests, failures, crashes and expiries

Files == 1 .. MaxFiles
NoFile == 0
UserFile == MaxFiles + 1   \* the file of somebody else at the target

ASSUME DownloadAssumption == Nobody \notin Workers /\ MaxFiles \in Nat

VARIABLES status, owner, lease, control, retries,  \* download_tasks; lease: not expired
          expected,     \* expected_sha256 is not NULL
          mismatch,     \* error_code is checksum_mismatch
          plan,         \* download_segments: {} or {the segments checkpointed}
          journal,      \* download_publish_journal: {} or {its row}
          partial, target,  \* the file at each of the two names
          data, long,   \* the segments a file holds; the files of full length
          files,        \* .part files created
          h,            \* the handlers
          rec,          \* recover_publish_journals of every worker
          proc,         \* the worker processes
          req,          \* API requests in flight
          stalls,       \* leases that ran out under a handler that still works
          shared,       \* two processes have run at the same time
          events        \* what disturbed the transfer so far

task == <<status, owner, lease, control, retries, mismatch>>
rows == <<task, expected, plan, journal>>
names == <<partial, target, files>>
disk == <<names, data, long>>
bounds == <<stalls, shared, events>>
vars == <<rows, disk, h, rec, proc, req, bounds>>

Idle == [pc |-> "idle", w |-> Nobody, tries |-> 0, err |-> "none",
         lock |-> NoFile, out |-> NoFile, todo |-> {}, id |-> NoFile, again |-> FALSE]
Quiet == [pc |-> "idle", row |-> {}, live |-> FALSE, cancel |-> FALSE, lock |-> NoFile]

(* After POST /api/downloads: the target was free.                         *)
Init ==
  /\ status = "queued" /\ owner = Nobody /\ lease = FALSE /\ control = "none"
  /\ retries = 0 /\ expected \in BOOLEAN /\ mismatch = FALSE
  /\ plan = {} /\ journal = {}
  /\ partial = NoFile /\ target = NoFile /\ files = 0
  /\ data = [f \in Files |-> {}] /\ long = {}
  /\ h = [x \in Handlers |-> Idle]
  /\ rec = [w \in Workers |-> Quiet]
  /\ proc = [w \in Workers |-> "new"]
  /\ req = [r \in Requests |-> "none"]
  /\ stalls = 0 /\ shared = FALSE /\ events = 0

Row(st, ow, le, co) == status' = st /\ owner' = ow /\ lease' = le /\ control' = co

(* The status a task that is taken away from its worker gets.              *)
Released ==
  CASE control = "pause" -> "paused" [] control = "cancel" -> "cancelled" [] OTHER -> "queued"
Release == Row(Released, Nobody, FALSE, "none")

(* The guard of the updates a worker makes while it transfers.             *)
Owned(w) == status = "running" /\ owner = w /\ control = "none"

(* A request, a failure, a crash: one of the bounded number of events.     *)
Event == events < MaxEvents /\ events' = events + 1 /\ UNCHANGED <<stalls, shared>>

Goto(x, pc) == h' = [h EXCEPT ![x].pc = pc]

(* run_task returns an error: the file lock is dropped.                    *)
Error(x, err) ==
  h' = [h EXCEPT ![x] = [Idle EXCEPT !.pc = "error", !.err = err,
                                     !.w = h[x].w, !.tries = h[x].tries]]

(* control_outcome: run_task is interrupted when a request is recorded.    *)
Interrupt(x) ==
  h' = [h EXCEPT ![x] = [Idle EXCEPT !.pc = control, !.w = h[x].w, !.tries = h[x].tries]]

(* open_partial creates the file when nothing has its name.                *)
OpenPartial(f) ==
  /\ IF partial = NoFile
     THEN f = files + 1 /\ partial' = f /\ files' = f
     ELSE f = partial /\ UNCHANGED <<partial, files>>
  /\ UNCHANGED target

Locked(f) == (\E x \in Handlers : h[x].lock = f) \/ (\E w \in Workers : rec[w].lock = f)

-----------------------------------------------------------------------------
(* handle_task and run_task.                                               *)

(* poll: claim a queued task that has no journal and spawn its handler.    *)
Claim(x, w) ==
  /\ proc[w] = "up" /\ rec[w].pc = "idle" /\ h[x].pc = "idle"
  /\ status = "queued" /\ journal = {}
  /\ Row("running", w, TRUE, "none") /\ mismatch' = FALSE
  /\ h' = [h EXCEPT ![x] = [Idle EXCEPT !.pc = "probe", !.w = w, !.tries = retries]]
  /\ UNCHANGED <<retries, expected, plan, journal, disk, rec, proc, req, bounds>>

(* The target must be free; probe_source may fail.                         *)
Probe(x) ==
  /\ h[x].pc = "probe"
  /\ \/ target = NoFile /\ Goto(x, "lock") /\ UNCHANGED bounds
     \/ target # NoFile /\ Error(x, "fail") /\ UNCHANGED bounds
     \/ target = NoFile /\ Event /\ (Error(x, "fail") \/ Error(x, "retry"))
  /\ UNCHANGED <<rows, disk, rec, proc, req>>

(* Mutant: lock_partial goes on when the file is locked.                   *)
LockIgnored(x) ==
  /\ h[x].pc = "lock"
  /\ \E f \in Files :
       /\ OpenPartial(f)
       /\ \/ Locked(f) /\ Error(x, "retry")
          \/ h' = [h EXCEPT ![x].pc = "plan", ![x].lock = f]
  /\ UNCHANGED <<rows, data, long, rec, proc, req, bounds>>

(* lock_partial.                                                           *)
LockPartial(x) ==
  /\ h[x].pc = "lock"
  /\ \E f \in Files :
       /\ OpenPartial(f)
       /\ \/ Locked(f) /\ Error(x, "retry")
          \/ ~Locked(f) /\ h' = [h EXCEPT ![x].pc = "plan", ![x].lock = f]
  /\ UNCHANGED <<rows, data, long, rec, proc, req, bounds>>

(* Mutant: the old segments stay when the transfer starts over.            *)
PlanKeepsRows(x) ==
  /\ h[x].pc = "plan"
  /\ \/ /\ plan # {} /\ partial \in long
        /\ h' = [h EXCEPT ![x].pc = "transfer", ![x].out = partial,
                          ![x].todo = Segs \ UNION plan]
        /\ UNCHANGED plan
     \/ /\ plan = {} \/ partial \notin long
        /\ IF Owned(h[x].w) THEN plan' = (IF plan = {} THEN {{}} ELSE plan) /\ Goto(x, "open")
           ELSE Error(x, "fail") /\ UNCHANGED plan
  /\ UNCHANGED <<task, expected, journal, disk, rec, proc, req, bounds>>

(* download_segmented: trust the recorded segments if the file has its     *)
(* full length, else reset_transfer and replace_segments.                  *)
PlanSegments(x) ==
  /\ h[x].pc = "plan"
  /\ \/ /\ plan # {} /\ partial \in long
        /\ h' = [h EXCEPT ![x].pc = "transfer", ![x].out = partial,
                          ![x].todo = Segs \ UNION plan]
        /\ UNCHANGED plan
     \/ /\ plan = {} \/ partial \notin long
        /\ IF Owned(h[x].w) THEN plan' = {{}} /\ Goto(x, "open")
           ELSE Error(x, "fail") /\ UNCHANGED plan
  /\ UNCHANGED <<task, expected, journal, disk, rec, proc, req, bounds>>

(* open_partial(true) and set_len.                                         *)
OpenTruncated(x) ==
  /\ h[x].pc = "open"
  /\ \E f \in Files :
       /\ OpenPartial(f)
       /\ data' = [data EXCEPT ![f] = {}] /\ long' = long \cup {f}
       /\ h' = [h EXCEPT ![x].pc = "transfer", ![x].out = f, ![x].todo = Segs]
  /\ UNCHANGED <<rows, rec, proc, req, bounds>>

(* download_segment: the bytes are written and synced ...                  *)
WriteSegment(x, s) ==
  /\ h[x].pc = "transfer" /\ s \in h[x].todo \ data[h[x].out]
  /\ data' = [data EXCEPT ![h[x].out] = @ \cup {s}]
  /\ UNCHANGED <<rows, names, long, h, rec, proc, req, bounds>>

(* Mutant: the checkpoint is written before the bytes are.                 *)
CheckpointEarly(x, s) ==
  /\ h[x].pc = "transfer" /\ s \in h[x].todo 
  /\ IF Owned(h[x].w)
     THEN /\ plan' = {ck \cup {s} : ck \in plan}
          /\ lease' = TRUE
          /\ h' = [h EXCEPT ![x].todo = @ \ {s}]
     ELSE Error(x, "fail") /\ UNCHANGED <<plan, lease>>
  /\ UNCHANGED <<status, owner, control, retries, mismatch, expected, journal, disk, rec,
                 proc, req, bounds>>

(* ... and then checkpointed, which renews the lease.  UPDATE of the       *)
(* segment row does nothing when the rows are gone.                        *)
CheckpointSegment(x, s) ==
  /\ h[x].pc = "transfer" /\ s \in h[x].todo \cap data[h[x].out]
  /\ IF Owned(h[x].w)
     THEN /\ plan' = {ck \cup {s} : ck \in plan}
          /\ lease' = TRUE
          /\ h' = [h EXCEPT ![x].todo = @ \ {s}]
     ELSE Error(x, "fail") /\ UNCHANGED <<plan, lease>>
  /\ UNCHANGED <<status, owner, control, retries, mismatch, expected, journal, disk, rec,
                 proc, req, bounds>>

(* The connection, the disk or the peer fails the transfer.                *)
TransferFails(x) ==
  /\ h[x].pc = "transfer" /\ h[x].todo # {}
  /\ Event /\ (Error(x, "retry") \/ Error(x, "fail"))
  /\ UNCHANGED <<rows, disk, rec, proc, req>>

(* The source has changed: once, reset_transfer ...                        *)
SourceChanged(x) ==
  /\ h[x].pc = "transfer" /\ h[x].todo # {} /\ ~h[x].again /\ Event
  /\ IF Owned(h[x].w)
     THEN plan' = {} /\ h' = [h EXCEPT ![x].pc = "restart", ![x].out = NoFile,
                                    ![x].todo = {}, ![x].again = TRUE]
     ELSE Error(x, "fail") /\ UNCHANGED plan
  /\ UNCHANGED <<task, expected, journal, disk, rec, proc, req>>

(* ... and start again with an empty file.                                 *)
RestartTransfer(x) ==
  /\ h[x].pc = "restart"
  /\ \E f \in Files :
       /\ OpenPartial(f)
       /\ data' = [data EXCEPT ![f] = {}] /\ long' = long \ {f}
  /\ Goto(x, "plan")
  /\ UNCHANGED <<rows, rec, proc, req, bounds>>

(* All segments are there: hash_file reads the file that has the name now. *)
Transferred(x) ==
  h' = [h EXCEPT ![x].pc = "prepare", ![x].out = NoFile, ![x].again = FALSE]

Verify(x) ==
  /\ h[x].pc = "transfer" /\ h[x].todo = {}
  /\ \/ control # "none" /\ Interrupt(x)
     \/ control = "none" /\ ~expected /\ Transferred(x)
     \/ /\ control = "none" /\ expected
        /\ \/ partial # NoFile /\ data[partial] = Segs /\ Owned(h[x].w) /\ Transferred(x)
           \/ partial # NoFile /\ Owned(h[x].w) /\ Error(x, "mismatch")
           \/ (partial = NoFile \/ ~Owned(h[x].w)) /\ Error(x, "fail")
  /\ UNCHANGED <<rows, disk, rec, proc, req, bounds>>

(* The identity and the length of the .part file, and prepare_publish.     *)
Prepare(x) ==
  /\ h[x].pc = "prepare"
  /\ \/ control # "none" /\ Interrupt(x) /\ UNCHANGED names
     \/ /\ control = "none"
        /\ \E f \in Files :
             /\ OpenPartial(f)
             /\ IF f \in long
                THEN h' = [h EXCEPT ![x].pc = "journal", ![x].id = f]
                ELSE Error(x, "fail")
  /\ UNCHANGED <<rows, data, long, rec, proc, req, bounds>>

(* The journal row of a handler, and the file that has its identity: the   *)
(* inode and the full length.                                              *)
Entry(x) == [w |-> h[x].w, file |-> h[x].id]
Identified(f, e) == f = e.file /\ f \in long

(* begin_publish.                                                          *)
BeginPublish(x) ==
  /\ h[x].pc = "journal"
  /\ \/ control # "none" /\ Interrupt(x) /\ UNCHANGED journal
     \/ control = "none" /\ ~Owned(h[x].w) /\ Error(x, "fail") /\ UNCHANGED journal
     \/ Owned(h[x].w) /\ journal' = {Entry(x)} /\ Goto(x, "publish")
  /\ UNCHANGED <<task, expected, plan, disk, rec, proc, req, bounds>>

(* Mutant: rename without RENAME_NOREPLACE.                                *)
PublishReplaces(x) ==
  /\ h[x].pc = "publish"
  /\ \/ /\ partial # NoFile
        /\ target' = partial /\ partial' = NoFile
        /\ (Goto(x, "finalize") /\ UNCHANGED bounds) \/ (Error(x, "fail") /\ Event)
     \/ /\ target # NoFile \/ partial = NoFile
        /\ Error(x, "fail") /\ UNCHANGED <<target, partial, bounds>>
     \/ Error(x, "fail") /\ Event /\ UNCHANGED <<target, partial>>
  /\ UNCHANGED <<rows, files, data, long, rec, proc, req>>

(* publish: renameat2 with RENAME_NOREPLACE takes the file that has the    *)
(* name now.  The sync of the directory may fail after the rename.         *)
Publish(x) ==
  /\ h[x].pc = "publish"
  /\ \/ /\ target = NoFile /\ partial # NoFile
        /\ target' = partial /\ partial' = NoFile
        /\ (Goto(x, "finalize") /\ UNCHANGED bounds) \/ (Error(x, "fail") /\ Event)
     \/ /\ target # NoFile \/ partial = NoFile
        /\ Error(x, "fail") /\ UNCHANGED <<target, partial, bounds>>
     \/ Error(x, "fail") /\ Event /\ UNCHANGED <<target, partial>>
  /\ UNCHANGED <<rows, files, data, long, rec, proc, req>>

(* finalize_publish of the journal row e, when the row is still there.     *)
Finalize(e) ==
  /\ journal = {e}
  /\ Row("completed", Nobody, FALSE, "none") /\ mismatch' = FALSE
  /\ journal' = {} /\ plan' = {}
  /\ UNCHANGED <<retries, expected>>

FinalizePublish(x) ==
  /\ h[x].pc = "finalize"
  /\ \/ Finalize(Entry(x)) /\ h' = [h EXCEPT ![x] = Idle] /\ UNCHANGED bounds
     \/ /\ journal # {Entry(x)} /\ UNCHANGED <<rows, bounds>>
        /\ IF status = "completed" THEN h' = [h EXCEPT ![x] = Idle] ELSE Error(x, "retry")
     \/ Error(x, "retry") /\ Event /\ UNCHANGED rows
  /\ UNCHANGED <<disk, rec, proc, req>>

(* The heartbeat of the handler renews the lease, or finds it lost and     *)
(* ends run_task wherever it awaits.                                       *)
Awaiting(x) == h[x].pc \in {"probe", "lock", "plan", "open", "transfer", "prepare", "journal",
                            "publish"}
Heartbeat(x) ==
  /\ Awaiting(x)
  /\ \/ Owned(h[x].w) /\ lease' = TRUE /\ UNCHANGED h
     \/ ~Owned(h[x].w) /\ Error(x, "retry") /\ UNCHANGED lease
  /\ UNCHANGED <<status, owner, control, retries, mismatch, expected, plan, journal, disk,
                 rec, proc, req, bounds>>

(* handle_task on an error looks for a request first ...                   *)
HandleError(x) ==
  /\ h[x].pc = "error"
  /\ IF control = "none" THEN Goto(x, "settle") ELSE Interrupt(x)
  /\ UNCHANGED <<rows, disk, rec, proc, req, bounds>>

(* Mutant: a failed task gives up its journal row.                         *)
FailDropsJournal(x) ==
  LET again == h[x].err = "retry" /\ h[x].tries < MaxRetries
  IN  /\ h[x].pc = "settle"
      /\ IF status = "running" /\ owner = h[x].w
         THEN /\ Row(IF again THEN "queued" ELSE "failed", Nobody, FALSE, "none")
              /\ retries' = IF again THEN retries + 1 ELSE retries
              /\ journal' = {} /\ mismatch' = (h[x].err = "mismatch")
         ELSE UNCHANGED <<task, journal>>
      /\ h' = [h EXCEPT ![x] = Idle]
      /\ UNCHANGED <<expected, plan, disk, rec, proc, req, bounds>>

(* ... and then calls fail_or_retry.                                       *)
FailOrRetry(x) ==
  LET again == h[x].err = "retry" /\ h[x].tries < MaxRetries
  IN  /\ h[x].pc = "settle"
      /\ IF status = "running" /\ owner = h[x].w
         THEN /\ Row(IF again THEN "queued" ELSE "failed", Nobody, FALSE, "none")
              /\ retries' = IF again THEN retries + 1 ELSE retries
              /\ mismatch' = (h[x].err = "mismatch")
         ELSE UNCHANGED task
      /\ h' = [h EXCEPT ![x] = Idle]
      /\ UNCHANGED <<expected, plan, journal, disk, rec, proc, req, bounds>>

(* Interrupted: a cancelled task loses its .part file first.               *)
RemovePartial(x) ==
  /\ h[x].pc = "cancel"
  /\ partial' = NoFile
  /\ Goto(x, "cancelled")
  /\ UNCHANGED <<rows, target, files, data, long, rec, proc, req, bounds>>

(* finish_control.                                                         *)
FinishControl(x) ==
  /\ h[x].pc \in {"pause", "cancelled"}
  /\ IF status = "running" /\ owner = h[x].w
     THEN Row(IF h[x].pc = "pause" THEN "paused" ELSE "cancelled", Nobody, FALSE, "none")
     ELSE UNCHANGED <<status, owner, lease, control>>
  /\ h' = [h EXCEPT ![x] = Idle]
  /\ UNCHANGED <<retries, mismatch, expected, plan, journal, disk, rec, proc, req, bounds>>

-----------------------------------------------------------------------------
(* The run loop: recover_expired and recover_publish_journals.             *)

RecoverExpired(w) ==
  /\ proc[w] = "up" /\ rec[w].pc = "idle"
  /\ status = "running" /\ ~lease /\ journal = {}
  /\ Release
  /\ UNCHANGED <<retries, mismatch, expected, plan, journal, disk, h, rec, proc, req, bounds>>

(* The journal row and the task are read.                                  *)
ReadJournal(w) ==
  /\ proc[w] = "up" /\ rec[w].pc = "idle" /\ journal # {}
  /\ rec' = [rec EXCEPT ![w] = [Quiet EXCEPT !.pc = "target", !.row = journal,
                !.live = (status = "running" /\ lease), !.cancel = (control = "cancel")]]
  /\ UNCHANGED <<rows, disk, h, proc, req, bounds>>

RecGoto(w, pc) == rec' = [rec EXCEPT ![w].pc = pc]
RecDone(w) == rec' = [rec EXCEPT ![w] = Quiet]

(* Mutant: any file at the target counts as the published one.             *)
InspectAnyTarget(w) ==
  /\ rec[w].pc = "target"
  /\ \E e \in rec[w].row :
       \/ (target # NoFile) /\ RecGoto(w, "published")
       \/ ~(target # NoFile) /\ rec[w].live /\ RecDone(w)
       \/ target = NoFile /\ ~rec[w].live /\ RecGoto(w, "partial")
       \/ target # NoFile /\ ~(target # NoFile) /\ ~rec[w].live /\ RecGoto(w, "conflict")
  /\ UNCHANGED <<rows, disk, h, proc, req, bounds>>

(* The target is looked at: published, in the hands of a live worker, not  *)
(* published, or occupied.                                                 *)
InspectTarget(w) ==
  /\ rec[w].pc = "target"
  /\ \E e \in rec[w].row :
       \/ Identified(target, e) /\ RecGoto(w, "published")
       \/ ~Identified(target, e) /\ rec[w].live /\ RecDone(w)
       \/ target = NoFile /\ ~rec[w].live /\ RecGoto(w, "partial")
       \/ target # NoFile /\ ~Identified(target, e) /\ ~rec[w].live /\ RecGoto(w, "conflict")
  /\ UNCHANGED <<rows, disk, h, proc, req, bounds>>

(* finalize_publish; when the row is gone and the task is not completed it *)
(* is an error that ends the run loop.                                     *)
RecoverPublished(w) ==
  /\ rec[w].pc = "published"
  /\ \E e \in rec[w].row :
       \/ Finalize(e) /\ RecDone(w)
       \/ /\ journal # {e} /\ UNCHANGED rows
          /\ IF status = "completed" THEN RecDone(w) ELSE RecGoto(w, "exit")
  /\ UNCHANGED <<disk, h, proc, req, bounds>>

(* The .part file is looked at, locked and looked at again.                *)
InspectPartial(w) ==
  /\ rec[w].pc = "partial"
  /\ \E e \in rec[w].row :
       \/ ~Identified(partial, e) /\ RecGoto(w, "conflict")
       \/ Identified(partial, e) /\ Locked(partial) /\ RecDone(w)
       \/ /\ Identified(partial, e) /\ ~Locked(partial)
          /\ rec' = [rec EXCEPT ![w].pc = "unpublished", ![w].lock = partial]
  /\ UNCHANGED <<rows, disk, h, proc, req, bounds>>

(* recover_unpublished: nothing was renamed, the task is released.         *)
RecoverUnpublished(w) ==
  /\ rec[w].pc = "unpublished"
  /\ IF status = "deleted" \/ (status = "running" /\ lease)
     THEN RecDone(w) /\ UNCHANGED rows
     ELSE /\ Release /\ journal' = {}
          /\ UNCHANGED <<retries, mismatch, expected, plan>>
          /\ IF rec[w].cancel THEN RecGoto(w, "remove") ELSE RecDone(w)
  /\ UNCHANGED <<disk, h, proc, req, bounds>>

RecoverRemove(w) ==
  /\ rec[w].pc = "remove"
  /\ partial' = NoFile /\ RecDone(w)
  /\ UNCHANGED <<rows, target, files, data, long, h, proc, req, bounds>>

(* fail_recovery: the names on disk do not agree with the journal.         *)
FailRecovery(w) ==
  /\ rec[w].pc = "conflict"
  /\ journal' = {} /\ RecDone(w)
  /\ IF status = "deleted" THEN UNCHANGED task
     ELSE Row("failed", Nobody, FALSE, control) /\ mismatch' = FALSE /\ UNCHANGED retries
  /\ UNCHANGED <<expected, plan, disk, h, proc, req, bounds>>

-----------------------------------------------------------------------------
(* Processes and the world around them.                                    *)

Start(w) ==
  /\ proc[w] = "new" /\ proc' = [proc EXCEPT ![w] = "up"]
  /\ shared' = (shared \/ \E v \in Workers : proc[v] \in {"up", "stopping"})
  /\ UNCHANGED <<rows, disk, h, rec, req, stalls, events>>

(* The handlers of w, their locks and its recovery are gone.               *)
Vanish(w, st) ==
  /\ proc' = [proc EXCEPT ![w] = st]
  /\ h' = [x \in Handlers |-> IF h[x].w = w THEN Idle ELSE h[x]]
  /\ rec' = [rec EXCEPT ![w] = Quiet]
  /\ Event
  /\ UNCHANGED <<rows, disk, req>>

(* A signal, or an error of the run loop: the handlers end or are aborted  *)
Shutdown(w) == proc[w] = "up" /\ rec[w].pc \in {"idle", "exit"} /\ Vanish(w, "stopping")

(* and requeue_owned gives the task back.                                  *)
RequeueOwned(w) ==
  /\ proc[w] = "stopping" /\ proc' = [proc EXCEPT ![w] = "gone"]
  /\ IF status = "running" /\ owner = w THEN Release
     ELSE UNCHANGED <<status, owner, lease, control>>
  /\ UNCHANGED <<retries, mismatch, expected, plan, journal, disk, h, rec, req, bounds>>

Crash(w) == proc[w] \in {"up", "stopping"} /\ Vanish(w, "gone")

(* A lease runs out: that of a handler that is gone, or, stalls counts     *)
(* them, that of one which was held up for as long as the lease.           *)
Working == \E x \in Handlers : h[x].pc # "idle" /\ h[x].w = owner
LeaseExpires ==
  /\ status = "running" /\ lease /\ lease' = FALSE
  /\ IF Working
     THEN events < MaxEvents /\ events' = events + 1 /\ stalls' = stalls + 1
          /\ UNCHANGED shared
     ELSE UNCHANGED bounds
  /\ UNCHANGED <<status, owner, control, retries, mismatch, expected, plan, journal, disk, h,
                 rec, proc, req>>

(* Somebody creates a file with the target's name.                         *)
UserPuts ==
  /\ target = NoFile /\ target' = UserFile /\ Event
  /\ UNCHANGED <<rows, partial, files, data, long, h, rec, proc, req>>

-----------------------------------------------------------------------------
(* The API.  A request that unlinks the .part file awaits in between; req  *)
(* is what it has left to do.                                              *)

Begin(r, next) ==
  /\ req[r] = "none" /\ Event /\ req' = [req EXCEPT ![r] = next]
  /\ UNCHANGED <<expected, journal, disk, h, rec, proc>>

(* transitionDownloadTask without resetProgress.                           *)
Transition(st) == Row(st, Nobody, FALSE, "none") /\ mismatch' = FALSE /\ UNCHANGED <<retries, plan>>

(* requestDownloadTaskControl: a cancel is not replaced by a pause.        *)
RequestControl(c) ==
  /\ status = "running"
  /\ control' = IF control = "cancel" THEN "cancel" ELSE c
  /\ UNCHANGED <<status, owner, lease, retries, mismatch, plan>>

Pause(r) ==
  /\ Begin(r, "none")
  /\ RequestControl("pause") \/ (status = "queued" /\ Transition("paused"))

Resume(r) == Begin(r, "none") /\ status = "paused" /\ Transition("queued")

Cancel(r) ==
  \/ Begin(r, "none") /\ RequestControl("cancel")
  \/ Begin(r, "unlink") /\ status \in {"queued", "paused"} /\ Transition("cancelled")

Retry(r) ==
  \/ /\ status = "cancelled" \/ mismatch
     /\ Begin(r, "unlink_retry") /\ UNCHANGED <<task, plan>>
  \/ Begin(r, "none") /\ status = "failed" /\ ~mismatch /\ Transition("queued")

Delete(r) ==
  \/ /\ status \in {"queued", "paused", "failed"}
     /\ Begin(r, "unlink_delete") /\ Transition("cancelled")
  \/ Begin(r, "unlink_delete") /\ status = "cancelled" /\ UNCHANGED <<task, plan>>
  \/ Begin(r, "delete") /\ status = "completed" /\ UNCHANGED <<task, plan>>

AfterUnlink == [unlink |-> "none", unlink_retry |-> "requeue", unlink_delete |-> "delete"]

(* removePartialFile unlinks whatever has the name; if it cannot, the      *)
(* request ends.                                                           *)
Unlink(r) ==
  /\ req[r] \in DOMAIN AfterUnlink
  /\ \/ partial' = NoFile /\ req' = [req EXCEPT ![r] = AfterUnlink[@]] /\ UNCHANGED bounds
     \/ UNCHANGED partial /\ req' = [req EXCEPT ![r] = "none"] /\ Event
  /\ UNCHANGED <<rows, target, files, data, long, h, rec, proc>>

(* The rest of retry: transitionDownloadTask with resetProgress, whose     *)
(* DELETE of the segments is a statement of its own.                       *)
Requeue(r) ==
  /\ req[r] = "requeue"
  /\ IF status \in {"failed", "cancelled"}
     THEN /\ Row("queued", Nobody, FALSE, "none") /\ mismatch' = FALSE /\ retries' = 0
          /\ req' = [req EXCEPT ![r] = "reset"]
     ELSE UNCHANGED task /\ req' = [req EXCEPT ![r] = "none"]
  /\ UNCHANGED <<expected, plan, journal, disk, h, rec, proc, bounds>>

ResetSegments(r) ==
  /\ req[r] = "reset" /\ plan' = {} /\ req' = [req EXCEPT ![r] = "none"]
  /\ UNCHANGED <<task, expected, journal, disk, h, rec, proc, bounds>>

(* deleteDownloadTask; the other tables follow.                            *)
DeleteTask(r) ==
  /\ req[r] = "delete" /\ req' = [req EXCEPT ![r] = "none"]
  /\ IF status \in {"running", "deleted"} THEN UNCHANGED <<task, plan, journal>>
     ELSE /\ Row("deleted", Nobody, FALSE, "none") /\ mismatch' = FALSE
          /\ plan' = {} /\ journal' = {} /\ UNCHANGED retries
  /\ UNCHANGED <<expected, disk, h, rec, proc, bounds>>

HandlerStep(x) ==
  \/ \E w \in Workers : Claim(x, w)
  \/ Probe(x) \/ LockPartial(x) \/ PlanSegments(x) \/ OpenTruncated(x)
  \/ \E s \in Segs : WriteSegment(x, s) \/ CheckpointSegment(x, s)
  \/ TransferFails(x) \/ SourceChanged(x) \/ RestartTransfer(x)
  \/ Verify(x) \/ Prepare(x) \/ BeginPublish(x) \/ Publish(x) \/ FinalizePublish(x)
  \/ Heartbeat(x) \/ HandleError(x) \/ FailOrRetry(x) \/ RemovePartial(x) \/ FinishControl(x)

RecoveryStep(w) ==
  \/ RecoverExpired(w) \/ ReadJournal(w) \/ InspectTarget(w) \/ RecoverPublished(w)
  \/ InspectPartial(w) \/ RecoverUnpublished(w) \/ RecoverRemove(w) \/ FailRecovery(w)

ProcessStep(w) == Start(w) \/ Shutdown(w) \/ RequeueOwned(w) \/ Crash(w)

RequestStep(r) ==
  \/ Pause(r) \/ Resume(r) \/ Cancel(r) \/ Retry(r) \/ Delete(r)
  \/ Unlink(r) \/ Requeue(r) \/ ResetSegments(r) \/ DeleteTask(r)

Next ==
  \/ \E x \in Handlers : HandlerStep(x)
  \/ \E w \in Workers : RecoveryStep(w) \/ ProcessStep(w)
  \/ \E r \in Requests : RequestStep(r)
  \/ LeaseExpires \/ UserPuts

Spec == Init /\ [][Next]_vars

-----------------------------------------------------------------------------
TypeOK ==
  /\ status \in {"queued", "running", "paused", "failed", "cancelled", "completed", "deleted"}
  /\ owner \in Workers \cup {Nobody} /\ lease \in BOOLEAN
  /\ control \in {"none", "pause", "cancel"} /\ retries \in 0 .. MaxRetries + MaxEvents
  /\ mismatch \in BOOLEAN
  /\ plan \subseteq SUBSET Segs /\ journal \subseteq [w : Workers, file : Files]
  /\ partial \in Files \cup {NoFile} /\ target \in Files \cup {NoFile, UserFile}

(* The rename never replaces a file: once the target has a file, of this   *)
(* download or of somebody else, no handler, recovery or request changes   *)
(* it.                                                                     *)
NeverOverwrites == [][target # NoFile => target' = target]_vars

(* A handler can lose its file to another one when two things come         *)
(* together: a second handler can work on the task while the first still   *)
(* does, because the lease of the first ran out or because two processes   *)
(* run, and the .part file was unlinked, so that the lock of the first no  *)
(* longer keeps the second out.                                            *)
Displaced == (stalls > 0 \/ shared) /\ files > 1

(* What is at the target has every segment, whichever crashes, retries,    *)
(* expired leases or unlinks of the .part file came between the planning   *)
(* and the rename, unless an unlink meets a second handler.                *)
PublishedIsWhole == target \in Files /\ ~Displaced => data[target] = Segs

(* A completed task has its file at the target: finalize_publish only      *)
(* follows a rename, also when it is a later process that calls it.        *)
CompletedIsPublished == status = "completed" => target \in Files

(* While one process runs at a time and no lease runs out under a handler  *)
(* that works, a renamed file whose journal is settled belongs to a        *)
(* completed task: recovery, cancel, pause, retry and shutdown do not give *)
(* it another status.                                                      *)
PublishedEndsCompleted ==
  stalls = 0 /\ ~shared /\ target \in Files /\ journal = {} => status \in {"completed", "deleted"}

(* lock_partial: two handlers do not transfer into one file, even when a   *)
(* lease has run out and the task was claimed again.                       *)
OneWriter ==
  ~Displaced => \A x, y \in Handlers :
    x # y /\ h[x].pc = "transfer" /\ h[y].pc = "transfer" => h[x].out # h[y].out

(* The segments recorded as done are in the .part file that a resume would *)
(* trust for its length.                                                   *)
PlanIsBacked == partial \in long /\ ~Displaced => UNION plan \subseteq data[partial]

(* What the row, its segments and its journal say about the files: a       *)
(* completed task is published and a published one ends completed, the     *)
(* plan is backed by the .part file, and one handler at a time writes it.  *)
RowsTellTheFiles == CompletedIsPublished /\ PublishedEndsCompleted /\ PlanIsBacked /\ OneWriter
=============================================================================
