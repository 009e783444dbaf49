------------------------------- MODULE Indexer -------------------------------
(***************************************************************************)
(* The text indexer of one NAS root (apps/indexer/src) with its queue, its *)
(* tables and the API that feeds and searches them                         *)
(* (packages/db/src/repositories/indexer-queue.ts, index-search.ts,        *)
(* index-run-*.ts, apps/api/src/routes/indexer.ts).                        *)
(*                                                                         *)
(* A file's identity (device, inode, size, times) is a version number, and *)
(* so is the text extracted from that version.  A queue row carries no     *)
(* generation number: an enqueue bumps it and clears worker_id at once, so *)
(* it is the claimed one exactly while the row is running for the worker.  *)
(* A scan generation is named by its worker.                               *)
(***************************************************************************)
EXTENDS Naturals, FiniteSets

CONSTANTS
  Files,        \* files of the root, present or not
  Dirs,         \* directories; "." is one
  Scope,        \* the files at or below a path, a file's being its own
  RootFiles,    \* the files whose entry is in the root directory itself
  Ignored,      \* files below an ignored directory
  Workers,      \* "daemon" and, beside it, a zos-indexer --once
  ScanConcurrency,
  Retries,      \* 5 in the code
  MaxChanges,
  MaxTrouble,   \* errors, crashes, unmounts and requests of users
  NONE

VARIABLES
  disk,       \* the version of each file, or NONE
  stamp,      \* the identity of the root directory: it has an mtime
  mounted,    \* the required mount is there
  rows,       \* indexed_files with indexed_content_fts
  legacy,     \* indexed_text: files whose old text is still to be copied
  content,    \* index_content_state.status
  queue,      \* index_queue
  due,        \* last_reconcile_at is null or an interval ago
  requested,  \* reconcile_requested
  channel,    \* messages from inotify, "overflow" among them
  pending,    \* paths the watch loop has merged and not enqueued
  work,       \* per worker: the task it runs
  run,        \* index_runs: the worker of the open run and its kind
  reported,   \* the status of the newest full run
  missed,     \* history: files whose event a crash has lost
  changes, trouble

source == <<disk, stamp, mounted, changes>>
tables == <<rows, legacy, content, run, reported>>
watch  == <<channel, pending>>
vars   == <<source, tables, watch, queue, due, requested, work, missed, trouble>>

Tree == Dirs \cup Files
Text  == Files \ Ignored

\* A path is the same as another or its ancestor.
is_same_or_ancestor(p, q) == Scope[q] \subseteq Scope[p] /\ (p \in Dirs \/ p = q)

Row(identity, body, gen, status) ==
  [identity |-> identity, body |-> body, gen |-> gen, status |-> status]

Task(status, owner, recursive, kind, retries) ==
  [status |-> status, owner |-> owner, recursive |-> recursive, kind |-> kind, retries |-> retries]

Init ==
  /\ disk = [f \in Files |-> 1]
  /\ stamp = 0 /\ mounted = TRUE
  /\ legacy \in {{}, Text}
  /\ rows = [f \in Files |-> IF f \in legacy THEN Row(NONE, NONE, NONE, "legacy") ELSE NONE]
  /\ content = "legacy"
  /\ queue = [p \in Tree |-> NONE]
  /\ due = TRUE /\ requested = FALSE
  /\ channel = {} /\ pending = {}
  /\ work = [w \in Workers |-> NONE]
  /\ run = NONE /\ reported = "never_run"
  /\ missed = {}
  /\ changes = 0 /\ trouble = 0

-----------------------------------------------------------------------------
(* The source.                                                             *)

\* inotify reports a change unless it is below an ignored directory.
changed_path(f) == IF f \in Ignored THEN {} ELSE {f}

\* A file is written, created or deleted; a new entry changes its directory.
Change(f) ==
  /\ mounted /\ changes < MaxChanges
  /\ changes' = changes + 1
  /\ \E v \in {changes + 2, NONE} :
       /\ v # disk[f]
       /\ disk' = [disk EXCEPT ![f] = v]
       /\ stamp' = IF f \in RootFiles /\ NONE \in {v, disk[f]} THEN stamp + 1 ELSE stamp
  /\ channel' = channel \cup changed_path(f)
  /\ UNCHANGED <<mounted, tables, pending, queue, due, requested, work, missed, trouble>>

Unmount ==
  /\ mounted /\ trouble < MaxTrouble
  /\ mounted' = FALSE /\ trouble' = trouble + 1
  /\ UNCHANGED <<disk, stamp, changes, tables, watch, queue, due, requested, work, missed>>

Mount ==
  /\ ~mounted /\ mounted' = TRUE
  /\ UNCHANGED <<disk, stamp, changes, tables, watch, queue, due, requested, work, missed, trouble>>

\* The kernel's queue overflows: what it held is lost, and the error is told.
Overflow ==
  /\ channel \ {"overflow"} # {} /\ trouble < MaxTrouble
  /\ channel' = {"overflow"} /\ trouble' = trouble + 1
  /\ UNCHANGED <<source, tables, pending, queue, due, requested, work, missed>>

-----------------------------------------------------------------------------
(* The queue.                                                              *)

Priority(kind) == CASE kind = "manual" -> 3 [] kind = "incremental" -> 2 [] kind = "full" -> 1

\* A second request for a path is merged into its row and starts it over.
enqueue(q, p, recursive, kind) ==
  [q EXCEPT ![p] =
     IF @ = NONE THEN Task("queued", NONE, recursive, kind, 0)
     ELSE Task("queued", NONE, recursive \/ @.recursive,
               CASE kind = "manual" \/ @.kind = "manual" -> "manual"
                 [] kind = "full" -> "full"
                 [] OTHER -> @.kind, 0)]

\* POST /api/indexer/reindex and the file operations; a full one asks for a
\* reconciliation as well.
enqueueIndexTask(p, recursive, kind) ==
  /\ trouble < MaxTrouble
  /\ trouble' = trouble + 1
  /\ queue' = enqueue(queue, p, recursive, kind)
  /\ requested' = (requested \/ kind = "full")
  /\ UNCHANGED <<source, tables, watch, due, work, missed>>

\* An interval after the last reconciliation.
IntervalPasses ==
  /\ ~due /\ due' = TRUE
  /\ UNCHANGED <<source, tables, watch, queue, requested, work, missed, trouble>>

\* Every poll of the daemon, between two tasks of its own.
ensure_reconciliation_tasks ==
  /\ work["daemon"] = NONE
  /\ due \/ requested
  /\ queue' = enqueue(queue, ".", TRUE, "full")
  /\ UNCHANGED <<source, tables, watch, due, requested, work, missed, trouble>>

\* The old text of one more file is copied, if the file has a row and no text;
\* the batch that finds no more asks for a full scan.
copy_legacy_batch ==
  /\ work["daemon"] = NONE
  /\ content \notin {"rebuilding", "ready"}
  /\ \/ \E f \in legacy :
          /\ rows[f] # NONE
          /\ rows' = IF rows[f].body # NONE THEN rows ELSE [rows EXCEPT ![f].body = 0]
          /\ legacy' = legacy \ {f}
          /\ content' = "copying" /\ queue' = queue
     \/ /\ \A f \in legacy : rows[f] = NONE
        /\ content' = "rebuilding"
        /\ queue' = enqueue(queue, ".", TRUE, "full")
        /\ UNCHANGED <<rows, legacy>>
  /\ UNCHANGED <<source, watch, due, requested, work, run, reported, missed, trouble>>

-----------------------------------------------------------------------------
(* The watch loop.                                                         *)

merge_ancestor(paths, p) ==
  IF \E q \in paths : is_same_or_ancestor(q, p) THEN paths
  ELSE {q \in paths : ~is_same_or_ancestor(p, q)} \cup {p}

\* Mutant: the error is recorded, and no scan is asked for.
DegradedForgotten ==
  /\ "overflow" \in channel
  /\ channel' = channel \ {"overflow"}
  /\ UNCHANGED <<source, tables, pending, queue, due, requested, work, missed, trouble>>

\* A watcher error marks the root degraded and asks for a full scan.
Degraded ==
  /\ "overflow" \in channel
  /\ channel' = channel \ {"overflow"}
  /\ requested' = TRUE
  /\ queue' = enqueue(queue, ".", TRUE, "full")
  /\ UNCHANGED <<source, tables, pending, due, work, missed, trouble>>

Changed(f) ==
  /\ f \in channel
  /\ channel' = channel \ {f}
  /\ pending' = merge_ancestor(pending, f)
  /\ UNCHANGED <<source, tables, queue, due, requested, work, missed, trouble>>

Debounce(p) ==
  /\ p \in pending
  /\ pending' = pending \ {p}
  /\ queue' = enqueue(queue, p, TRUE, "incremental")
  /\ UNCHANGED <<source, tables, channel, due, requested, work, missed, trouble>>

-----------------------------------------------------------------------------
(* A worker and its task.                                                  *)

Owns(w) == LET t == queue[work[w].path] IN t # NONE /\ t.status = "running" /\ t.owner = w

\* Expired leases first; a retry may not be due yet, a queued task always is.
claim(w) ==
  /\ work[w] = NONE
  /\ LET free == [p \in Tree |-> IF queue[p] # NONE /\ queue[p].owner = "gone"
                                  THEN [queue[p] EXCEPT !.status = "queued", !.owner = NONE]
                                  ELSE queue[p]]
         Waits(p, s) == free[p] # NONE /\ free[p].status \in s
     IN \E p \in Tree :
          /\ Waits(p, {"queued", "retrying"})
          /\ \A q \in Tree : Waits(q, {"queued"}) => Priority(free[q].kind) <= Priority(free[p].kind)
          /\ queue' = [free EXCEPT ![p].status = "running", ![p].owner = w]
          /\ work' = [work EXCEPT ![w] =
                [path |-> p, recursive |-> free[p].recursive, kind |-> free[p].kind,
                 step |-> "start", todo |-> {}, open |-> <<>>, failed |-> FALSE, stamp |-> 0]]
  /\ UNCHANGED <<source, tables, watch, due, requested, missed, trouble>>

At(w, s) == work[w] # NONE /\ work[w].step = s

\* The task's scan has a generation when it is to clean up.
Generation(t) == t.recursive /\ t.path \in Dirs

Rebuild(t) == Generation(t) /\ t.path = "."

\* Every error of a scan may be retried, Retries times; a worker that has
\* lost its row leaves it alone.
retry_or_fail(w) ==
  LET t == queue[work[w].path] IN
  IF ~Owns(w) THEN queue
  ELSE [queue EXCEPT ![work[w].path] =
          IF t.retries < Retries THEN Task("retrying", NONE, t.recursive, t.kind, t.retries + 1)
          ELSE Task("failed", NONE, t.recursive, t.kind, t.retries)]

\* A run still open is superseded; the newest full run is kept at hand.
archive_previous_runs == IF run # NONE /\ run.kind = "full" THEN "failed" ELSE reported

start_run(w) ==
  /\ run' = [owner |-> w, kind |-> work[w].kind]
  /\ reported' = IF work[w].kind = "full" THEN "running" ELSE archive_previous_runs

finish_run(w, status) ==
  IF run # NONE /\ run.owner = w
  THEN run' = NONE /\ reported' = IF run.kind = "full" THEN status ELSE reported
  ELSE UNCHANGED <<run, reported>>

\* The files a traversal is to meet; without recursion, those of the directory.
scan(t) ==
  IF t.path \in Files \/ t.recursive THEN Scope[t.path]
  ELSE Scope[t.path] \cap (IF t.path = "." THEN RootFiles ELSE Files)

\* run_task: without the mount nothing is begun.  A new generation is one no
\* row has yet.
run_task(w) ==
  /\ At(w, "start")
  /\ LET t == work[w] IN
     IF ~mounted
     THEN /\ queue' = retry_or_fail(w)
          /\ work' = [work EXCEPT ![w] = NONE]
          /\ UNCHANGED tables
     ELSE /\ rows' = IF ~Generation(t) THEN rows
                     ELSE [f \in Files |-> IF rows[f] # NONE /\ rows[f].gen = w
                                           THEN [rows[f] EXCEPT !.gen = NONE] ELSE rows[f]]
          /\ content' = IF Rebuild(t) /\ content # "ready" THEN "rebuilding" ELSE content
          /\ start_run(w)
          /\ work' = [work EXCEPT ![w].step = "scan", ![w].stamp = stamp, ![w].todo = scan(t)]
          /\ UNCHANGED <<queue, legacy>>
  /\ UNCHANGED <<source, watch, due, requested, missed, trouble>>

\* Whether the root directory and its mount are those of the start.
verify_source_unchanged(w) == mounted /\ stamp = work[w].stamp

\* A traversal meets a file, or no file, once.  One whose row has its identity
\* and a text is only touched.  The target of a task may be a missing or an
\* ignored file: its row goes, once the source is known to be unchanged.
process_file(w, f) ==
  /\ At(w, "scan") /\ f \in work[w].todo
  /\ Cardinality(DOMAIN work[w].open) < ScanConcurrency
  /\ LET t == work[w]
         gone == t.path = f /\ (f \in Ignored \/ disk[f] = NONE)
         same == rows[f] # NONE /\ rows[f].identity = disk[f] /\ rows[f].body # NONE
         after == [t EXCEPT !.todo = @ \ {f}]
     IN \/ /\ gone
           /\ rows' = IF verify_source_unchanged(w) THEN [rows EXCEPT ![f] = NONE] ELSE rows
           /\ work' = [work EXCEPT ![w] = [after EXCEPT !.failed = ~verify_source_unchanged(w)]]
        \/ /\ ~gone /\ (f \in Ignored \/ disk[f] = NONE)
           /\ rows' = rows /\ work' = [work EXCEPT ![w] = after]
        \/ /\ f \notin Ignored /\ disk[f] # NONE /\ same
           /\ rows' = IF Generation(t) THEN [rows EXCEPT ![f].gen = w] ELSE rows
           /\ work' = [work EXCEPT ![w] = after]
        \/ /\ f \notin Ignored /\ disk[f] # NONE /\ ~same
           /\ rows' = rows
           /\ work' = [work EXCEPT ![w] = [after EXCEPT !.open =
                [g \in DOMAIN t.open \cup {f} |-> IF g = f THEN disk[f] ELSE t.open[g]]]]
  /\ UNCHANGED <<source, legacy, content, run, reported, watch, queue, due, requested, missed, trouble>>

Closed(t, f) == [t EXCEPT !.open = [g \in DOMAIN t.open \ {f} |-> t.open[g]]]

\* The text is out: it is published if the file, and the root, are as they
\* were when it was opened.
publish_file(w, f) ==
  /\ At(w, "scan") /\ f \in DOMAIN work[w].open
  /\ LET t == work[w]
         ok == disk[f] = t.open[f] /\ verify_source_unchanged(w)
     IN /\ rows' = IF ok
                   THEN [rows EXCEPT ![f] = Row(t.open[f], t.open[f],
                           IF Generation(t) THEN w ELSE IF @ = NONE THEN NONE ELSE @.gen, "ready")]
                   ELSE rows
        /\ work' = [work EXCEPT ![w] = [Closed(t, f) EXCEPT !.failed = @ \/ ~ok]]
  /\ UNCHANGED <<source, legacy, content, run, reported, watch, queue, due, requested, missed, trouble>>

\* The extractor fails (no tool, a timeout, a limit, a corrupt document): the
\* row takes the new identity and keeps the text it had.
record_extraction_error(w, f) ==
  /\ At(w, "scan") /\ f \in DOMAIN work[w].open
  /\ trouble < MaxTrouble /\ trouble' = trouble + 1
  /\ LET t == work[w]
         body == IF rows[f] = NONE THEN NONE ELSE rows[f].body
     IN /\ rows' = IF disk[f] # t.open[f] THEN rows
                   ELSE [rows EXCEPT ![f] = Row(t.open[f], body,
                           IF Generation(t) THEN w ELSE IF @ = NONE THEN NONE ELSE @.gen,
                           IF body = NONE THEN "error" ELSE "stale")]
        /\ work' = [work EXCEPT ![w] = [Closed(t, f) EXCEPT !.failed = TRUE]]
  /\ UNCHANGED <<source, legacy, content, run, reported, watch, queue, due, requested, missed>>

Scanned(w) == At(w, "scan") /\ work[w].todo = {} /\ DOMAIN work[w].open = {}

\* Mutant: rows are cleaned up although some files could not be read.
cleanup_always(w) ==
  /\ Scanned(w)
  /\ LET t == work[w] IN
     /\ rows' = [f \in Files |-> IF Generation(t) /\ f \in Scope[t.path] /\ rows[f] # NONE /\ rows[f].gen # w
                                 THEN NONE ELSE rows[f]]
     /\ queue' = queue
     /\ content' = content /\ UNCHANGED <<due, requested>>
     /\ finish_run(w, "completed")
     /\ work' = [work EXCEPT ![w].step = "complete"]
  /\ UNCHANGED <<source, legacy, watch, missed, trouble>>

\* A whole scan of an unchanged source removes the rows of other generations
\* and the failed tasks below its path; of the root, it is a reconciliation.
cleanup_generation(w) ==
  /\ Scanned(w)
  /\ LET t == work[w]
         ok == ~t.failed /\ verify_source_unchanged(w)
         clean == ok /\ Generation(t)
     IN /\ rows' = [f \in Files |->
                      IF clean /\ f \in Scope[t.path] /\ rows[f] # NONE /\ rows[f].gen # w
                      THEN NONE ELSE rows[f]]
        /\ queue' = IF ~ok THEN retry_or_fail(w)
                    ELSE [p \in Tree |->
                            IF clean /\ is_same_or_ancestor(t.path, p) /\ queue[p] # NONE /\ queue[p].status = "failed"
                            THEN NONE ELSE queue[p]]
        /\ due' = (due /\ ~(ok /\ Rebuild(t)))
        /\ requested' = (requested /\ ~(ok /\ Rebuild(t)))
        /\ content' = IF ok /\ Rebuild(t) THEN "ready" ELSE content
        /\ finish_run(w, IF ok THEN "completed" ELSE "failed")
        /\ work' = [work EXCEPT ![w] = IF ok THEN [t EXCEPT !.step = "complete"] ELSE NONE]
  /\ UNCHANGED <<source, legacy, watch, missed, trouble>>


\* The row is deleted if it is still the claimed one.
complete_task(w) ==
  /\ At(w, "complete")
  /\ queue' = IF Owns(w) THEN [queue EXCEPT ![work[w].path] = NONE] ELSE queue
  /\ work' = [work EXCEPT ![w] = NONE]
  /\ UNCHANGED <<source, tables, watch, due, requested, missed, trouble>>

\* renew_lease finds the row changed: the scan is dropped where it is.
LeaseLost(w) ==
  /\ work[w] # NONE /\ ~Owns(w) /\ work[w].step # "complete"
  /\ work' = [work EXCEPT ![w] = NONE]
  /\ UNCHANGED <<source, tables, watch, queue, due, requested, missed, trouble>>

\* The service stops or is killed: what it held in memory is gone, its leases
\* run out.  A watcher that starts again reports no old event.
Crash ==
  /\ trouble < MaxTrouble
  /\ trouble' = trouble + 1
  /\ work' = [work EXCEPT !["daemon"] = NONE]
  /\ queue' = [p \in Tree |-> IF queue[p] # NONE /\ queue[p].owner = "daemon"
                               THEN [queue[p] EXCEPT !.owner = "gone"] ELSE queue[p]]
  /\ channel' = {} /\ pending' = {}
  /\ missed' = missed \cup (IF "overflow" \in channel THEN Text
                            ELSE channel \cup UNION {Scope[p] : p \in pending})
  /\ UNCHANGED <<source, tables, due, requested>>

DaemonRuns ==
  \/ ensure_reconciliation_tasks \/ copy_legacy_batch \/ Degraded
  \/ \E f \in Text : Changed(f)
  \/ \E p \in Tree : Debounce(p)

WorkerRuns(w) ==
  \/ claim(w) \/ run_task(w) \/ cleanup_generation(w) \/ complete_task(w) \/ LeaseLost(w)
  \/ \E f \in Files : process_file(w, f) \/ publish_file(w, f)

Next ==
  \/ \E f \in Files : Change(f)
  \/ Unmount \/ Mount \/ Overflow \/ IntervalPasses \/ Crash
  \/ \E p \in Tree, r \in BOOLEAN, k \in {"manual", "incremental"} : enqueueIndexTask(p, r, k)
  \/ DaemonRuns
  \/ \E w \in Workers : WorkerRuns(w) \/ \E f \in Files : record_extraction_error(w, f)

\* The daemon is polled, a worker that has a task goes on with it, storage comes
\* back, and the reconciliation interval passes.
Fairness ==
  /\ WF_vars(DaemonRuns) /\ \A w \in Workers : WF_vars(WorkerRuns(w))
  /\ WF_vars(Mount) /\ WF_vars(IntervalPasses)

Spec == Init /\ [][Next]_vars /\ Fairness

-----------------------------------------------------------------------------

\* Some task, event or message will have the file looked at again.  A task
\* that runs counts until its scan has been at the file, of a missing file
\* until it cleans up, and after that only if it is to fail.  A failed task is reported as such (getIndexerServiceStatus).
Covered(f) ==
  \/ "overflow" \in channel \/ f \in channel
  \/ \E p \in pending : f \in Scope[p]
  \/ \E p \in Tree :
       /\ queue[p] # NONE /\ f \in Scope[p]
       /\ queue[p].owner \in Workers =>
            LET t == work[queue[p].owner] IN
              \/ t.step = "start" \/ t.failed \/ f \in t.todo \/ f \in DOMAIN t.open
              \/ t.step = "scan" /\ Generation(t) /\ disk[f] = NONE

\* The text a search finds for a file: queryIndexedText and
\* queryIndexAdvanced read the old table until the root is rebuilt.
queryIndexedText(f) ==
  IF rows[f] # NONE /\ rows[f].body # NONE THEN rows[f].body
  ELSE IF content # "ready" /\ f \in legacy THEN 0 ELSE NONE


\* A file whose text could not be extracted keeps its old text and is tried
\* again (record_extraction_error, process_file).
\* The code does not keep this in every case: README.md says when.
StaleIsRetried ==
  \A f \in Text :
    (rows[f] # NONE /\ rows[f].status = "stale" /\ rows[f].identity = disk[f]) => Covered(f)

\* Once files and mounts rest, search comes to tell the truth about every file,
\* or says that its row is stale or in error: the periodic reconciliation makes
\* up for lost events, interrupted scans and failed tasks (IntervalPasses,
\* ensure_reconciliation_tasks).
Settled ==
  \A f \in Text : queryIndexedText(f) = disk[f] \/ (rows[f] # NONE /\ rows[f].status \in {"stale", "error"})

\* See Settled: the index catches up with the disk.
CatchesUp == <>[]Settled
=============================================================================
