----------------------------- MODULE Photostaff -----------------------------
(***************************************************************************)
(* The photo library: the photostaff daemon (apps/photostaff) and the      *)
(* requests of the API that change its tables (routes/photos.ts,           *)
(* repositories/photostaff.ts).                                            *)
(*                                                                         *)
(* A daemon process claims a job under a lease, lists the library, renders *)
(* a derivative for every file that changed and publishes it: a journal    *)
(* row first, then the rename into the cache, then the asset row.  A       *)
(* process that starts, or comes round to its next tick, finishes the      *)
(* journals that jobs without a live lease left behind.                    *)
(*                                                                         *)
(* A process is used once: a restart is another member of Workers, as its  *)
(* worker id is another one.  The library is one directory.  A source file *)
(* is its identity (device, inode, size, times), a number; the derivative  *)
(* is named after the content, so equal numbers under two paths share one. *)
(***************************************************************************)
EXTENDS Naturals, FiniteSets, FiniteSetsExt

CONSTANTS
  Workers,      \* daemon processes, in turn or side by side
  Paths,        \* media files of the library, numbers in path order
  MaxJobs,      \* job rows
  MaxIdent,     \* identities a source file takes
  MaxLibrary,   \* library configurations (library_updated_at)
  MaxOps,       \* renderings started
  MaxRetries,   \* settings.max_auto_retries
  Concurrency,  \* settings.processing_concurrency
  Space,        \* renderings the free space of the cache has room for
  MaxUploads,   \* upload requests
  MaxTrouble,   \* crashes, stops, expired leases and failures
  NONE

ASSUME PhotoAssumption == MaxJobs \in Nat /\ MaxIdent \in Nat \ {0} /\ Paths \subseteq Nat \ {0}

VARIABLES
  library,   \* the current library_updated_at
  disk,      \* path -> identity, or NONE
  job,       \* photostaff_jobs, in the order of created_at
  entry,     \* photostaff_scan_entries of a job; Dir is the directory
  asset,     \* photostaff_assets by path
  journal,   \* photostaff_publish_journal
  space,     \* photostaff_space_reservations: <<job, path>>
  upload,    \* photostaff_upload_reservations
  temps,     \* renderings whose temporary files exist
  cache,     \* the rendering published for a content, or 0
  worker,    \* a process: where it is, its job, what it recovers
  task,      \* process_entry of a process for a path
  ops,       \* renderings started so far
  requests,  \* uploads between their reservation and their link
  trouble    \* disturbances so far

dbVars == <<library, job, entry, asset, journal, space, upload>>
fsVars == <<disk, temps, cache>>
vars == <<dbVars, fsVars, worker, task, ops, requests, trouble>>

Jobs == 1..MaxJobs
Dir == 0
Idents == 1..MaxIdent
Idle == [pc |-> "none", ident |-> NONE, op |-> 0]
NoJob == [status |-> "none", kind |-> NONE, lib |-> 0, owner |-> NONE, lease |-> NONE, retry |-> 0]
Record(j, p, i, o) == [job |-> j, path |-> p, ident |-> i, op |-> o, lib |-> job[j].lib]

Live(j) == job[j].status = "running" /\ job[j].lease = "live"
\* ensure_job_owned, the guard of every transaction of a working process.
Owned(w) == LET j == worker[w].job IN Live(j) /\ job[j].owner = w
\* job_recoverable: nobody works on the job.
Recoverable(j) == ~Live(j)

\* The rows the database and the file system hold for content that is wanted.
Kept == {asset[p].ident : p \in {q \in Paths : asset[q].status = "ready"}}
          \cup {r.ident : r \in journal}

-----------------------------------------------------------------------------
(* The API.                                                                *)

\* enqueuePhotostaffJob: a queued or running job of the kind is joined.
Enqueue(js, lib, kind, afterRunning) ==
  LET same == {j \in Jobs : /\ js[j].lib = lib /\ js[j].kind = kind
                            /\ js[j].status \in IF afterRunning THEN {"queued"} ELSE {"queued", "running"}}
      free == {j \in Jobs : js[j].status = "none"}
  IN IF same # {} \/ free = {} THEN js
     ELSE [js EXCEPT ![Min(free)] = [NoJob EXCEPT !.status = "queued", !.kind = kind, !.lib = lib]]

\* Only histories with room for the row are followed.
Room(n) == Cardinality({j \in Jobs : job[j].status = "none"}) >= n

\* savePhotostaffLibrarySettings and the scan that PUT /api/photos/settings queues.
ChangeLibrary ==
  /\ library < MaxLibrary /\ Room(1)
  /\ library' = library + 1
  /\ asset' = [p \in Paths |-> [status |-> "none", ident |-> NONE, lib |-> 0, gen |-> 0]]
  /\ upload' = {}
  /\ job' = Enqueue([j \in Jobs |-> IF job[j].status \in {"queued", "running", "retrying"}
                                    THEN [job[j] EXCEPT !.status = "failed", !.owner = NONE, !.lease = NONE]
                                    ELSE job[j]], library + 1, "full_scan", FALSE)
  /\ UNCHANGED <<entry, journal, space, fsVars, worker, task, ops, requests, trouble>>

\* POST /api/photos/scans
RequestScan ==
  /\ Room(1)
  /\ job' = Enqueue(job, library, "full_scan", FALSE)
  /\ UNCHANGED <<library, entry, asset, journal, space, upload, fsVars, worker, task, ops, requests, trouble>>

\* reservePhotostaffUpload: content that an asset or a reservation has is refused.
Duplicate(i, p) ==
  \/ \E q \in Paths : asset[q].status = "ready" /\ asset[q].lib = library /\ asset[q].ident = i
  \/ \E u \in upload : u.ident = i \/ u.path = p

\* PUT /api/photos/upload up to the reservation: the target is looked for first.
ReserveUpload(p, i) ==
  /\ Cardinality(requests) < MaxUploads /\ disk[p] = NONE
  /\ \E j \in Jobs : job[j].lib = library /\ job[j].kind = "full_scan" /\ job[j].status = "completed"
  /\ ~Duplicate(i, p)
  /\ upload' = upload \cup {[path |-> p, ident |-> i]}
  /\ requests' = requests \cup {[path |-> p, ident |-> i, lib |-> library, done |-> FALSE]}
  /\ UNCHANGED <<library, job, entry, asset, journal, space, fsVars, worker, task, ops, trouble>>

\* PUT /api/photos/upload from the link of the file into the library.
LinkUpload(r) ==
  /\ r \in requests /\ ~r.done
  /\ requests' = (requests \ {r}) \cup {[r EXCEPT !.done = TRUE]}
  /\ IF disk[r.path] = NONE
     THEN /\ Room(1)
          /\ disk' = [disk EXCEPT ![r.path] = r.ident]
          /\ job' = Enqueue(job, r.lib, "path_refresh", FALSE)
          /\ UNCHANGED upload
     ELSE /\ upload' = IF r.lib = library THEN upload \ {[path |-> r.path, ident |-> r.ident]} ELSE upload
          /\ UNCHANGED <<disk, job>>
  /\ UNCHANGED <<library, entry, asset, journal, space, temps, cache, worker, task, ops, trouble>>

\* Somebody edits, adds or removes a source file.
EditFile(p, i) ==
  /\ trouble < MaxTrouble /\ disk[p] # i /\ trouble' = trouble + 1
  /\ disk' = [disk EXCEPT ![p] = i]
  /\ UNCHANGED <<dbVars, temps, cache, worker, task, ops, requests>>

-----------------------------------------------------------------------------
(* The life of a process.                                                  *)

Busy(w) == {p \in Paths : task[w][p].pc # "none"}
\* CacheLock: shared while a rendering or a recovery is under way.
Sharing(w) == (worker[w].pc = "recovering")
                \/ \E p \in Paths : task[w][p].pc \in {"rendering", "rendered", "journaled", "published"}
NobodyShares == \A w \in Workers : ~Sharing(w)

\* As Start, with the journals' own files removed as well.
StartRemovesAll(w) ==
  /\ worker[w].pc = "off" /\ NobodyShares
  /\ temps' = {}
  /\ worker' = [worker EXCEPT ![w].pc = "tick"]
  /\ UNCHANGED <<dbVars, disk, cache, task, ops, requests, trouble>>

\* run, up to the first tick: temporary files no journal names are removed
\* under the exclusive lock.
Start(w) ==
  /\ worker[w].pc = "off" /\ NobodyShares
  /\ temps' = {o \in temps : \E r \in journal : r.op = o}
  /\ worker' = [worker EXCEPT ![w].pc = "tick"]
  /\ UNCHANGED <<dbVars, disk, cache, task, ops, requests, trouble>>

\* The renderings a dropped future removes: TemporaryFiles, before keep.
Dropped(w) == {task[w][p].op : p \in {q \in Paths : task[w][q].pc = "rendering"}}
AllIdle(w) == [task EXCEPT ![w] = [p \in Paths |-> Idle]]

\* Shutdown and release_worker.
Stop(w) ==
  /\ trouble < MaxTrouble /\ worker[w].pc \notin {"off", "gone"} /\ trouble' = trouble + 1
  /\ LET mine == {j \in Jobs : job[j].owner = w} IN
       /\ space' = {s \in space : s[1] \notin mine}
       /\ entry' = [j \in Jobs |-> [e \in Paths \cup {Dir} |->
                      IF j \in mine /\ entry[j][e] = "processing" THEN "pending" ELSE entry[j][e]]]
       /\ job' = [j \in Jobs |-> IF j \in mine /\ job[j].status = "running"
                                 THEN [job[j] EXCEPT !.status = "queued", !.owner = NONE, !.lease = NONE]
                                 ELSE job[j]]
  /\ temps' = temps \ Dropped(w)
  /\ worker' = [worker EXCEPT ![w] = [pc |-> "gone", job |-> 0, lost |-> FALSE, todo |-> {}, rec |-> NONE]]
  /\ task' = AllIdle(w)
  /\ UNCHANGED <<library, asset, journal, upload, disk, cache, ops, requests>>

\* The process is killed: rows and files stay as they are.
Crash(w) ==
  /\ trouble < MaxTrouble /\ worker[w].pc \notin {"off", "gone"} /\ trouble' = trouble + 1
  /\ worker' = [worker EXCEPT ![w] = [pc |-> "gone", job |-> 0, lost |-> FALSE, todo |-> {}, rec |-> NONE]]
  /\ task' = AllIdle(w)
  /\ UNCHANGED <<dbVars, fsVars, ops, requests>>

\* Thirty seconds pass without a renewal.
LeaseExpires(j) ==
  /\ trouble < MaxTrouble /\ Live(j) /\ trouble' = trouble + 1
  /\ job' = [job EXCEPT ![j].lease = "expired"]
  /\ UNCHANGED <<library, entry, asset, journal, space, upload, fsVars, worker, task, ops, requests>>

\* The lease task of run_job: a renewal that fails ends it.
RenewLease(w) ==
  /\ worker[w].pc \in {"discover", "process"} /\ ~worker[w].lost
  /\ LET j == worker[w].job IN
       IF job[j].status = "running" /\ job[j].owner = w
       THEN /\ job[j].lease # "live"
            /\ job' = [job EXCEPT ![j].lease = "live"] /\ UNCHANGED worker
       ELSE worker' = [worker EXCEPT ![w].lost = TRUE] /\ UNCHANGED job
  /\ UNCHANGED <<library, entry, asset, journal, space, upload, fsVars, task, ops, requests, trouble>>

\* A lease that ran out, the renewal that failed and the ticks of a process that
\* has no job leave everything to the next claim.
Released(w, pc) == [worker EXCEPT ![w] = [pc |-> pc, job |-> 0, lost |-> FALSE, todo |-> {}, rec |-> NONE]]

\* As JobFails, with the reservations left to the entries.
JobFailsKeepsSpace(w, error) ==
  LET j == worker[w].job
      retry == error = "storage" \/ (error = "database" /\ job[j].retry < MaxRetries)
  IN /\ job' = IF job[j].owner = w
               THEN [job EXCEPT ![j] = [job[j] EXCEPT !.status = IF retry THEN "retrying" ELSE "failed",
                                                      !.owner = NONE, !.lease = NONE, !.retry = @ + 1]]
               ELSE job
     /\ worker' = Released(w, "tick")
     /\ task' = AllIdle(w)
     /\ temps' = temps \ Dropped(w)
     /\ UNCHANGED space

\* The end of run_job with an error and retry_or_fail_job, which looks at the
\* worker id alone.  The other entries' futures are dropped where they are.
JobFails(w, error) ==
  LET j == worker[w].job
      retry == error = "storage" \/ (error = "database" /\ job[j].retry < MaxRetries)
  IN /\ IF job[j].owner = w
        THEN /\ job' = [job EXCEPT ![j] = [job[j] EXCEPT !.status = IF retry THEN "retrying" ELSE "failed",
                                                         !.owner = NONE, !.lease = NONE, !.retry = @ + 1]]
             /\ space' = {s \in space : s[1] # j}
        ELSE UNCHANGED <<job, space>>
     /\ worker' = Released(w, "tick")
     /\ task' = AllIdle(w)
     /\ temps' = temps \ Dropped(w)

-----------------------------------------------------------------------------
(* Publication and its recovery.                                           *)

\* publish_one for the two files of a rendering: an existing target is taken if
\* it is this rendering's own or the temporary file has the same bytes.
Publishable(r) == r.op \in temps \/ cache[r.ident] = r.op
PublishDerivatives(r) ==
  /\ cache' = IF cache[r.ident] = 0 THEN [cache EXCEPT ![r.ident] = r.op] ELSE cache
  /\ temps' = IF cache[r.ident] \in {0, r.op} THEN temps \ {r.op} ELSE temps

\* complete_publish_transaction
CompletePublish(r) ==
  /\ asset' = [asset EXCEPT ![r.path] = [status |-> "ready", ident |-> r.ident, lib |-> r.lib, gen |-> r.job]]
  /\ entry' = [entry EXCEPT ![r.job][r.path] = "completed"]
  /\ journal' = journal \ {r}

\* abort_journal_for_worker
AbortJournal(r, requeue) ==
  /\ journal' = journal \ {r}
  /\ entry' = IF requeue /\ r \in journal THEN [entry EXCEPT ![r.job][r.path] = "pending"] ELSE entry

\* recover_journals reads the list once.
RecoverList(w) ==
  /\ worker[w].pc = "tick"
  /\ worker' = [worker EXCEPT ![w].pc = "recover", ![w].todo = {r \in journal : Recoverable(r.job)}]
  /\ UNCHANGED <<dbVars, fsVars, task, ops, requests, trouble>>

\* recover_journals for one record, up to the renames.
RecoverOpen(w, r) ==
  /\ worker[w].pc = "recover" /\ r \in worker[w].todo
  /\ IF disk[r.path] # r.ident
     THEN /\ IF Recoverable(r.job) THEN AbortJournal(r, TRUE) ELSE UNCHANGED <<journal, entry>>
          /\ worker' = [worker EXCEPT ![w].todo = @ \ {r}]
          /\ UNCHANGED <<temps, cache>>
     ELSE IF Publishable(r)
          THEN /\ PublishDerivatives(r)
               /\ worker' = [worker EXCEPT ![w].pc = "recovering", ![w].rec = r]
               /\ UNCHANGED <<journal, entry>>
          ELSE /\ worker' = Released(w, "tick")
               /\ UNCHANGED <<journal, entry, temps, cache>>
  /\ UNCHANGED <<library, job, asset, space, upload, disk, task, ops, requests, trouble>>

\* recover_journals for one record, from the second look at the source.
RecoverFinish(w) ==
  /\ worker[w].pc = "recovering"
  /\ LET r == worker[w].rec
         next == [worker EXCEPT ![w].pc = "recover", ![w].rec = NONE, ![w].todo = @ \ {r}]
     IN IF disk[r.path] # r.ident
        THEN /\ IF Recoverable(r.job) THEN AbortJournal(r, TRUE) ELSE UNCHANGED <<journal, entry>>
             /\ worker' = next /\ UNCHANGED <<asset, temps>>
        ELSE IF r \notin journal
             THEN worker' = next /\ UNCHANGED <<asset, entry, journal, temps>>
             ELSE IF Recoverable(r.job)
                  THEN /\ CompletePublish(r) /\ temps' = temps \ {r.op}
                       /\ worker' = next
                  ELSE /\ worker' = Released(w, "tick")
                       /\ UNCHANGED <<asset, entry, journal, temps>>
  /\ UNCHANGED <<library, job, space, upload, disk, cache, task, ops, requests, trouble>>

\* The rest of tick: ensure_periodic_job, if the interval has passed, and
\* claim_job with the retrying jobs whose delay is over.
ClaimJob(w, periodic, due) ==
  /\ worker[w].pc = "recover" /\ worker[w].todo = {}
  /\ due \subseteq {j \in Jobs : job[j].status = "retrying"}
  /\ LET pending == \E j \in Jobs : job[j].lib = library /\ job[j].status \in {"queued", "running", "retrying"}
         listed == IF periodic /\ ~pending THEN Enqueue(job, library, "full_scan", FALSE) ELSE job
         open == [j \in Jobs |-> IF listed[j].status = "running" /\ listed[j].lease # "live"
                                 THEN [listed[j] EXCEPT !.status = "queued", !.owner = NONE, !.lease = NONE]
                                 ELSE listed[j]]
         ready == {j \in Jobs : open[j].status = "queued"} \cup due
     IN /\ periodic => ~pending /\ Room(1)
        /\ IF ready = {}
           THEN /\ job' = open /\ worker' = Released(w, "tick")
                /\ UNCHANGED <<entry, space>>
           ELSE LET j == Min(ready) IN
                /\ job' = [open EXCEPT ![j] = [@ EXCEPT !.status = "running", !.owner = w, !.lease = "live"]]
                /\ space' = {s \in space : s[1] # j}
                /\ entry' = [entry EXCEPT ![j] = [e \in Paths \cup {Dir} |->
                               IF @[e] = "processing" THEN "pending" ELSE @[e]]]
                /\ worker' = [Released(w, "discover") EXCEPT ![w].job = j]
  /\ UNCHANGED <<library, asset, journal, upload, fsVars, task, ops, requests, trouble>>

-----------------------------------------------------------------------------
(* run_job.                                                                *)

Working(w, pc) == worker[w].pc = pc /\ ~worker[w].lost

\* initialize_scan and discover: the directory's children become entries, those
\* that are there already stay as they are.
Discovered(j, found, dir) ==
  [entry EXCEPT ![j] = [e \in Paths \cup {Dir} |->
     IF e = Dir THEN dir ELSE IF e \in found /\ @[e] = "none" THEN "pending" ELSE @[e]]]

Discover(w) ==
  /\ Working(w, "discover") /\ Owned(w)
  /\ LET j == worker[w].job IN
       entry' = IF entry[j][Dir] \in {"none", "pending"}
                THEN Discovered(j, {p \in Paths : disk[p] # NONE}, "completed") ELSE entry
  /\ worker' = [worker EXCEPT ![w].pc = "process"]
  /\ UNCHANGED <<library, job, asset, journal, space, upload, fsVars, task, ops, requests, trouble>>

\* discover that ends after some of the children.
DiscoverFails(w, found, error) ==
  /\ trouble < MaxTrouble /\ Working(w, "discover") /\ Owned(w) /\ trouble' = trouble + 1
  /\ entry' = IF entry[worker[w].job][Dir] \in {"none", "pending"}
              THEN Discovered(worker[w].job, found, "processing") ELSE entry
  /\ JobFails(w, error)
  /\ UNCHANGED <<library, asset, journal, upload, disk, cache, ops, requests>>

\* An error of the whole job: the storage pool is offline, or a transaction finds
\* the lease gone.
JobErrs(w) ==
  /\ worker[w].pc \in {"discover", "process"}
  /\ \/ ~Owned(w) /\ JobFails(w, "database") /\ UNCHANGED trouble
     \/ worker[w].lost /\ JobFails(w, "database") /\ UNCHANGED trouble
     \/ trouble < MaxTrouble /\ trouble' = trouble + 1 /\ JobFails(w, "storage")
  /\ UNCHANGED <<library, entry, asset, journal, upload, disk, cache, ops, requests>>

SetTask(w, p, pc) == [task EXCEPT ![w][p].pc = pc]
Done(w, p) == [task EXCEPT ![w][p] = Idle]

\* process_entries: claim_entry takes the first pending path.
ClaimEntry(w) ==
  /\ Working(w, "process") /\ Owned(w) /\ Cardinality(Busy(w)) < Concurrency
  /\ LET j == worker[w].job
         pending == {p \in Paths : entry[j][p] = "pending"}
     IN /\ pending # {}
        /\ entry' = [entry EXCEPT ![j][Min(pending)] = "processing"]
        /\ task' = SetTask(w, Min(pending), "claimed")
  /\ UNCHANGED <<library, job, asset, journal, space, upload, fsVars, worker, ops, requests, trouble>>

\* mark_current_if_unchanged asks for a ready asset of this identity and not for
\* the library it belongs to.
Unchanged(p) == asset[p].status = "ready" /\ asset[p].ident = disk[p]

\* process_entry up to the reservation.
OpenEntry(w, p) ==
  /\ worker[w].pc = "process" /\ task[w][p].pc = "claimed" /\ ~worker[w].lost /\ Owned(w)
  /\ LET j == worker[w].job IN
       \/ /\ disk[p] = NONE
          /\ entry' = [entry EXCEPT ![j][p] = "failed"] /\ task' = Done(w, p)
          /\ UNCHANGED <<asset, space>>
       \/ /\ disk[p] # NONE /\ Unchanged(p)
          /\ asset' = [asset EXCEPT ![p].gen = j] /\ task' = SetTask(w, p, "current")
          /\ UNCHANGED <<entry, space>>
       \/ /\ disk[p] # NONE /\ ~Unchanged(p) /\ Cardinality(space) < Space
          /\ space' = space \cup {<<j, p>>}
          /\ task' = [task EXCEPT ![w][p] = [pc |-> "reserved", ident |-> disk[p], op |-> 0]]
          /\ UNCHANGED <<entry, asset>>
  /\ UNCHANGED <<library, job, journal, upload, fsVars, worker, ops, requests, trouble>>

\* reserve_space finds too little room, which ends the whole job.
NoSpace(w, p) ==
  /\ worker[w].pc = "process" /\ task[w][p].pc = "claimed" /\ ~worker[w].lost /\ Owned(w)
  /\ disk[p] # NONE /\ ~Unchanged(p) /\ Cardinality(space) >= Space
  /\ JobFails(w, "fatal")
  /\ UNCHANGED <<library, entry, asset, journal, upload, disk, cache, ops, requests, trouble>>

\* complete_entry after mark_current_if_unchanged.
CompleteEntry(w, p) ==
  /\ worker[w].pc = "process" /\ task[w][p].pc = "current" /\ Owned(w)
  /\ entry' = [entry EXCEPT ![worker[w].job][p] = "completed"]
  /\ task' = Done(w, p)
  /\ UNCHANGED <<library, job, asset, journal, space, upload, fsVars, worker, ops, requests, trouble>>

\* The shared cache lock is taken and process_media starts its files.
StartRender(w, p) ==
  /\ worker[w].pc = "process" /\ task[w][p].pc = "reserved" /\ ops < MaxOps
  /\ ops' = ops + 1 /\ temps' = temps \cup {ops + 1}
  /\ task' = [task EXCEPT ![w][p].pc = "rendering", ![w][p].op = ops + 1]
  /\ UNCHANGED <<dbVars, disk, cache, worker, requests, trouble>>

\* process_media returns: the source is the one that was opened, and its files
\* are kept from here on.
Render(w, p) ==
  /\ worker[w].pc = "process" /\ task[w][p].pc = "rendering" /\ ~worker[w].lost
  /\ disk[p] = task[w][p].ident
  /\ task' = SetTask(w, p, "rendered")
  /\ UNCHANGED <<dbVars, fsVars, worker, ops, requests, trouble>>

\* The end of process_entry with an error of this file alone: the source changed,
\* or nothing can decode it.  record_failed_asset and fail_entry.
EntryFails(w, p) ==
  LET j == worker[w].job IN
  /\ space' = space \ {<<j, p>>}
  /\ asset' = [asset EXCEPT ![p] = [status |-> "failed", ident |-> task[w][p].ident, lib |-> job[j].lib, gen |-> j]]
  /\ entry' = [entry EXCEPT ![j][p] = "failed"]
  /\ task' = Done(w, p)

RenderFails(w, p) ==
  /\ worker[w].pc = "process" /\ Owned(w)
  /\ \/ task[w][p].pc = "rendering" /\ temps' = temps \ {task[w][p].op}
     \/ task[w][p].pc = "rendered" /\ UNCHANGED temps
  /\ \/ disk[p] # task[w][p].ident /\ UNCHANGED trouble
     \/ trouble < MaxTrouble /\ task[w][p].pc = "rendering" /\ trouble' = trouble + 1
  /\ EntryFails(w, p)
  /\ UNCHANGED <<library, job, journal, upload, disk, cache, worker, ops, requests>>

\* verify_sources, the lease, set_phase and begin_publish, which refuses a second
\* journal for the entry.
BeginPublish(w, p) ==
  LET j == worker[w].job
      r == Record(j, p, task[w][p].ident, task[w][p].op)
  IN
  /\ worker[w].pc = "process" /\ task[w][p].pc = "rendered" /\ ~worker[w].lost /\ Owned(w)
  /\ disk[p] = task[w][p].ident
  /\ IF \E q \in journal : q.job = j /\ q.path = p
     THEN JobFails(w, "database") /\ UNCHANGED journal
     ELSE /\ journal' = journal \cup {r} /\ task' = SetTask(w, p, "journaled")
          /\ UNCHANGED <<job, space, worker, temps>>
  /\ UNCHANGED <<library, entry, asset, upload, disk, cache, ops, requests, trouble>>

\* publish_derivatives asks for no lease.
Publish(w, p) ==
  LET r == Record(worker[w].job, p, task[w][p].ident, task[w][p].op) IN
  /\ worker[w].pc = "process" /\ task[w][p].pc = "journaled" /\ Publishable(r)
  /\ PublishDerivatives(r)
  /\ task' = SetTask(w, p, "published")
  /\ UNCHANGED <<dbVars, disk, worker, ops, requests, trouble>>

\* As FinishPublish, removing the published file again when the source changed.
FinishPublishUndoes(w, p) ==
  LET j == worker[w].job
      r == Record(j, p, task[w][p].ident, task[w][p].op)
  IN
  /\ worker[w].pc = "process" /\ task[w][p].pc = "published" /\ ~worker[w].lost /\ Owned(w)
  /\ IF disk[p] = r.ident
     THEN /\ IF r \in journal THEN CompletePublish(r) ELSE UNCHANGED <<asset, entry, journal>>
          /\ temps' = temps \ {r.op} /\ space' = space \ {<<j, p>>} /\ task' = Done(w, p)
          /\ UNCHANGED cache
     ELSE /\ journal' = journal \ {r} /\ EntryFails(w, p)
          /\ cache' = [cache EXCEPT ![r.ident] = 0] /\ UNCHANGED temps
  /\ UNCHANGED <<library, job, upload, disk, worker, ops, requests, trouble>>

\* The rest of process_entry: the source is verified again, then
\* complete_publish_owned, or abort_journal_owned and a failed asset.
FinishPublish(w, p) ==
  LET j == worker[w].job
      r == Record(j, p, task[w][p].ident, task[w][p].op)
  IN
  /\ worker[w].pc = "process" /\ task[w][p].pc = "published" /\ ~worker[w].lost /\ Owned(w)
  /\ IF disk[p] = r.ident
     THEN /\ IF r \in journal THEN CompletePublish(r) ELSE UNCHANGED <<asset, entry, journal>>
          /\ temps' = temps \ {r.op} /\ space' = space \ {<<j, p>>} /\ task' = Done(w, p)
     ELSE /\ journal' = journal \ {r} /\ EntryFails(w, p) /\ UNCHANGED temps
  /\ UNCHANGED <<library, job, upload, disk, cache, worker, ops, requests, trouble>>

\* finish_job and, for a full scan, the removal of rows another scan wrote.
FinishJob(w) ==
  /\ Working(w, "process") /\ Owned(w) /\ Busy(w) = {}
  /\ LET j == worker[w].job IN
     /\ \A e \in Paths \cup {Dir} : entry[j][e] \notin {"pending", "processing"}
     /\ asset' = [p \in Paths |-> IF job[j].kind = "full_scan" /\ asset[p].lib = job[j].lib /\ asset[p].gen # j
                                  THEN [status |-> "none", ident |-> NONE, lib |-> 0, gen |-> 0] ELSE asset[p]]
     /\ job' = [job EXCEPT ![j] = [@ EXCEPT !.status = "completed", !.owner = NONE, !.lease = NONE]]
     /\ space' = {s \in space : s[1] # j}
     /\ worker' = Released(w, IF job[j].kind = "full_scan" THEN "sweep" ELSE "tick")
  /\ UNCHANGED <<library, entry, journal, upload, fsVars, task, ops, requests, trouble>>

\* cleanup_orphan_derivatives, under the exclusive cache lock.
Sweep(w) ==
  /\ worker[w].pc = "sweep" /\ NobodyShares
  /\ cache' = [i \in Idents |-> IF i \in Kept THEN cache[i] ELSE 0]
  /\ worker' = Released(w, "tick")
  /\ UNCHANGED <<dbVars, disk, temps, task, ops, requests, trouble>>

-----------------------------------------------------------------------------
Init ==
  /\ library = 1 /\ disk \in [Paths -> {1, NONE}]
  /\ job = [j \in Jobs |-> IF j = 1 THEN [NoJob EXCEPT !.status = "queued", !.kind = "full_scan", !.lib = 1] ELSE NoJob]
  /\ entry = [j \in Jobs |-> [e \in Paths \cup {Dir} |-> "none"]]
  /\ asset = [p \in Paths |-> [status |-> "none", ident |-> NONE, lib |-> 0, gen |-> 0]]
  /\ journal = {} /\ space = {} /\ upload = {} /\ temps = {} /\ requests = {}
  /\ cache = [i \in Idents |-> 0]
  /\ worker = [w \in Workers |-> [pc |-> "off", job |-> 0, lost |-> FALSE, todo |-> {}, rec |-> NONE]]
  /\ task = [w \in Workers |-> [p \in Paths |-> Idle]]
  /\ ops = 0 /\ trouble = 0

Step(w) ==
  \/ Start(w) \/ RenewLease(w) \/ RecoverList(w) \/ RecoverFinish(w) \/ Discover(w)
  \/ JobErrs(w) \/ ClaimEntry(w) \/ FinishJob(w) \/ Sweep(w) \/ Stop(w) \/ Crash(w)
  \/ \E r \in worker[w].todo : RecoverOpen(w, r)
  \/ \E periodic \in BOOLEAN, due \in SUBSET Jobs : ClaimJob(w, periodic, due)
  \/ \E found \in SUBSET Paths, e \in {"storage", "fatal"} : DiscoverFails(w, found, e)
  \/ \E p \in Paths : \/ OpenEntry(w, p) \/ NoSpace(w, p) \/ CompleteEntry(w, p) \/ StartRender(w, p) \/ Render(w, p)
                      \/ RenderFails(w, p) \/ BeginPublish(w, p) \/ Publish(w, p) \/ FinishPublish(w, p)

Next ==
  \/ \E w \in Workers : Step(w)
  \/ \E j \in Jobs : LeaseExpires(j)
  \/ ChangeLibrary \/ RequestScan
  \/ \E p \in Paths, i \in Idents : ReserveUpload(p, i) \/ EditFile(p, i)
  \/ \E p \in Paths : EditFile(p, NONE)
  \/ \E r \in requests : LinkUpload(r)

Spec == Init /\ [][Next]_vars

-----------------------------------------------------------------------------
(* What the photo library promises.                                        *)

\* A photo the timeline shows as ready can be shown: its derivative is in the
\* cache, whatever scans, recoveries and clean-ups have run (publish.rs, CacheLock).
ReadyHasDerivative == \A p \in Paths : asset[p].status = "ready" => cache[asset[p].ident] # 0

\* A journal can always be finished: its temporary files are there or its target
\* is its own.  recover_journals fails every tick of the daemon otherwise.
JournalCanFinish == \A r \in journal : Publishable(r)

\* Space is never reserved for good: it belongs to a job that is running or will
\* be claimed again, or to one that a change of the library ended under a working
\* process (release_space, retry_or_fail_job, claim_job).
ReservationsHaveJob ==
  \A s \in space : job[s[1]].status \in {"running", "queued"} \/ job[s[1]].lib < library

\* An interrupted job can be taken up again: its journal has the files to finish
\* or to undo the publication, and reserved space belongs to a job.
JobsCanBeTakenUp == JournalCanFinish /\ ReservationsHaveJob

\* finish_job only removes the rows of files that are gone or have changed, as the
\* documentation says of the clean-up after a complete traversal.
\* The code does not keep this in every case: README.md says when.
CleanupRemovesOnlyStale ==
  [][\A p \in Paths : asset[p].status = "ready" /\ asset[p].ident = disk[p] /\ library' = library
                        => asset'[p].status # "none"]_vars

=============================================================================
