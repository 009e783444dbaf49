----------------------------- MODULE FileRoutes -----------------------------
(***************************************************************************)
(* The file routes that act without a batch, and the cache of transcoded   *)
(* videos that one of them streams from.                                   *)
(***************************************************************************)
EXTENDS Integers, Sequences, FiniteSets, SequencesExt

-----------------------------------------------------------------------------
(***************************************************************************)
(* The file routes that act without a batch (routes/files.ts): uploads,     *)
(* inline edits, archive extraction, exports, and the proposals that wait    *)
(* for approval.  The API is one event loop, so requests interleave at every  *)
(* await; a client may disconnect, a tool may fail and the API may die.       *)
(***************************************************************************)
CONSTANTS Reqs,       \* requests
          Parent,     \* path -> its parent path, or NONE in the pool's root
          Present,    \* paths that hold a file at the start
          MaxTrouble, \* bound: disconnects, failures and crashes
          NONE

Places == DOMAIN Parent

VARIABLES disk,       \* path -> NONE or an entry [kind, id, last, whole]
          req,        \* the requests
          exports,    \* live export tokens, named by the request that made them
          operations, \* requests with an applied operation on record
          shifted,    \* paths whose entry was renamed away, replaced or removed with its folder
          trouble     \* faults so far

routeVars == <<disk, req, exports, operations, shifted, trouble>>

Idle == [kind |-> NONE, pc |-> "idle", path |-> NONE, to |-> NONE, seen |-> NONE,
         getting |-> 0, served |-> 0]

\* `id` is the request that created the entry, `last` the one that last began to
\* write it (its modification time), `whole` whether that write has ended.
Entry(kind, r, whole) == [kind |-> kind, id |-> r, last |-> r, whole |-> whole]

RouteInit ==
    /\ disk = [p \in Places |-> IF p \in Present THEN Entry("file", NONE, TRUE) ELSE NONE]
    /\ req = [r \in Reqs |-> Idle]
    /\ exports = {}
    /\ operations = {}
    /\ shifted = {}
    /\ trouble = 0

Exists(p) == disk[p] # NONE
IsDir(p) == p # NONE => (Exists(p) /\ disk[p].kind = "dir")
IsFile(p) == Exists(p) /\ disk[p].kind = "file"
Under(d) == {p \in Places : p = d \/ Parent[p] = d}

Fault == trouble < MaxTrouble /\ trouble' = trouble + 1

Begin(r, kind, p, to, pc) ==
    /\ req[r].pc = "idle"
    /\ req' = [req EXCEPT ![r].kind = kind, ![r].path = p, ![r].to = to, ![r].pc = pc]

At(r, kind, pc) == req[r].kind = kind /\ req[r].pc = pc

\* A request that ends keeps nothing but its kind.
Ended(r) == [req EXCEPT ![r] = [Idle EXCEPT !.kind = req[r].kind, !.pc = "ended"]]

-----------------------------------------------------------------------------
\* PUT /api/files/upload, up to the first await after the target was looked at.
prepareUploadTarget(r, p) ==
    /\ ~Exists(p)
    /\ Begin(r, "upload", p, NONE, "parents")
    /\ UNCHANGED <<disk, exports, operations, shifted, trouble>>

\* Missing parents are made; one that another request makes meanwhile is accepted.
ensureUploadParents(r) ==
    LET d == Parent[req[r].path] IN
    /\ At(r, "upload", "parents")
    /\ IF d = NONE \/ ~Exists(d) \/ IsDir(d)
         THEN /\ disk' = IF d = NONE \/ Exists(d) THEN disk ELSE [disk EXCEPT ![d] = Entry("dir", r, TRUE)]
              /\ req' = [req EXCEPT ![r].pc = "open"]
         ELSE req' = Ended(r) /\ UNCHANGED disk
    /\ UNCHANGED <<exports, operations, shifted, trouble>>

\* An upload into an entry it does not own: for mutants.
UploadOpens_owns_anything(r) ==
    LET p == req[r].path IN
    /\ At(r, "upload", "open")
    /\ disk' = IF ~Exists(p) /\ IsDir(Parent[p]) THEN [disk EXCEPT ![p] = Entry("file", r, FALSE)] ELSE disk
    /\ req' = [req EXCEPT ![r].pc = "stream"]
    /\ UNCHANGED <<exports, operations, shifted, trouble>>

\* createWriteStream with flag "wx": an existing target, or a parent that has gone,
\* fails the pipeline before "open", and so before ownsTarget is set.
UploadOpens(r) ==
    LET p == req[r].path IN
    /\ At(r, "upload", "open")
    /\ IF ~Exists(p) /\ IsDir(Parent[p])
         THEN disk' = [disk EXCEPT ![p] = Entry("file", r, FALSE)] /\ req' = [req EXCEPT ![r].pc = "stream"]
         ELSE req' = Ended(r) /\ UNCHANGED disk
    /\ UNCHANGED <<exports, operations, shifted, trouble>>

\* A write ends in the entry it was begun in, wherever that is now.
WriteEnds(r) ==
    disk' = [p \in Places |-> IF IsFile(p) /\ disk[p].last = r THEN [disk[p] EXCEPT !.whole = TRUE] ELSE disk[p]]

UploadStreams(r) ==
    /\ At(r, "upload", "stream")
    /\ WriteEnds(r)
    /\ req' = [req EXCEPT ![r].pc = "record"]
    /\ UNCHANGED <<exports, operations, shifted, trouble>>

\* The stream fails (disconnect, size limit, full disk): the target is unlinked by path.
UploadFails(r) ==
    LET p == req[r].path IN
    /\ At(r, "upload", "stream")
    /\ disk' = IF IsFile(p) THEN [disk EXCEPT ![p] = NONE] ELSE disk
    /\ req' = Ended(r)
    /\ Fault
    /\ UNCHANGED <<exports, operations, shifted>>

\* getFilePreviewMeta and recordAppliedOperation, for uploads and edits.
RecordsApplied(r) ==
    /\ req[r].pc = "record"
    /\ operations' = IF Exists(req[r].path) THEN operations \union {r} ELSE operations
    /\ req' = Ended(r)
    /\ UNCHANGED <<disk, exports, shifted, trouble>>

-----------------------------------------------------------------------------
\* PUT /api/files/edit-text.  The editor loaded the file before; `seen` is the write
\* its modification time stands for.
EditorLoads(r, p) ==
    /\ IsFile(p)
    /\ req[r].pc = "idle"
    /\ req' = [req EXCEPT ![r].kind = "edit", ![r].path = p, ![r].pc = "loaded", ![r].seen = disk[p].last]
    /\ UNCHANGED <<disk, exports, operations, shifted, trouble>>

\* getEditableTextTarget and the comparison with expectedModifiedAt.
getEditableTextTarget(r) ==
    LET p == req[r].path IN
    /\ At(r, "edit", "loaded")
    /\ req' = IF IsFile(p) /\ disk[p].last = req[r].seen THEN [req EXCEPT ![r].pc = "write"] ELSE Ended(r)
    /\ UNCHANGED <<disk, exports, operations, shifted, trouble>>

\* writeFile truncates the file at the path, or creates one if it has gone.
EditBegins(r) ==
    LET p == req[r].path IN
    /\ At(r, "edit", "write")
    /\ IF IsDir(Parent[p]) /\ ~(Exists(p) /\ IsDir(p))
         THEN /\ disk' = [disk EXCEPT ![p] = IF Exists(p) THEN [disk[p] EXCEPT !.last = r, !.whole = FALSE]
                                                       ELSE Entry("file", r, FALSE)]
              /\ req' = [req EXCEPT ![r].pc = "writing"]
         ELSE req' = Ended(r) /\ UNCHANGED disk
    /\ UNCHANGED <<exports, operations, shifted, trouble>>

EditEnds(r) ==
    /\ At(r, "edit", "writing")
    /\ WriteEnds(r)
    /\ req' = [req EXCEPT ![r].pc = "record"]
    /\ UNCHANGED <<exports, operations, shifted, trouble>>

-----------------------------------------------------------------------------
\* POST /api/files/extract.  A gzip archive becomes one file, others a folder.
buildExtractProposal(r, kind, p) ==
    /\ ~Exists(p)
    /\ IsDir(Parent[p])
    /\ Begin(r, kind, p, NONE, "apply")
    /\ UNCHANGED <<disk, exports, operations, shifted, trouble>>

\* mkdir with recursive set: for mutants.
extract_into_existing(r) ==
    LET p == req[r].path IN
    /\ At(r, "folder", "apply")
    /\ IF IsDir(Parent[p]) /\ (~Exists(p) \/ IsDir(p))
         THEN /\ disk' = IF Exists(p) THEN disk ELSE [disk EXCEPT ![p] = Entry("dir", r, FALSE)]
              /\ req' = [req EXCEPT ![r].pc = "unpack"]
         ELSE req' = Ended(r) /\ UNCHANGED disk
    /\ UNCHANGED <<exports, operations, shifted, trouble>>

\* mkdir, not recursive, claims the target: an entry that came meanwhile is refused,
\* before the try block whose catch removes the target.
extractArchiveDirectory(r) ==
    LET p == req[r].path IN
    /\ At(r, "folder", "apply")
    /\ IF ~Exists(p) /\ IsDir(Parent[p])
         THEN disk' = [disk EXCEPT ![p] = Entry("dir", r, FALSE)] /\ req' = [req EXCEPT ![r].pc = "unpack"]
         ELSE req' = Ended(r) /\ UNCHANGED disk
    /\ UNCHANGED <<exports, operations, shifted, trouble>>

\* The tool unpacks and the tree passes validateExtractedTree.
Unpacks(r) ==
    LET p == req[r].path IN
    /\ At(r, "folder", "unpack")
    /\ Exists(p) /\ IsDir(p)
    /\ disk' = [disk EXCEPT ![p].whole = TRUE]
    /\ operations' = operations \union {r}
    /\ req' = Ended(r)
    /\ UNCHANGED <<exports, shifted, trouble>>

\* Listing, unpacking or the validation fails: rm -r of the target.
UnpackFails(r) ==
    LET p == req[r].path IN
    /\ At(r, "folder", "unpack")
    /\ disk' = [q \in Places |-> IF q \in Under(p) THEN NONE ELSE disk[q]]
    /\ req' = Ended(r)
    /\ IF Exists(p) /\ IsDir(p) THEN Fault ELSE UNCHANGED trouble
    /\ shifted' = shifted \union (Under(p) \ {p})
    /\ UNCHANGED <<exports, operations>>

\* gzip writes a temporary file and renames it over whatever is at the target then.
extractGzipFile(r) ==
    LET p == req[r].path IN
    /\ At(r, "gzip", "apply")
    /\ IF IsDir(Parent[p]) /\ ~(Exists(p) /\ IsDir(p))
         THEN /\ disk' = [disk EXCEPT ![p] = Entry("file", r, TRUE)]
              /\ shifted' = IF Exists(p) THEN shifted \union {p} ELSE shifted
              /\ operations' = operations \union {r}
         ELSE UNCHANGED <<disk, shifted, operations>>
    /\ req' = Ended(r)
    /\ UNCHANGED <<exports, trouble>>

GzipFails(r) ==
    /\ At(r, "gzip", "apply")
    /\ req' = Ended(r)
    /\ Fault
    /\ UNCHANGED <<disk, exports, operations, shifted>>

-----------------------------------------------------------------------------
\* POST /api/files/proposals: what may be proposed, looked at before approval.
getMutableSource(p) == Exists(p)

buildMkdirProposal(to) == ~Exists(to) /\ IsDir(Parent[to])

buildRenameProposal(p, to) == p # to /\ Parent[p] = Parent[to] /\ ~Exists(to)

\* A folder is not transferred in this model (its content would change names).
buildTransferProposal(p, to) == p # to /\ ~Exists(to) /\ IsDir(Parent[to])

Proposable(kind, p, to) ==
    CASE kind = "mkdir" -> buildMkdirProposal(to)
      [] kind = "rename" -> getMutableSource(p) /\ ~(Exists(p) /\ IsDir(p)) /\ buildRenameProposal(p, to)
      [] kind \in {"move", "copy"} -> getMutableSource(p) /\ ~IsDir(p) /\ buildTransferProposal(p, to)
      [] kind = "trash" -> getMutableSource(p)

createPendingApproval(r, kind, p, to) ==
    /\ Proposable(kind, p, to)
    /\ Begin(r, kind, p, to, "pending")
    /\ UNCHANGED <<disk, exports, operations, shifted, trouble>>

\* Approved, the proposal is checked again and applied (module FileMutations has the
\* steps of that); what has become impossible fails and changes nothing.
applyFileMutation(r) ==
    LET k == req[r].kind  p == req[r].path  to == req[r].to IN
    /\ req[r].pc = "pending"
    /\ req' = Ended(r)
    /\ \/ /\ ~Proposable(k, p, to)
          /\ UNCHANGED <<disk, operations, shifted>>
       \/ /\ Proposable(k, p, to)
          /\ operations' = operations \union {r}
          /\ \/ /\ k = "mkdir"
                /\ disk' = [disk EXCEPT ![to] = Entry("dir", r, TRUE)]
                /\ UNCHANGED shifted
             \/ /\ k = "copy"
                /\ disk' = [disk EXCEPT ![to] = Entry("file", r, disk[p].whole)]
                /\ UNCHANGED shifted
             \/ /\ k \in {"rename", "move"}
                /\ disk' = [disk EXCEPT ![p] = NONE, ![to] = disk[p]]
                /\ shifted' = shifted \union {p}
             \/ /\ k = "trash"
                /\ disk' = [q \in Places |-> IF q \in Under(p) THEN NONE ELSE disk[q]]
                /\ shifted' = shifted \union Under(p)
    /\ UNCHANGED <<exports, trouble>>

RejectProposal(r) ==
    /\ req[r].pc = "pending"
    /\ req' = Ended(r)
    /\ UNCHANGED <<disk, exports, operations, shifted, trouble>>

-----------------------------------------------------------------------------
\* POST /api/files/exports: the sources are looked at and a token handed out.
CreateExport(r, p) ==
    /\ Exists(p)
    /\ Begin(r, "export", p, NONE, "issued")
    /\ exports' = exports \union {r}
    /\ UNCHANGED <<disk, operations, shifted, trouble>>

\* pruneFileExports, after five minutes.
pruneFileExports ==
    /\ exports # {}
    /\ \E gone \in (SUBSET exports) \ {{}} : exports' = exports \ gone
    /\ Fault
    /\ UNCHANGED <<disk, req, operations, shifted>>

\* A download with a token that the first await no longer finds: for mutants.
GetExport_keeps_token(r) ==
    /\ r \in exports
    /\ req[r].getting < 2
    /\ req' = [req EXCEPT ![r].getting = @ + 1]
    /\ UNCHANGED <<disk, exports, operations, shifted, trouble>>

\* GET /api/files/exports/:token: the token is deleted before the first await.
GetExport(r) ==
    /\ r \in exports
    /\ exports' = exports \ {r}
    /\ req' = [req EXCEPT ![r].getting = @ + 1]
    /\ UNCHANGED <<disk, operations, shifted, trouble>>

\* The sources are looked at again; an archive is streamed, or 404 answered.
StreamExport(r) ==
    /\ req[r].getting > 0
    /\ req' = [req EXCEPT ![r].getting = @ - 1, ![r].served = IF Exists(req[r].path) THEN @ + 1 ELSE @]
    /\ UNCHANGED <<disk, exports, operations, shifted, trouble>>

-----------------------------------------------------------------------------
\* The API dies: requests and tokens are gone, what they wrote stays.
Crash ==
    /\ req' = [r \in Reqs |-> IF req[r].pc \in {"idle", "pending"} THEN req[r]
                              ELSE [Idle EXCEPT !.kind = req[r].kind, !.pc = "ended"]]
    /\ exports' = {}
    /\ Fault
    /\ UNCHANGED <<disk, operations, shifted>>

Arrives(r) ==
    \/ \E p \in Places : prepareUploadTarget(r, p) \/ EditorLoads(r, p) \/ CreateExport(r, p)
    \/ \E p \in Places, kind \in {"folder", "gzip"} : buildExtractProposal(r, kind, p)
    \/ \E p \in Places, to \in Places, kind \in {"rename", "move", "copy"} : createPendingApproval(r, kind, p, to)
    \/ \E p \in Places, kind \in {"mkdir", "trash"} : createPendingApproval(r, kind, p, p)

Uploads(r) == ensureUploadParents(r) \/ UploadOpens(r) \/ UploadStreams(r) \/ UploadFails(r)
Edits(r) == getEditableTextTarget(r) \/ EditBegins(r) \/ EditEnds(r)
Extracts(r) ==
    extractArchiveDirectory(r) \/ Unpacks(r) \/ UnpackFails(r) \/ extractGzipFile(r) \/ GzipFails(r)

RouteNext ==
    \/ \E r \in Reqs : Arrives(r) \/ Uploads(r) \/ Edits(r) \/ Extracts(r) \/ RecordsApplied(r)
    \/ \E r \in Reqs : applyFileMutation(r) \/ RejectProposal(r) \/ GetExport(r) \/ StreamExport(r)
    \/ pruneFileExports
    \/ Crash

RouteSpec == RouteInit /\ [][RouteNext]_routeVars

-----------------------------------------------------------------------------
\* What a failed upload or extraction removes at its target is the entry it made
\* itself: the exclusive open and the exclusive mkdir make the removal by path safe
\* against every other upload, edit and extraction, unless the entry was renamed
\* away, replaced by a gzip extraction or removed with its folder meanwhile.
CleanupRemovesOnlyOwn ==
    [][\A r \in Reqs :
          LET p == req[r].path IN
          (req[r].pc \in {"open", "stream", "apply", "unpack"} /\ req'[r].pc = "ended"
             /\ disk[p] # NONE /\ disk'[p] = NONE)
            => (disk[p].id = r \/ p \in shifted)]_routeVars

\* An export token starts at most one download, whatever the number of requests that
\* present it: it is gone before the request that found it lets another one run.
ExportServedOnce == \A r \in Reqs : req[r].served + req[r].getting <= 1

-----------------------------------------------------------------------------
(***************************************************************************)
(* The cache of transcoded videos (lib/video-cache.ts) and the route that    *)
(* streams from it (GET /api/files/video with sendFileStream).  Requests     *)
(* share one transcode per cache file, transcodes run one after another, and  *)
(* the files in use are counted so that the pruning passes over them.         *)
(***************************************************************************)
CONSTANTS
  Videos,       \* sources, each with its cache file
  Size,         \* bytes of a transcoded video
  Headers,      \* Range headers: NONE or [start, end], NONE where left out
  MaxFiles      \* VIDEO_CACHE_MAX_BYTES, in files

VARIABLES cached,     \* cache files, least recently touched first
          watch,      \* the requests
          inFlight,   \* videos with a job that has not settled
          queue,      \* jobs not settled, first come first served
          job,        \* what the first job is doing
          activeFiles,\* video -> uses not released
          faults      \* faults so far

videoVars == <<cached, watch, inFlight, queue, job, activeFiles, faults>>

NotWatching == [pc |-> "idle", video |-> NONE, header |-> NONE, released |-> TRUE]

NoJob == [pc |-> "idle", files |-> <<>>, total |-> 0, victim |-> NONE]

VideoInit ==
    /\ cached = <<>>
    /\ watch = [r \in Reqs |-> NotWatching]
    /\ inFlight = {}
    /\ queue = <<>>
    /\ job = NoJob
    /\ activeFiles = [v \in Videos |-> 0]
    /\ faults = 0

isUsableFile(v) == Contains(cached, v)
touchFile(v) == Append(SelectSeq(cached, LAMBDA f : f # v), v)
VideoFault == faults < MaxTrouble /\ faults' = faults + 1

-----------------------------------------------------------------------------
\* The last byte is not brought within the file: for mutants.
parse_keeps_end(h, size) ==
    IF h = NONE THEN [start |-> 0, end |-> size - 1]
    ELSE IF h.start = NONE
      THEN (IF h.end = 0 THEN NONE ELSE [start |-> (IF size > h.end THEN size - h.end ELSE 0), end |-> size - 1])
    ELSE IF h.start >= size THEN NONE
    ELSE [start |-> h.start, end |-> IF h.end = NONE THEN size - 1 ELSE h.end]

\* The bytes a Range header selects: all of them, a pair, or NONE when it is invalid.
parseRangeHeader(h, size) ==
    IF h = NONE THEN [start |-> 0, end |-> size - 1]
    ELSE LET suffix == h.start = NONE
             start == IF suffix THEN (IF size > h.end THEN size - h.end ELSE 0) ELSE h.start
             end == IF suffix \/ h.end = NONE THEN size - 1 ELSE h.end
         IN IF \/ suffix /\ h.end = 0
               \/ end < start
               \/ start >= size
              THEN NONE
              ELSE [start |-> start, end |-> IF end > size - 1 THEN size - 1 ELSE end]

-----------------------------------------------------------------------------
\* pathFor and acquire: the use is counted before the first await.
acquire(r, v, h) ==
    /\ watch[r].pc = "idle"
    /\ watch' = [watch EXCEPT ![r] = [pc |-> "look", video |-> v, header |-> h, released |-> FALSE]]
    /\ activeFiles' = [activeFiles EXCEPT ![v] = @ + 1]
    /\ UNCHANGED <<cached, inFlight, queue, job, faults>>

\* ensure, up to the job: a usable file is touched, a job under way is shared.
ensure(r) ==
    LET v == watch[r].video IN
    /\ watch[r].pc = "look"
    /\ \/ /\ isUsableFile(v)
          /\ cached' = touchFile(v)
          /\ watch' = [watch EXCEPT ![r].pc = "send"]
          /\ UNCHANGED <<inFlight, queue>>
       \/ /\ ~isUsableFile(v)
          /\ watch' = [watch EXCEPT ![r].pc = "wait"]
          /\ inFlight' = inFlight \union {v}
          /\ queue' = IF v \in inFlight THEN queue ELSE Append(queue, v)
          /\ UNCHANGED cached
    /\ UNCHANGED <<job, activeFiles, faults>>

\* A release that is counted at every call: for mutants.
release_every_call(r, pc) ==
    /\ activeFiles' = [activeFiles EXCEPT ![watch[r].video] = @ - 1]
    /\ watch' = [watch EXCEPT ![r] = IF pc = "idle" THEN NotWatching ELSE [@ EXCEPT !.pc = pc, !.released = TRUE]]

\* A use is released once: its flag makes later calls do nothing.
release(r, pc) ==
    /\ activeFiles' = IF watch[r].released THEN activeFiles ELSE [activeFiles EXCEPT ![watch[r].video] = @ - 1]
    /\ watch' = [watch EXCEPT ![r] = IF pc = "idle" THEN NotWatching ELSE [@ EXCEPT !.pc = pc, !.released = TRUE]]

\* A job settles: every request waiting for it goes on, or is answered 503.  The
\* release of the failed ones is in their own catch, one after another.
settle(v, pc) ==
    /\ watch' = [r \in Reqs |-> IF watch[r].pc = "wait" /\ watch[r].video = v THEN [watch[r] EXCEPT !.pc = pc] ELSE watch[r]]
    /\ inFlight' = inFlight \ {v}
    /\ queue' = Tail(queue)
    /\ job' = NoJob

\* The first job of the queue looks again, then starts ffmpeg on a temporary file.
JobStarts ==
    /\ queue # <<>> /\ job.pc = "idle"
    /\ LET v == Head(queue) IN
       \/ /\ isUsableFile(v)
          /\ cached' = touchFile(v)
          /\ settle(v, "send")
       \/ /\ ~isUsableFile(v)
          /\ job' = [job EXCEPT !.pc = "transcode"]
          /\ UNCHANGED <<cached, watch, inFlight, queue>>
    /\ UNCHANGED <<activeFiles, faults>>

\* ffmpeg ends well, its output is renamed into place and touched.
transcode ==
    /\ job.pc = "transcode"
    /\ cached' = touchFile(Head(queue))
    /\ job' = [job EXCEPT !.pc = "prune"]
    /\ UNCHANGED <<watch, inFlight, queue, activeFiles, faults>>

\* It fails, is not installed, writes nothing or is killed after two minutes.
TranscodeFails ==
    /\ job.pc = "transcode"
    /\ settle(Head(queue), "failed")
    /\ VideoFault
    /\ UNCHANGED <<cached, activeFiles>>

\* prune reads the directory once, oldest files first.
prune ==
    /\ job.pc = "prune"
    /\ job' = [job EXCEPT !.pc = "remove", !.files = cached, !.total = Len(cached)]
    /\ UNCHANGED <<cached, watch, inFlight, queue, activeFiles, faults>>

\* The next file of that list is removed, unless it is the new one or in use; the
\* removal itself is awaited.
PruneNext ==
    /\ job.pc = "remove"
    /\ IF job.files = <<>> \/ job.total <= MaxFiles THEN settle(Head(queue), "send")
       ELSE LET v == Head(job.files)
                spared == v = Head(queue) \/ activeFiles[v] > 0
            IN /\ job' = IF spared THEN [job EXCEPT !.files = Tail(@)]
                         ELSE [pc |-> "rm", files |-> Tail(job.files), total |-> job.total - 1, victim |-> v]
               /\ UNCHANGED <<watch, inFlight, queue>>
    /\ UNCHANGED <<cached, activeFiles, faults>>

PruneRemoves ==
    /\ job.pc = "rm"
    /\ cached' = SelectSeq(cached, LAMBDA f : f # job.victim)
    /\ job' = [job EXCEPT !.pc = "remove", !.victim = NONE]
    /\ UNCHANGED <<watch, inFlight, queue, activeFiles, faults>>

-----------------------------------------------------------------------------
\* sendFileStream: a file that has gone is an error, a range it does not have is 416.
sendFileStream(r) ==
    /\ watch[r].pc = "send"
    /\ IF isUsableFile(watch[r].video) /\ parseRangeHeader(watch[r].header, Size) # NONE
         THEN watch' = [watch EXCEPT ![r].pc = "stream"] /\ UNCHANGED activeFiles
         ELSE release(r, "idle")
    /\ UNCHANGED <<cached, inFlight, queue, job, faults>>

\* The catch of the route, after a failed job.
AnswersFailure(r) ==
    /\ watch[r].pc = "failed"
    /\ release(r, "idle")
    /\ UNCHANGED <<cached, inFlight, queue, job, faults>>

\* A stream that breaks emits "error" and then "close": both release.
StreamErrors(r) ==
    /\ watch[r].pc = "stream" /\ ~watch[r].released
    /\ release(r, "stream")
    /\ UNCHANGED <<cached, inFlight, queue, job, faults>>

StreamCloses(r) ==
    /\ watch[r].pc = "stream"
    /\ release(r, "idle")
    /\ UNCHANGED <<cached, inFlight, queue, job, faults>>

VideoNext ==
    \/ \E r \in Reqs, v \in Videos, h \in Headers : acquire(r, v, h)
    \/ \E r \in Reqs : ensure(r) \/ sendFileStream(r) \/ AnswersFailure(r) \/ StreamErrors(r) \/ StreamCloses(r)
    \/ JobStarts \/ transcode \/ TranscodeFails \/ prune \/ PruneNext \/ PruneRemoves

VideoSpec == VideoInit /\ [][VideoNext]_videoVars

-----------------------------------------------------------------------------
\* The uses of a cache file are counted exactly, from before the first await of a
\* request to the first of the events that end its stream: through shared and failed
\* transcodes, refused ranges and broken streams no use is counted twice, forgotten or
\* released twice, which the pruning relies on.
VideoUsesAreCounted ==
    \A v \in Videos : activeFiles[v] = Cardinality({r \in Reqs : watch[r].video = v /\ ~watch[r].released})

\* The bytes a Range header denotes in a file of `size` bytes.
Denoted(h, size) ==
    {b \in 0..(size - 1) :
        IF h = NONE THEN TRUE
        ELSE IF h.start = NONE THEN b + h.end >= size
        ELSE b >= h.start /\ (h.end = NONE \/ b <= h.end)}

\* A range is served exactly: parseRangeHeader selects the bytes the header denotes
\* and refuses only a header that denotes none, at every size down to an empty file.
RangesAreExact ==
    \A r \in Reqs, size \in 0..Size :
        LET range == parseRangeHeader(watch[r].header, size) IN
        IF range = NONE THEN Denoted(watch[r].header, size) = {}
        ELSE Denoted(watch[r].header, size) = range.start..range.end
=============================================================================
