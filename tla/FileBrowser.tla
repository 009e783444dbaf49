---------------------------- MODULE FileBrowser ----------------------------
(***************************************************************************)
(* The files part of the web workspace: apps/web/src/App.tsx with          *)
(* lib/uploads.ts, lib/session.ts and the effects of WorkspacePane.tsx.     *)
(*                                                                         *)
(* Every function that awaits the API is a call that goes on with the      *)
(* variables of the render in which it was started (its closure, "here"),  *)
(* while refs (selectedStoragePoolIdRef, activeSearchQueryRef, ...) are    *)
(* read when it goes on.  The counter behind beginFileListingRequest is    *)
(* only compared for equality, so a call carries "mine": it is still the    *)
(* newest listing request.  Effects run in the step of the state change    *)
(* that triggers them.  Texts of the status line and of the toasts, the    *)
(* queues beside the files and Git decorations are left out.  What a       *)
(* listing shows is the place it was read from.                             *)
(***************************************************************************)
EXTENDS Naturals, Sequences, FiniteSets, FiniteSetsExt

CONSTANTS Pools,        \* storage pools of the host
          RootOf,       \* the NAS root each one lies in
          Calls,        \* API calls that may be under way at a time
          Batches,      \* upload batches, numbered in the order they start
          Items,        \* files of a batch
          MaxHistory,   \* MAX_UPLOAD_BATCHES
          MaxAsked,     \* preview requests under way at a time
          MaxActions,   \* bound on what the user and the events of others start
          NONE

VARIABLES
  options,    \* storagePoolOptions
  pool,       \* selectedStoragePoolId (and the ref), NONE for ""
  path,       \* currentPath (and the ref)
  listing,    \* where the entries shown come from
  query,      \* the search box or the filters are not empty
  active,     \* activeSearchQueryRef is not empty
  selected,   \* selectedFilePath
  preview,    \* previewMeta's file, and loading / shown / error
  asked,      \* preview requests under way
  session,    \* the root of the session in view
  handler,    \* the closure of the session's EventSource handler
  calls,      \* what each pending call goes on with
  shown,      \* uploadBatches
  runs,       \* the loops of onUploadSources that have not ended
  stored,     \* files of a batch the server has stored, once it has started
  actions     \* things started so far

browserVars == <<options, pool, path, listing, query, active, selected,
                 preview, asked, session, handler, calls, shown, runs, stored, actions>>

place == <<options, pool, path, session, handler>>
uploads == <<shown, runs, stored>>

Top(p) == <<p>>
Folders == {Top(p) : p \in Pools} \union {<<p, "d">> : p \in Pools}
FileIn(d) == Append(d, "f")
Parent(f) == SubSeq(f, 1, Len(f) - 1)
Empty == [pool |-> NONE, path |-> NONE, kind |-> "none"]
NoPreview == [file |-> NONE, phase |-> "none"]
Slots == Calls \union Batches

isPathWithinStoragePool(d, p) == d[1] = p

\* The variables a function started now goes on with.
Here == [pool |-> pool, path |-> path, query |-> query,
         selected |-> selected, session |-> session, searching |-> active]

TypeOK ==
  /\ options \subseteq Pools /\ pool \in options \union {NONE}
  /\ path \in Folders \union {NONE}
  /\ listing \in [pool : Pools, path : Folders, kind : {"files", "search"}]
                 \union {Empty}
  /\ query \in BOOLEAN /\ active \in BOOLEAN
  /\ selected \in {FileIn(d) : d \in Folders} \union {NONE}
  /\ preview \in [file : {FileIn(d) : d \in Folders} \union {NONE},
                  phase : {"none", "loading", "shown", "error"}]
  /\ \A c \in Slots : calls[c] = NONE \/ calls[c].mine \in BOOLEAN
  /\ \A b \in Batches : runs[b] # NONE => runs[b].at \in 1 .. Items

Init ==
  /\ options = Pools /\ pool = NONE /\ path = NONE /\ listing = Empty
  /\ query = FALSE /\ active = FALSE
  /\ selected = NONE /\ preview = NoPreview /\ asked = {}
  /\ session = NONE /\ handler = NONE
  /\ calls = [c \in Slots |-> NONE]
  /\ shown = [b \in Batches |-> NONE] /\ runs = [b \in Batches |-> NONE]
  /\ stored = [b \in Batches |-> NONE] /\ actions = 0
-----------------------------------------------------------------------------
(* Selection and preview. *)

\* setSelectedFilePath and the effect that loads the preview: the request
\* before it is no longer active.
Selects(f) ==
  /\ selected' = f
  /\ IF f = selected
     THEN UNCHANGED <<preview, asked>>
     ELSE /\ asked' = {[r EXCEPT !.live = FALSE] : r \in asked}
                      \union (IF f = NONE THEN {} ELSE {[file |-> f, live |-> TRUE]})
          /\ preview' = IF f = NONE THEN NoPreview
                        ELSE [preview EXCEPT !.phase = "loading"]
          /\ Cardinality(asked') <= MaxAsked

openEntry(f) ==
  /\ listing.kind # "none" /\ f = FileIn(listing.path)
  /\ Selects(f)
  /\ UNCHANGED <<place, listing, query, active, calls, uploads>>

\* A mutant: the answer is applied although another file was selected.
loadPreview_late(r, ok) ==
  /\ r \in asked
  /\ asked' = asked \ {r}
  /\ preview' = IF ok THEN [file |-> r.file, phase |-> "shown"]
                ELSE [preview EXCEPT !.phase = "error"]
  /\ UNCHANGED <<place, listing, query, active, selected, calls, uploads>>

loadPreview(r, ok) ==
  /\ r \in asked
  /\ asked' = asked \ {r}
  /\ preview' = IF ~r.live THEN preview
                ELSE IF ok THEN [file |-> r.file, phase |-> "shown"]
                ELSE [preview EXCEPT !.phase = "error"]
  /\ UNCHANGED <<place, listing, query, active, selected, calls, uploads>>
-----------------------------------------------------------------------------
(* Listing requests. *)

Stale == [k \in Slots |-> IF calls[k] = NONE THEN NONE
                          ELSE [calls[k] EXCEPT !.mine = FALSE]]

Call(op, here, to) == [op |-> op, here |-> here, to |-> to, mine |-> TRUE,
                       link |-> NONE]

beginFileListingRequest(c, call) == [Stale EXCEPT ![c] = call]

Idle(c) == calls[c] = NONE

\* commitFileListing, and the effect that closes a preview whose file is not
\* among the entries.
commitFileListing(from, to, kind) ==
  /\ listing' = [pool |-> from.pool, path |-> to, kind |-> kind]
  /\ Selects(IF kind = "files" /\ selected # NONE /\ selected = FileIn(to)
             THEN selected ELSE NONE)

\* openDirectory up to its first await, in the closure "here".
StartOpen(c, d, here, link) ==
  /\ query' = FALSE /\ active' = FALSE
  /\ Selects(NONE)
  /\ calls' = beginFileListingRequest(c, [Call("open", here, d) EXCEPT !.link = link])

openDirectory(c, d) ==
  /\ Idle(c) /\ pool # NONE /\ isPathWithinStoragePool(d, pool)
  /\ StartOpen(c, d, Here, NONE)
  /\ UNCHANGED <<place, listing, uploads>>

\* openWorkspacePath after openDirectory has returned, whatever came of it:
\* the linked file is selected if the place is the same and it is listed.
LinkSelects(call, shownPath) ==
  IF call.link # NONE /\ pool = call.here.pool /\ Parent(call.link) = shownPath
  THEN call.link ELSE NONE

OpenAnswers(c, ok) ==
  LET call == calls[c]
      applies == call.mine /\ pool = call.here.pool /\ ok
      follow == call.here.session # NONE /\ session # NONE
                /\ call.here.session = RootOf[call.here.pool]
  IN /\ call # NONE /\ call.op = "open"
     /\ IF applies
        THEN /\ path' = call.to
             /\ listing' = [pool |-> call.here.pool, path |-> call.to, kind |-> "files"]
             /\ Selects(IF follow THEN NONE ELSE LinkSelects(call, call.to))
             /\ calls' = [calls EXCEPT ![c] = IF follow THEN [call EXCEPT !.op = "path"]
                                              ELSE NONE]
        ELSE /\ UNCHANGED <<path, listing>>
             /\ Selects(IF call.link = NONE THEN selected
                        ELSE LinkSelects(call, listing.path))
             /\ calls' = [calls EXCEPT ![c] = NONE]
     /\ UNCHANGED <<options, pool, query, active, session, handler, uploads>>

\* openDirectory after updateSessionPath: the session in view is replaced,
\* so that the EventSource handler is made anew.
PathAnswers(c, ok) ==
  LET call == calls[c]
  IN /\ call # NONE /\ call.op = "path"
     /\ calls' = [calls EXCEPT ![c] = NONE]
     /\ handler' = IF ok /\ call.mine /\ pool = call.here.pool /\ session = call.here.session
                   THEN Here ELSE handler
     /\ Selects(IF call.link = NONE THEN selected ELSE LinkSelects(call, listing.path))
     /\ UNCHANGED <<options, pool, path, session, listing, query, active, uploads>>

\* refreshCurrentFileListing and executeAdvancedSearch in the closure "here".
RefreshFrom(c, here) ==
  IF here.pool = NONE
  THEN /\ calls' = [calls EXCEPT ![c] = NONE]
       /\ UNCHANGED active
  ELSE /\ active' = (active /\ here.query)
       /\ calls' = beginFileListingRequest(c,
            Call(IF active /\ here.query THEN "search" ELSE "list", here, here.path))

refreshFiles(c) ==
  /\ Idle(c) /\ pool # NONE
  /\ RefreshFrom(c, Here)
  /\ UNCHANGED <<place, listing, query, selected, preview, asked, uploads>>

TypeQuery ==
  /\ pool # NONE
  /\ query' = ~query
  /\ UNCHANGED <<place, listing, active, selected, preview, asked, calls, uploads>>

executeAdvancedSearch(c) ==
  /\ Idle(c) /\ pool # NONE
  /\ active' = query
  /\ calls' = beginFileListingRequest(c, Call(IF query THEN "search" ELSE "list", Here, path))
  /\ UNCHANGED <<place, listing, query, selected, preview, asked, uploads>>

ListAnswers(c, ok) ==
  LET call == calls[c]
  IN /\ call # NONE /\ call.op \in {"list", "search"}
     /\ calls' = [calls EXCEPT ![c] = NONE]
     /\ IF ok /\ call.mine
        THEN commitFileListing(call.here, call.to,
                               IF call.op = "list" THEN "files" ELSE "search")
        ELSE UNCHANGED <<listing, selected, preview, asked>>
     /\ UNCHANGED <<place, query, active, uploads>>
-----------------------------------------------------------------------------
(* Pools and sessions. *)

\* The variables of the first render with pool p.
In(p, s) == [pool |-> p, path |-> Top(p), query |-> FALSE, selected |-> NONE,
             session |-> s, searching |-> FALSE]

\* selectStoragePool and the effects of the new selection: the pool's top
\* directory is listed, or the directory a finished download lies in.  The
\* pool already selected is emptied and not listed again.
selectStoragePool(c, p, to) ==
  /\ Idle(c) /\ p \in options
  /\ pool' = p /\ path' = Top(p) /\ listing' = Empty
  /\ query' = FALSE /\ active' = FALSE
  /\ Selects(NONE)
  /\ LET sameRoot == pool # NONE /\ RootOf[p] = RootOf[pool]
         then == IF sameRoot /\ to # Top(p) THEN session ELSE NONE
     IN /\ session' = IF sameRoot THEN session ELSE NONE
        /\ handler' = IF sameRoot THEN handler ELSE NONE
        /\ calls' = IF p = pool THEN Stale
                    ELSE beginFileListingRequest(c, Call("open", In(p, then), to))
  /\ UNCHANGED <<options, uploads>>

openDownloadedDirectory(c, p) ==
  IF p = pool THEN openDirectory(c, <<p, "d">>) ELSE selectStoragePool(c, p, <<p, "d">>)

\* refreshStorageSummary: the options are made anew, so that the selected
\* pool is listed from its top; a pool that has gone is deselected, and the
\* first of the others selected.
refreshStorageSummary(c, pools) ==
  /\ Idle(c) /\ pool # NONE /\ pools # {}
  /\ options' = pools
  /\ query' = FALSE /\ active' = FALSE
  /\ Selects(NONE)
  /\ LET p == IF pool \in pools THEN pool ELSE CHOOSE q \in pools : TRUE
     IN /\ pool' = p
        /\ path' = IF p = pool THEN path ELSE Top(p)
        /\ listing' = IF p = pool THEN listing ELSE Empty
        /\ calls' = beginFileListingRequest(c, Call("open", In(p, NONE), Top(p)))
        /\ session' = IF RootOf[p] = RootOf[pool] THEN session ELSE NONE
        /\ handler' = IF RootOf[p] = RootOf[pool] THEN handler ELSE NONE
  /\ UNCHANGED uploads

\* loadRootWorkspace, selectSession and submitMessage put a session (another
\* record) in view; the effect makes the EventSource handler of this render.
SessionChanges ==
  /\ pool # NONE
  /\ session' = RootOf[pool] /\ handler' = Here
  /\ UNCHANGED <<options, pool, path, listing, query, active, selected, preview,
                 asked, calls, uploads>>

\* A file batch of the selected pool has ended: the handler compares the
\* event with the refs and refreshes the listing of its own render.
BatchEvent(c) ==
  /\ Idle(c) /\ handler # NONE /\ pool # NONE
  /\ RefreshFrom(c, handler)
  /\ UNCHANGED <<place, listing, query, selected, preview, asked, uploads>>
-----------------------------------------------------------------------------
(* Operations on files: each goes on when the API has answered. *)

Request(c, op) ==
  /\ Idle(c) /\ pool # NONE /\ session # NONE
  /\ (op # "link") => listing.kind # "none"
  /\ \E d \in {e \in Folders : isPathWithinStoragePool(e, pool)} :
       /\ op # "link" => d = listing.path
       /\ calls' = [calls EXCEPT ![c] = [Call(op, Here, FileIn(d)) EXCEPT !.mine = FALSE]]
  /\ UNCHANGED <<place, listing, query, active, selected, preview, asked, uploads>>

Ended(c) ==
  /\ calls' = [calls EXCEPT ![c] = NONE]
  /\ UNCHANGED <<active, selected, preview, asked>>

Answered(c, op) == calls[c] # NONE /\ calls[c].op = op

OperationFails(c) ==
  /\ calls[c] # NONE
  /\ calls[c].op \in {"rename", "copy", "mkdir", "extract", "approve", "rollback", "link"}
  /\ Ended(c)
  /\ UNCHANGED <<place, listing, query, uploads>>

\* The file selected when the request was made is selected under its new
\* name, which the entries do not have yet: the preview closes.
requestFileRename(c) ==
  /\ Answered(c, "rename")
  /\ LET here == calls[c].here
     IN IF pool # here.pool THEN Ended(c)
        ELSE /\ Selects(IF here.selected = calls[c].to THEN NONE ELSE selected)
             /\ RefreshFrom(c, here)
  /\ UNCHANGED <<place, listing, query, uploads>>

Refreshes(c, op) ==
  /\ Answered(c, op)
  /\ IF pool # calls[c].here.pool THEN Ended(c)
     ELSE /\ RefreshFrom(c, calls[c].here)
          /\ UNCHANGED <<selected, preview, asked>>
  /\ UNCHANGED <<place, listing, query, uploads>>

requestFileTransfer(c) == Refreshes(c, "copy")
requestFileExtract(c) == Refreshes(c, "extract")
requestFolderCreateAt(c) == Refreshes(c, "mkdir")

\* applyApprovedSelectionChange closes the preview of a file that went to
\* the trash.
handleApprove(c) ==
  /\ Answered(c, "approve")
  /\ LET here == calls[c].here
     IN IF pool # here.pool THEN Ended(c)
        ELSE /\ Selects(IF here.selected = calls[c].to THEN NONE ELSE selected)
             /\ RefreshFrom(c, here)
  /\ UNCHANGED <<place, listing, query, uploads>>

handleRollback(c) ==
  /\ Answered(c, "rollback")
  /\ RefreshFrom(c, calls[c].here)
  /\ UNCHANGED <<place, listing, query, selected, preview, asked, uploads>>

\* openWorkspacePath: a path in the chat is opened in the files panel.
openWorkspacePath(c) ==
  /\ Answered(c, "link")
  /\ LET here == calls[c].here
         f == calls[c].to
     IN IF pool # here.pool THEN Ended(c) /\ UNCHANGED query
        ELSE IF path # Parent(f) \/ here.searching
        THEN StartOpen(c, Parent(f), here, f)
        ELSE /\ query' = FALSE /\ active' = FALSE
             /\ calls' = [calls EXCEPT ![c] = NONE]
             /\ Selects(IF listing.path = Parent(f) THEN f ELSE NONE)
  /\ UNCHANGED <<place, listing, uploads>>
-----------------------------------------------------------------------------
(* Uploads: one loop per batch, one file at a time. *)

Active(status) == status \in {"queued", "uploading"}      \* isUploadBatchActive

\* pruneUploadBatchHistory: the newest MaxHistory of the ended batches stay.
pruneUploadBatchHistory(batches) ==
  LET ended == {b \in Batches : batches[b] # NONE /\ ~Active(batches[b].status)}
  IN [b \in Batches |->
        IF b \in ended /\ Cardinality({e \in ended : e > b}) >= MaxHistory
        THEN NONE ELSE batches[b]]

\* setUploadBatch: updateUploadBatch finds nothing when the batch was pruned.
setUploadBatch(b, batch) == IF shown[b] = NONE THEN shown ELSE [shown EXCEPT ![b] = batch]

markUploadBatchCancelled(batch) ==
  [status |-> "cancelled",
   items |-> [i \in 1 .. Items |-> IF batch.items[i] = "completed" THEN "completed"
                                   ELSE "cancelled"]]

createUploadBatch ==
  [status |-> "queued", items |-> [i \in 1 .. Items |-> "queued"]]

onUploadSources(b) ==
  /\ pool # NONE /\ stored[b] = NONE /\ \A e \in Batches : e < b => stored[e] # NONE
  /\ shown' = pruneUploadBatchHistory(
       [shown EXCEPT ![b] = [createUploadBatch EXCEPT !.status = "uploading",
                                                      !.items[1] = "uploading"]])
  /\ runs' = [runs EXCEPT ![b] = [at |-> 1, failed |-> FALSE, cancelled |-> FALSE, here |-> Here]]
  /\ stored' = [stored EXCEPT ![b] = {}]
  /\ UNCHANGED <<place, listing, query, active, selected, preview, asked, calls>>

\* The loop has ended with what is shown as "status"; a completed batch
\* refreshes the listing of its directory.
UploadEnds(b, batch) ==
  /\ shown' = pruneUploadBatchHistory(setUploadBatch(b, batch))
  /\ runs' = [runs EXCEPT ![b] = NONE]
  /\ LET here == runs[b].here
     IN IF /\ batch.status = "completed" /\ ~active
           /\ pool # NONE /\ RootOf[pool] = RootOf[here.pool] /\ path = here.path
        THEN RefreshFrom(b, here)
        ELSE UNCHANGED <<active, calls>>

\* A mutant: the batch is settled by its last file.
settle_last(b, batch) ==
  [batch EXCEPT !.status = IF batch.items[Items] = "failed" THEN "failed" ELSE "completed"]

settleUploadBatch(b, batch) ==
  [batch EXCEPT !.status = IF runs[b].failed \/ batch.items[Items] = "failed"
                           THEN "failed" ELSE "completed"]

\* uploadFile of the current file has returned or thrown; the rest of the
\* loop runs up to the next await.
ItemEnds(b, result, onServer) ==
  LET run == runs[b]
      batch == IF shown[b] = NONE THEN createUploadBatch ELSE shown[b]
      abort == run.cancelled /\ result = "failed"
      after == [batch EXCEPT !.items[run.at] = result]
  IN /\ run # NONE
     /\ stored' = IF onServer THEN [stored EXCEPT ![b] = @ \union {run.at}] ELSE stored
     /\ IF abort THEN UploadEnds(b, markUploadBatchCancelled(batch))
        ELSE IF run.at = Items THEN UploadEnds(b, settleUploadBatch(b, after))
        ELSE IF run.cancelled THEN UploadEnds(b, markUploadBatchCancelled(after))
        ELSE /\ shown' = setUploadBatch(b, [after EXCEPT !.items[run.at + 1] = "uploading"])
             /\ runs' = [runs EXCEPT ![b].at = @ + 1, ![b].failed = @ \/ result = "failed"]
             /\ UNCHANGED <<active, calls>>
     /\ UNCHANGED <<place, listing, query, selected, preview, asked>>

onCancelUploadBatch(b) ==
  /\ shown[b] # NONE /\ Active(shown[b].status)
  /\ runs' = IF runs[b] = NONE THEN runs ELSE [runs EXCEPT ![b].cancelled = TRUE]
  /\ shown' = [shown EXCEPT ![b] = markUploadBatchCancelled(@)]
  /\ UNCHANGED <<place, listing, query, active, selected, preview, asked, calls, stored>>
-----------------------------------------------------------------------------
Starts(c) ==
  \/ \E op \in {"rename", "copy", "mkdir", "extract", "approve", "rollback", "link"} :
       Request(c, op)
  \/ \E d \in Folders : openDirectory(c, d)
  \/ refreshFiles(c) \/ executeAdvancedSearch(c) \/ BatchEvent(c)
  \/ \E p \in Pools : selectStoragePool(c, p, Top(p)) \/ openDownloadedDirectory(c, p)
  \/ \E pools \in SUBSET Pools : refreshStorageSummary(c, pools)

User ==
  \/ \E c \in Calls : Starts(c)
  \/ \E b \in Batches : onUploadSources(b) \/ onCancelUploadBatch(b)
  \/ \E d \in Folders : openEntry(FileIn(d))
  \/ TypeQuery \/ SessionChanges

Answer(c) ==
  \/ \E ok \in BOOLEAN : OpenAnswers(c, ok) \/ PathAnswers(c, ok) \/ ListAnswers(c, ok)
  \/ OperationFails(c)
  \/ requestFileRename(c) \/ requestFileTransfer(c) \/ requestFileExtract(c)
  \/ requestFolderCreateAt(c) \/ handleApprove(c) \/ handleRollback(c)
  \/ openWorkspacePath(c)

Upload(b) ==
  \/ \E onServer \in BOOLEAN : ItemEnds(b, "failed", onServer)
  \/ ItemEnds(b, "completed", TRUE)

Next ==
  \/ actions < MaxActions /\ actions' = actions + 1 /\ User
  \/ /\ UNCHANGED actions
     /\ \/ \E c \in Slots : Answer(c)
        \/ \E b \in Batches : Upload(b)
        \/ \E r \in asked, ok \in BOOLEAN : loadPreview(r, ok)

Spec == Init /\ [][Next]_browserVars
-----------------------------------------------------------------------------
\* A preview that is shown is of the file that is selected, in whatever order
\* the answers of loadPreview arrive and whatever moved the selection since.
PreviewIsOfSelection ==
  preview.phase = "shown" => preview.file = selected

\* The upload list tells what the server did: a file shown as completed is
\* stored; a batch that has ended is completed exactly when each of its files
\* is; a batch whose loop is still running has not been pruned from the list
\* unless it was cancelled.
UploadsTellTheTruth ==
  \A b \in Batches :
    /\ shown[b] # NONE =>
         /\ \A i \in 1 .. Items : shown[b].items[i] = "completed" => i \in stored[b]
         /\ runs[b] = NONE =>
              /\ ~Active(shown[b].status)
              /\ (shown[b].status = "completed")
                   <=> \A i \in 1 .. Items : shown[b].items[i] = "completed"
    /\ runs[b] # NONE /\ ~runs[b].cancelled => shown[b] # NONE

\* The entries shown are of the storage pool that is selected.
\* The code does not keep this in every case: README.md says when.
ListingIsOfPool == listing.kind # "none" => listing.pool = pool
=============================================================================
