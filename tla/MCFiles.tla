------------------------------ MODULE MCFiles ------------------------------
(*****************************************************************************)
(* The files of the NAS for TLC: single file operations with one handler     *)
(* that may die and with two that interleave, batches of them, a move across *)
(* file systems entry by entry, the upload, archive and download routes, the *)
(* cache of transcoded videos, and the file browser.  A behaviour is about   *)
(* one of them: `part' says which, and the others stay as they began.        *)
(*****************************************************************************)
EXTENDS FileMutations, Integers, FiniteSets, TLC

CONSTANTS h1, h2, h3, p1, p2, p3, f1, f2, none, NONE

OneHandler == {h1}
MCPaths == {p1, p2, p3}
MCFileSet == {f1, f2}
MCHome == f1 :> p1 @@ f2 :> p2

Interleaved == Permutations({h2, h3})

(* A move and a trash, and a move of another file to the same target.         *)
Item(kind, from, to) == [op |-> kind, src |-> from, dst |-> to]

BatchPlan ==
  [n \in {"b1", "b2"} |-> IF n = "b1" THEN <<Item("move", "a", "x"), Item("trash", "b", "trash")>>
                                      ELSE <<Item("move", "c", "x")>>]

(* A folder that does not exist yet, a file in it, and a file that exists.    *)
RouteParent == [p \in {"d", "d/p", "g"} |-> IF p = "d/p" THEN "d" ELSE NONE]

(* Range headers of a video of two bytes: none, open at one end, beyond it.   *)
VideoHeaders ==
  {NONE} \cup {r \in [start : {NONE, 0, 2}, end : {NONE, 0, 1, 3}] : r.start # NONE \/ r.end # NONE}

(* Two pools of one root and one of another.                                  *)
BrowserRoot == [p \in {"p", "q", "r"} |-> IF p = "r" THEN "other" ELSE "root"]

VARIABLE part     \* the component this behaviour is about

VARIABLES
  m_fs, m_entry, m_op, m_h, m_tmp, m_slots, m_crashes

VARIABLES
  b_job, b_item, b_done, b_note, b_order, b_posting, b_ops, b_trashRows,
  b_fs, b_moved, b_runner, b_current, b_busy, b_crashes

VARIABLES
  p_source, p_temporary, p_target, p_pc, p_halfway

VARIABLES
  r_disk, r_req, r_exports, r_operations, r_shifted, r_trouble

VARIABLES
  v_cached, v_watch, v_inFlight, v_queue, v_job, v_activeFiles, v_faults

VARIABLES
  w_options, w_pool, w_path, w_listing, w_query, w_active, w_selected,
  w_preview, w_asked, w_session, w_handler, w_calls, w_shown, w_runs,
  w_stored, w_actions

Two == INSTANCE FileMutations WITH
  fs <- m_fs, entry <- m_entry, op <- m_op, h <- m_h, tmp <- m_tmp,
  slots <- m_slots, crashes <- m_crashes, Handlers <- {h2, h3}, MaxOps <- 3,
  MaxCrashes <- 0

Batch == INSTANCE FileBatchesProofs WITH
  job <- b_job, item <- b_item, done <- b_done, note <- b_note,
  order <- b_order, posting <- b_posting, ops <- b_ops,
  trashRows <- b_trashRows, fs <- b_fs, moved <- b_moved, runner <- b_runner,
  current <- b_current, busy <- b_busy, crashes <- b_crashes,
  Batches <- {"b1", "b2"}, Paths <- {"a", "b", "c", "x", "trash"},
  Plan <- BatchPlan, DeleteSessions <- TRUE, MaxCrashes <- 2

Move == INSTANCE MovePath WITH
  source <- p_source, temporary <- p_temporary, target <- p_target,
  pc <- p_pc, halfway <- p_halfway, Entries <- {1, 2, 3, 4}

Route == INSTANCE FileRoutes WITH
  disk <- r_disk, req <- r_req, exports <- r_exports,
  operations <- r_operations, shifted <- r_shifted, trouble <- r_trouble,
  cached <- v_cached, watch <- v_watch, inFlight <- v_inFlight,
  queue <- v_queue, job <- v_job, activeFiles <- v_activeFiles,
  faults <- v_faults, Reqs <- {1, 2}, Parent <- RouteParent,
  Present <- {"g"}, MaxTrouble <- 1, Videos <- {"v", "w"}, Size <- 2,
  Headers <- VideoHeaders, MaxFiles <- 1

Browser == INSTANCE FileBrowser WITH
  options <- w_options, pool <- w_pool, path <- w_path, listing <- w_listing,
  query <- w_query, active <- w_active, selected <- w_selected,
  preview <- w_preview, asked <- w_asked, session <- w_session,
  handler <- w_handler, calls <- w_calls, shown <- w_shown, runs <- w_runs,
  stored <- w_stored, actions <- w_actions, Pools <- {"p", "q", "r"},
  RootOf <- BrowserRoot, Calls <- {11, 12}, Batches <- {1, 2}, Items <- 2,
  MaxHistory <- 1, MaxAsked <- 2, MaxActions <- 3

oneVars ==
  <<fs, entry, op, h, tmp, slots, crashes>>

twoVars ==
  <<m_fs, m_entry, m_op, m_h, m_tmp, m_slots, m_crashes>>

batchesVars ==
  <<b_job, b_item, b_done, b_note, b_order, b_posting, b_ops, b_trashRows,
    b_fs, b_moved, b_runner, b_current, b_busy, b_crashes>>

movesVars ==
  <<p_source, p_temporary, p_target, p_pc, p_halfway>>

routesVars ==
  <<r_disk, r_req, r_exports, r_operations, r_shifted, r_trouble>>

videosVars ==
  <<v_cached, v_watch, v_inFlight, v_queue, v_job, v_activeFiles, v_faults>>

browserVars ==
  <<w_options, w_pool, w_path, w_listing, w_query, w_active, w_selected,
    w_preview, w_asked, w_session, w_handler, w_calls, w_shown, w_runs,
    w_stored, w_actions>>

mcVars ==
  <<part, oneVars, twoVars, batchesVars, movesVars, routesVars, videosVars,
    browserVars>>

MCInit ==
  /\ part \in {"one", "two", "batches", "moves", "routes", "videos", "browser"}
  /\ Init
  /\ Two!Init
  /\ Batch!Init
  /\ Move!Init
  /\ Route!RouteInit
  /\ Route!VideoInit
  /\ Browser!Init

OnlyOne ==
  /\ part = "one"
  /\ UNCHANGED <<part, twoVars, batchesVars, movesVars, routesVars,
                 videosVars, browserVars>>

OnlyTwo ==
  /\ part = "two"
  /\ UNCHANGED <<part, oneVars, batchesVars, movesVars, routesVars,
                 videosVars, browserVars>>

OnlyBatch ==
  /\ part = "batches"
  /\ UNCHANGED <<part, oneVars, twoVars, movesVars, routesVars, videosVars,
                 browserVars>>

OnlyMove ==
  /\ part = "moves"
  /\ UNCHANGED <<part, oneVars, twoVars, batchesVars, routesVars, videosVars,
                 browserVars>>

OnlyRoute ==
  /\ part = "routes"
  /\ UNCHANGED <<part, oneVars, twoVars, batchesVars, movesVars, videosVars,
                 browserVars>>

OnlyVideo ==
  /\ part = "videos"
  /\ UNCHANGED <<part, oneVars, twoVars, batchesVars, movesVars, routesVars,
                 browserVars>>

OnlyBrowser ==
  /\ part = "browser"
  /\ UNCHANGED <<part, oneVars, twoVars, batchesVars, movesVars, routesVars,
                 videosVars>>

MCNext ==
  \/ OnlyOne /\ Next
  \/ OnlyTwo /\ Two!Next
  \/ OnlyBatch /\ Batch!Next
  \/ OnlyMove /\ Move!Next
  \/ OnlyRoute /\ Route!RouteNext
  \/ OnlyVideo /\ Route!VideoNext
  \/ OnlyBrowser /\ Browser!Next

MCSpec == MCInit /\ [][MCNext]_mcVars

-----------------------------------------------------------------------------
\* Every component keeps the types of its variables, and the two about which
\* theorems are proved keep the inductive invariant of the proof.
Typed ==
  /\ part = "one" => TypeOK
  /\ part = "two" => Two!TypeOK
  /\ part = "batches" => Batch!IInv
  /\ part = "moves" => Move!IInv
  /\ part = "browser" => Browser!TypeOK

\* No file is lost, whatever fails and wherever the API dies: by a single
\* operation (FileMutations), by a batch (FileBatches), or by a move that copies
\* a tree to another file system and removes it entry by entry (MovePath).
FilesAreKept == Typed /\ NothingLost /\ Batch!FilesSurvive /\ Move!NoEntryLost

\* What is recorded or reported of an operation is what happened to the files:
\* an applied item was moved by that item, a completed one is recorded, one that
\* failed was not moved, a batch tells what became of its items and a cancelled
\* one settles (FileBatches), a listed trash entry is in the
\* trash (FileMutations), and movePath reports what it did (MovePath).
ReportsAreTrue ==
  /\ Batch!AppliedWasMoved /\ Batch!CompletedIsRecorded /\ Batch!BatchTellsItems
  /\ Batch!FailedKeepsSource /\ Batch!CancelledBatchSettles
  /\ Two!TrashIsListed
  /\ Move!ReportIsTrue

\* A change does what it is for and nothing else: what a trash rollback brings back
\* is what the operation took away, a trash entry that two handlers race to restore
\* stays restored (FileMutations), a failed upload or extraction removes only what
\* it made (FileRoutes), the target of a move appears whole (MovePath), and a batch
\* that has ended starts no item and keeps its status (FileBatches).
ChangesAreExact ==
  /\ TrashRollbackReturnsFile /\ Two!RestoredStays
  /\ Route!CleanupRemovesOnlyOwn
  /\ Move!TargetAppearsWhole
  /\ Batch!EndedBatchesStay

\* What the user is shown of a file is that file: a cached video is in use while
\* a response reads it and the response has the bytes of its range (FileRoutes),
\* the token of an export is good for one answer (FileRoutes), the preview is of
\* the selected file, and an upload batch says what became of its items
\* (FileBrowser).
FilesAreShownAsTheyAre ==
  /\ Route!ExportServedOnce
  /\ Route!VideoUsesAreCounted /\ Route!RangesAreExact
  /\ Browser!PreviewIsOfSelection /\ Browser!UploadsTellTheTruth
=============================================================================
