------------------------- MODULE FileBatchesProofs --------------------------
(***************************************************************************)
(* Proofs about FileBatches for any batches, paths and plans, any number   *)
(* of crashes, with and without the deletion of sessions.                  *)
(*                                                                         *)
(* The inductive invariant IInv says where the runner is with its item,    *)
(* and what each batch, each item and the counts say of one another.       *)
(***************************************************************************)
EXTENDS FileBatches, FiniteSetTheorems, TLAPS

(* The runner works on one item, whose batch is running or was cancelled   *)
(* or deleted under it; what it has done so far is on disk and in the      *)
(* tables.                                                                 *)
RunnerInv ==
  /\ \A i \in current :
       /\ current = {i}
       /\ job[i[1]] \in {"running", "cancelled", "deleted"}
       /\ item[i] = "running" \/ (job[i[1]] = "deleted" /\ item[i] = "none")
       /\ runner = "copied" => fs[Src(i)] = fs[Dst(i)]
       /\ runner \in {"trashed", "recorded"} /\ Op(i) = "trash" => i \in trashRows
       /\ runner = "recorded" => i \in ops
  /\ runner = "down" => crashes > 0

(* A batch is posted once; its items exist from then until its session is  *)
(* deleted, and are cancelled only with it.                                *)
BatchInv(b) ==
  /\ job[b] # "waiting_approval"
  /\ b \in posting => job[b] = "none"
  /\ b \in busy => job[b] = "cancelled"
  /\ job[b] = "none" => done[b] = 0 /\ \A i \in ItemsOf(b) : i \notin moved
  /\ \A i \in ItemsOf(b) :
       /\ item[i] = "none" <=> ~Rows(b)
       /\ item[i] = "cancelled" => job[b] = "cancelled"

(* What the tables say of an item that has been moved, and, as long as the *)
(* API has not died, who works on an item that is running.                 *)
ItemInv(i) ==
  /\ i \in ops /\ Op(i) = "trash" => i \in trashRows
  /\ crashes = 0 =>
       /\ item[i] = "running" => i \in current
       /\ i \in moved =>
            \/ item[i] \in {"completed", "none"}
            \/ i \in current /\ runner \in {"found", "trashed", "recorded"}
       /\ job[i[1]] = "cancelled" /\ i[1] \notin busy => item[i] # "queued"

IInv ==
  /\ TypeOK /\ RunnerInv
  /\ \A b \in Batches : BatchInv(b)
  /\ \A i \in Items : ItemInv(i)
  /\ FilesSurvive /\ CompletedIsRecorded /\ BatchTellsItems

-----------------------------------------------------------------------------
(* The items of the plan and their paths.                                  *)

(* An item belongs to the batch it names.                                  *)
LEMMA PlanFacts ==
  /\ \A b \in Batches : Len(Plan[b]) \in Nat
  /\ \A i \in Items : i[1] \in Batches /\ i \in ItemsOf(i[1])
  /\ \A b \in Batches : \A i \in ItemsOf(b) : i \in Items /\ i[1] = b
  <1>1. \A b \in Batches : Len(Plan[b]) \in Nat
    BY PlanAssumption
  <1>2. ASSUME NEW i \in Items PROVE i[1] \in Batches /\ i \in ItemsOf(i[1])
    <2>1. PICK b \in Batches : i \in {b} \X (1 .. Len(Plan[b]))
      BY Zenon DEF Items
    <2> QED BY <2>1 DEF ItemsOf
  <1>3. ASSUME NEW b \in Batches, NEW i \in ItemsOf(b) PROVE i \in Items /\ i[1] = b
    BY Zenon DEF Items, ItemsOf
  <1> QED BY <1>1, <1>2, <1>3

(* The elements of a sequence of members of a set are members.             *)
LEMMA ElementOf ==
  ASSUME NEW S, NEW s \in Seq(S), NEW k \in 1 .. Len(s) PROVE s[k] \in S
  OBVIOUS

(* An item's operation moves a file of the pool to another path.           *)
LEMMA PathFacts ==
  ASSUME NEW i \in Items
  PROVE  /\ Src(i) \in Sources /\ Src(i) \in Paths /\ Dst(i) \in Paths
         /\ Src(i) # Dst(i) /\ Op(i) \in {"move", "trash"}
  <1>1. PICK b \in Batches : i \in {b} \X (1 .. Len(Plan[b]))
    BY Zenon DEF Items
  <1>2. i[1] = b /\ i[2] \in 1 .. Len(Plan[b])
    BY <1>1, Zenon
  <1>3. Plan[b] \in Seq([src : Paths, dst : Paths, op : {"move", "trash"}])
    BY PlanAssumption, Zenon
  <1>4. Plan[b][i[2]] \in [src : Paths, dst : Paths, op : {"move", "trash"}]
    BY <1>2, <1>3, ElementOf, Zenon
  <1>5. Src(i) \in Sources
    BY Zenon DEF Sources
  <1>6. Dst(i) \notin Sources
    BY PlanAssumption, Zenon
  <1> QED BY <1>2, <1>4, <1>5, <1>6 DEF Src, Dst, Op

(* The sources of the items are paths of the pool.                         *)
LEMMA SourcesArePaths == Sources \subseteq Paths /\ NoFile \notin Sources
  BY PathFacts, PlanAssumption, Zenon DEF Sources

(* Counting the settled items of a batch.                                  *)

(* What the counts of items need of the theory of finite sets;             *)
(* CountingHolds shows it.                                                 *)
Counting ==
  /\ Cardinality({}) = 0
  /\ \A b \in Batches : \A S \in SUBSET ItemsOf(b) : Cardinality(S) \in Nat

(* refreshBatchCounts counts items: its result is a natural number.        *)
LEMMA CountType ==
  ASSUME Counting, NEW b \in Batches, NEW st PROVE CountOf(b, st) \in Nat
  <1>1. {i \in ItemsOf(b) : st[i] \in SettledItem} \in SUBSET ItemsOf(b)
    BY Zenon
  <1> QED BY <1>1 DEF Counting, CountOf

(* The count only depends on which items are settled.                      *)
LEMMA CountSame ==
  ASSUME NEW b \in Batches, NEW st, NEW after,
         \A i \in ItemsOf(b) : st[i] \in SettledItem <=> after[i] \in SettledItem
  PROVE  CountOf(b, st) = CountOf(b, after)
  <1>1. {i \in ItemsOf(b) : st[i] \in SettledItem}
          = {i \in ItemsOf(b) : after[i] \in SettledItem}
    BY Zenon
  <1> QED BY <1>1 DEF CountOf

-----------------------------------------------------------------------------
(* What BatchTellsItems says of one batch, and when a step leaves it true: *)
(* nothing is settled or becomes active again, and the batch does not end. *)
Tells(b) ==
  Rows(b) =>
     /\ done[b] = CountOf(b, item)
     /\ job[b] = "completed" => \A i \in ItemsOf(b) : item[i] = "completed"
     /\ job[b] = "failed" => /\ \E i \in ItemsOf(b) : item[i] = "failed"
                             /\ \A i \in ItemsOf(b) : item[i] \in SettledItem

(* Such a step leaves what the batch says of its items true.               *)
LEMMA TellsKept ==
  ASSUME NEW b \in Batches, Tells(b), Rows(b)' => Rows(b), done'[b] = done[b],
         \A i \in ItemsOf(b) : item[i] \in SettledItem <=> item'[i] \in SettledItem,
         \/ job'[b] \notin {"completed", "failed"}
         \/ job'[b] = job[b] /\ \A i \in ItemsOf(b) : item'[i] = item[i]
  PROVE  Tells(b)'
  <1>1. CountOf(b, item) = CountOf(b, item')
    BY CountSame, Zenon
  <1>2. CASE job'[b] \notin {"completed", "failed"}
    BY <1>1, <1>2, Zenon DEF Tells
  <1>3. CASE job'[b] = job[b] /\ \A i \in ItemsOf(b) : item'[i] = item[i]
    BY <1>1, <1>3, Zenon DEF Tells
  <1> QED BY <1>2, <1>3

(* What the rows and the runner say of each other.                         *)
RowsInv ==
  /\ RunnerInv
  /\ \A b \in Batches : BatchInv(b)
  /\ \A i \in Items : ItemInv(i)
  /\ CompletedIsRecorded /\ BatchTellsItems

(* The steps of the runner that write no row of the batch.                 *)
LEMMA WorkKeepsRows ==
  ASSUME IInv, UNCHANGED <<rows, posting, current, busy, crashes>>, TypeOK',
         \/ DrainEnds
         \/ \E i \in Items : \/ Recover(i) \/ Apply(i) \/ RemoveSource(i)
                             \/ RecordTrash(i) \/ RecordOperation(i)
  PROVE  RowsInv'
  <1>0. /\ TypeOK /\ RunnerInv /\ CompletedIsRecorded /\ BatchTellsItems
        /\ \A b \in Batches : BatchInv(b)
        /\ \A i \in Items : ItemInv(i)
        /\ job' = job /\ item' = item /\ done' = done
        /\ posting' = posting /\ current' = current /\ busy' = busy /\ crashes' = crashes
    BY Zenon DEF IInv, rows
  <1>1. BatchTellsItems'
    BY <1>0, Zenon DEF BatchTellsItems, Rows
  <1>2. CASE DrainEnds
    <2>1. /\ runner = "drain" /\ runner' = "idle" /\ moved' = moved
          /\ ops' = ops /\ trashRows' = trashRows
      BY <1>2, Zenon DEF DrainEnds, records, disk
    <2>2. RunnerInv' /\ CompletedIsRecorded'
      BY <1>0, <2>1, Zenon DEF RunnerInv, CompletedIsRecorded
    <2>3. \A b \in Batches : BatchInv(b)'
      BY <1>0, <2>1, Zenon DEF BatchInv, Rows
    <2>4. \A i \in Items : ItemInv(i)'
      BY <1>0, <2>1, Zenon DEF ItemInv
    <2> QED BY <1>1, <2>2, <2>3, <2>4 DEF RowsInv
  <1>3. ASSUME NEW i \in Items, \/ Recover(i) \/ Apply(i) \/ RemoveSource(i)
                                \/ RecordTrash(i) \/ RecordOperation(i)
        PROVE  RowsInv'
    <2>0. /\ current = {i} /\ current' = {i}
          /\ ~Finish(i, "completed") /\ ~Finish(i, "failed")
      <3>1. current = {i}
        BY <1>3, Zenon DEF Recover, Apply, RemoveSource, RecordTrash, RecordOperation
      <3>2. \A to \in {"completed", "failed"} : Finish(i, to) => current' = {}
        BY Zenon DEF Finish
      <3> QED BY <1>0, <3>1, <3>2
    <2>1. /\ runner' \notin {"down", "idle", "drain"}
          /\ i[1] \in Batches /\ i \in ItemsOf(i[1])
          /\ job[i[1]] \in {"running", "cancelled", "deleted"}
          /\ runner \in {"claimed", "apply", "copied", "found", "trashed"}
          /\ runner' \in {"apply", "copied", "found", "trashed", "recorded"}
      BY <1>0, <1>3, <2>0, PlanFacts, Zenon
      DEF Recover, Apply, RemoveSource, RecordTrash, RecordOperation, RunnerInv, Inspect
    <2>2. /\ moved' = moved \/ (moved' = moved \cup {i} /\ runner' = "found")
          /\ ops' = ops \/ (ops' = ops \cup {i} /\ runner = "trashed")
          /\ trashRows' = trashRows \/ trashRows' = trashRows \cup {i}
          /\ runner \in {"found", "trashed"} => runner' \in {"trashed", "recorded"}
          /\ runner' = "recorded" <=> runner = "trashed"
          /\ runner' = "trashed" <=> runner = "found"
          /\ runner' = "trashed" /\ Op(i) = "trash" => i \in trashRows'
          /\ runner' = "recorded" => i \in ops'
      BY <1>3, <2>0, Zenon
      DEF Recover, Apply, RemoveSource, RecordTrash, RecordOperation, Inspect, records, disk
    <2>3. runner' = "copied" => fs'[Src(i)] = fs'[Dst(i)]
      BY <1>0, <1>3, <2>0, PathFacts, Zenon
      DEF Recover, Apply, RemoveSource, RecordTrash, RecordOperation, Inspect, TypeOK, disk
    <2>4. RunnerInv'
      BY <1>0, <2>0, <2>1, <2>2, <2>3, Zenon DEF RunnerInv
    <2>5. \A b \in Batches : BatchInv(b)'
      BY <1>0, <2>0, <2>1, <2>2, PlanFacts DEF BatchInv, Rows
    <2>6. ASSUME NEW j \in Items PROVE ItemInv(j)'
      <3>1. CASE j = i
        BY <1>0, <2>0, <2>1, <2>2, <3>1, Zenon DEF ItemInv, RunnerInv
      <3>2. CASE j # i
        BY <1>0, <2>0, <2>1, <2>2, <3>2, Zenon DEF ItemInv
      <3> QED BY <3>1, <3>2
    <2>7. CompletedIsRecorded'
      BY <1>0, <2>2, Zenon DEF CompletedIsRecorded
    <2> QED BY <1>1, <2>4, <2>5, <2>6, <2>7 DEF RowsInv
  <1> QED BY <1>2, <1>3

(* The handlers of the API.                                                *)
LEMMA HandlersKeepRows ==
  ASSUME Counting, IInv, NEW b \in Batches,
         \/ ValidateBatch(b) \/ CreateBatch(b) \/ CancelJob(b)
         \/ CancelQueuedItems(b) \/ DeleteSession(b)
  PROVE  RowsInv'
  <1> USE DEF IInv, rows, records, disk
  <1>0. /\ \A j \in Items : j[1] \in Batches /\ j \in ItemsOf(j[1])
        /\ \A c \in Batches : \A j \in ItemsOf(c) : j \in Items /\ j[1] = c
    BY PlanFacts, Zenon
  <1>2. CASE ValidateBatch(b) \/ (CreateBatch(b) /\ ~SourcesAreFree(b))
    <2>1. /\ \A c \in posting' : c \in posting \/ job[c] = "none"
          /\ UNCHANGED <<job, item, done, ops, trashRows, fs, moved, runner, current, busy, crashes>>
      BY <1>2, Zenon DEF ValidateBatch, CreateBatch
    <2>2. RunnerInv' /\ CompletedIsRecorded' /\ BatchTellsItems'
      BY <2>1, ZenonT(60) DEF RunnerInv, CompletedIsRecorded, BatchTellsItems, Rows
    <2>3. \A c \in Batches : BatchInv(c)'
      BY <2>1, Zenon DEF BatchInv, Rows
    <2>4. \A j \in Items : ItemInv(j)'
      BY <2>1, Zenon DEF ItemInv
    <2> QED BY <2>2, <2>3, <2>4 DEF RowsInv
  <1>3. CASE CreateBatch(b) /\ SourcesAreFree(b)
    <2>1. /\ job[b] = "none" /\ job' = [job EXCEPT ![b] = "queued"]
          /\ item' = [j \in Items |-> IF j[1] = b THEN "queued" ELSE item[j]]
          /\ posting' = posting \ {b}
          /\ runner' = runner \/ (runner = "idle" /\ runner' = "drain")
          /\ UNCHANGED <<done, records, disk, current, busy, crashes>>
      BY <1>3, Zenon DEF CreateBatch, WakeRunner, BatchInv
    <2>2. /\ job'[b] = "queued" /\ \A c \in Batches : c # b => job'[c] = job[c]
          /\ \A j \in ItemsOf(b) : item'[j] = "queued"
          /\ \A j \in Items : j[1] # b => item'[j] = item[j]
      BY <1>0, <2>1, Zenon DEF TypeOK
    <2>3. \A j \in Items : j[1] = b => j \notin moved /\ j \notin current
      BY <1>0, <2>1, Zenon DEF BatchInv, RunnerInv
    <2>4. RunnerInv'
      BY <1>0, <2>1, <2>2, <2>3 DEF RunnerInv, TypeOK
    <2>5. \A c \in Batches : BatchInv(c)'
      BY <1>0, <2>1, <2>2 DEF BatchInv, Rows
    <2>6. \A j \in Items : ItemInv(j)'
      BY <1>0, <2>1, <2>2, <2>3, ZenonT(60) DEF ItemInv
    <2>7. CompletedIsRecorded'
      BY <1>0, <2>1, <2>2, Zenon DEF CompletedIsRecorded
    <2>8. ASSUME NEW c \in Batches, c # b PROVE Tells(c)'
      <3>1. job'[c] = job[c] /\ done'[c] = done[c] /\ \A j \in ItemsOf(c) : item'[j] = item[j]
        BY <1>0, <2>1, <2>2, <2>8
      <3>2. Tells(c) /\ (Rows(c)' => Rows(c))
        BY <3>1, Zenon DEF BatchTellsItems, Tells, Rows
      <3> QED BY <3>1, <3>2, TellsKept
    <2>9. Tells(b)'
      <3>1. {j \in ItemsOf(b) : item'[j] \in SettledItem} = {}
        BY <2>2, Zenon DEF SettledItem
      <3>2. CountOf(b, item') = 0
        BY <3>1, Zenon DEF CountOf, Counting
      <3>3. done'[b] = 0
        BY <2>1, Zenon DEF BatchInv
      <3> QED BY <2>2, <3>2, <3>3 DEF Tells
    <2>10. BatchTellsItems'
      BY <2>8, <2>9, Zenon DEF BatchTellsItems, Tells
    <2> QED BY <2>4, <2>5, <2>6, <2>7, <2>10 DEF RowsInv
  <1>4. CASE CancelJob(b)
    <2>1. /\ job[b] \in {"queued", "running"} /\ job' = [job EXCEPT ![b] = "cancelled"]
          /\ busy' = {b} /\ busy = {}
          /\ UNCHANGED <<item, done, posting, records, disk, runner, current, crashes>>
      BY <1>4, Zenon DEF CancelJob, Free, ActiveJobStatus, BatchInv
    <2>2. job'[b] = "cancelled" /\ \A c \in Batches : c # b => job'[c] = job[c]
      BY <2>1, Zenon DEF TypeOK
    <2>3. RunnerInv'
      BY <1>0, <2>1, <2>2 DEF RunnerInv, TypeOK
    <2>4. \A c \in Batches : BatchInv(c)'
      BY <2>1, <2>2, Zenon DEF BatchInv, Rows
    <2>5. \A j \in Items : ItemInv(j)'
      BY <1>0, <2>1, <2>2, Zenon DEF ItemInv
    <2>6. CompletedIsRecorded' /\ BatchTellsItems'
      BY <2>1, <2>2, Zenon DEF CompletedIsRecorded, BatchTellsItems, Rows
    <2> QED BY <2>3, <2>4, <2>5, <2>6 DEF RowsInv
  <1>5. CASE CancelQueuedItems(b)
    <2>1. /\ busy = {b} /\ busy' = {} /\ job[b] = "cancelled"
          /\ item' = [j \in Items |-> IF j[1] = b /\ item[j] = "queued"
                                      THEN "cancelled" ELSE item[j]]
          /\ done' = [done EXCEPT ![b] = CountOf(b, item')]
          /\ UNCHANGED <<job, posting, records, disk, runner, current, crashes>>
      BY <1>5, Zenon DEF CancelQueuedItems, BatchInv
    <2>2. /\ done'[b] = CountOf(b, item') /\ \A c \in Batches : c # b => done'[c] = done[c]
          /\ \A j \in Items : item'[j] = IF j[1] = b /\ item[j] = "queued"
                                         THEN "cancelled" ELSE item[j]
      BY <2>1, Zenon DEF TypeOK
    <2>3. RunnerInv'
      BY <2>1, <2>2, Zenon DEF RunnerInv, TypeOK
    <2>4. \A c \in Batches : BatchInv(c)'
      BY <1>0, <2>1, <2>2 DEF BatchInv, Rows
    <2>5. \A j \in Items : ItemInv(j)'
      BY <1>0, <2>1, <2>2, Zenon DEF ItemInv
    <2>6. CompletedIsRecorded'
      BY <2>1, <2>2, Zenon DEF CompletedIsRecorded
    <2>7. ASSUME NEW c \in Batches, c # b PROVE Tells(c)'
      <3>1. job'[c] = job[c] /\ done'[c] = done[c] /\ \A j \in ItemsOf(c) : item'[j] = item[j]
        BY <1>0, <2>1, <2>2, <2>7, Zenon
      <3>2. Tells(c) /\ (Rows(c)' => Rows(c))
        BY <3>1, Zenon DEF BatchTellsItems, Tells, Rows
      <3> QED BY <3>1, <3>2, TellsKept
    <2>8. Tells(b)'
      BY <2>1, <2>2, Zenon DEF Tells, Rows
    <2>9. BatchTellsItems'
      BY <2>7, <2>8, Zenon DEF BatchTellsItems, Tells
    <2> QED BY <2>3, <2>4, <2>5, <2>6, <2>9 DEF RowsInv
  <1>6. CASE DeleteSession(b)
    <2>1. /\ job[b] \in TerminalJobStatus /\ job' = [job EXCEPT ![b] = "deleted"]
          /\ item' = [j \in Items |-> IF j[1] = b THEN "none" ELSE item[j]]
          /\ busy = {}
          /\ UNCHANGED <<done, posting, records, disk, runner, current, busy, crashes>>
      BY <1>6, Zenon DEF DeleteSession, Free
    <2>2. /\ job'[b] = "deleted" /\ \A c \in Batches : c # b => job'[c] = job[c]
          /\ \A j \in Items : item'[j] = IF j[1] = b THEN "none" ELSE item[j]
      BY <2>1, Zenon DEF TypeOK
    <2>3. RunnerInv'
      BY <1>0, <2>1, <2>2 DEF RunnerInv, TypeOK
    <2>4. \A c \in Batches : BatchInv(c)'
      BY <1>0, <2>1, <2>2 DEF BatchInv, Rows, TerminalJobStatus
    <2>5. \A j \in Items : ItemInv(j)'
      BY <1>0, <2>1, <2>2, Zenon DEF ItemInv
    <2>6. CompletedIsRecorded'
      BY <2>1, <2>2, Zenon DEF CompletedIsRecorded
    <2>7. ASSUME NEW c \in Batches, c # b PROVE Tells(c)'
      <3>1. job'[c] = job[c] /\ done'[c] = done[c] /\ \A j \in ItemsOf(c) : item'[j] = item[j]
        BY <1>0, <2>1, <2>2, <2>7, Zenon
      <3>2. Tells(c) /\ (Rows(c)' => Rows(c))
        BY <3>1, Zenon DEF BatchTellsItems, Tells, Rows
      <3> QED BY <3>1, <3>2, TellsKept
    <2>8. Tells(b)'
      BY <2>1, <2>2, Zenon DEF Tells, Rows
    <2>9. BatchTellsItems'
      BY <2>7, <2>8, Zenon DEF BatchTellsItems, Tells
    <2> QED BY <2>3, <2>4, <2>5, <2>6, <2>9 DEF RowsInv
  <1> QED BY <1>2, <1>3, <1>4, <1>5, <1>6

(* What the notification rules return is a notification status.            *)
LEMMA NoteType ==
  ASSUME NEW note0 \in NotificationStatus,
         NEW to \in {"running", "completed", "failed", "cancelled"}
  PROVE  NotifyJob(note0, to) \in NotificationStatus
  BY Zenon DEF NotifyJob, NotifyAs, NotificationForJob, NotificationStatus

(* finishFileBatchItem: the item gets its status unless its rows are gone, *)
(* with a cancelled batch its queued items end too, and a batch without    *)
(* active items ends.  No other batch is touched.                          *)
LEMMA FinishFacts ==
  ASSUME Counting, TypeOK, RunnerInv, NEW i \in Items, current = {i},
         NEW to \in {"completed", "failed"}, Finish(i, to)
  PROVE  LET b == i[1] IN
         /\ current' = {} /\ runner' \in {"idle", "drain"} /\ order' = order
         /\ job' \in [Batches -> JobStatus] /\ item' \in [Items -> ItemStatus]
         /\ done' \in [Batches -> Nat] /\ note' \in [Batches -> NotificationStatus]
         /\ \A c \in Batches : c # b => job'[c] = job[c] /\ done'[c] = done[c]
         /\ \A j \in Items : j[1] # b => item'[j] = item[j]
         /\ job[b] = "deleted" => job' = job /\ item' = item /\ done' = done
         /\ job[b] # "deleted" =>
              /\ item'[i] = to
              /\ \A j \in ItemsOf(b) \ {i} :
                   item'[j] = IF job[b] = "cancelled" /\ item[j] = "queued"
                              THEN "cancelled" ELSE item[j]
              /\ done'[b] = CountOf(b, item')
              /\ \/ job'[b] = job[b] /\ \E j \in ItemsOf(b) : item'[j] \in ActiveItem
                 \/ /\ job'[b] = FinalStatus(b, item')
                    /\ \A j \in ItemsOf(b) : item'[j] \notin ActiveItem
  <1> DEFINE b == i[1]
             after == [j \in Items |->
                         CASE j = i /\ item[i] = "running"       -> to
                           [] /\ j[1] = b /\ j # i
                              /\ job[b] = "cancelled"
                              /\ item[j] = "queued"             -> "cancelled"
                           [] OTHER                             -> item[j]]
             active == \E j \in ItemsOf(b) : after[j] \in ActiveItem
             final == FinalStatus(b, after)
  <1>1. b \in Batches /\ job[b] \in {"running", "cancelled", "deleted"}
    BY PlanFacts, Zenon DEF RunnerInv
  <1>2. CASE job[b] = "deleted"
    <2>1. ~Rows(b)
      BY <1>2, Zenon DEF Rows
    <2>2. current' = {} /\ runner' = "idle" /\ UNCHANGED <<job, item, done, note, order>>
      BY <2>1, Zenon DEF Finish
    <2> QED BY <1>2, <2>2 DEF TypeOK
  <1>3. CASE job[b] # "deleted"
    <2>1. Rows(b) /\ item[i] = "running"
      BY <1>1, <1>3, Zenon DEF Rows, RunnerInv
    <2>2. /\ current' = {} /\ runner' = "drain" /\ order' = order /\ item' = after
          /\ done' = [done EXCEPT ![b] = CountOf(b, after)]
          /\ job' = [job EXCEPT ![b] = IF active THEN @ ELSE final]
          /\ note' = [note EXCEPT ![b] = IF active THEN @ ELSE NotifyJob(@, final)]
      BY <2>1, Zenon DEF Finish
    <2>3. final \in {"completed", "failed", "cancelled"}
      BY Zenon DEF FinalStatus
    <2>4. CountOf(b, after) \in Nat
      BY <1>1, CountType, Zenon
    <2>5. after \in [Items -> ItemStatus]
      BY Zenon DEF TypeOK, ItemStatus
    <2>6. after[i] = to
      BY <2>1, Zenon
    <2>7. \A j \in Items : j[1] # b => after[j] = item[j]
      BY Zenon
    <2>8. \A j \in ItemsOf(b) \ {i} :
            after[j] = IF job[b] = "cancelled" /\ item[j] = "queued" THEN "cancelled" ELSE item[j]
      BY <1>1, PlanFacts, Zenon
    <2>9. active <=> \E j \in ItemsOf(b) : after[j] \in ActiveItem
      BY Zenon
    <2> HIDE DEF after, active, final
    <2>10. note' \in [Batches -> NotificationStatus]
      <3>1. NotifyJob(note[b], final) \in NotificationStatus
        BY <1>1, <2>3, NoteType, Zenon DEF TypeOK
      <3> QED BY <1>1, <2>2, <3>1 DEF TypeOK
    <2>11. job' \in [Batches -> JobStatus] /\ done' \in [Batches -> Nat]
      <3>1. final \in JobStatus
        BY <2>3, Zenon DEF JobStatus, TerminalJobStatus
      <3> QED BY <1>1, <2>2, <2>4, <3>1 DEF TypeOK
    <2>12. job'[b] = (IF active THEN job[b] ELSE final) /\ done'[b] = CountOf(b, item')
      BY <1>1, <2>2, Zenon DEF TypeOK
    <2>13. \A c \in Batches : c # b => job'[c] = job[c] /\ done'[c] = done[c]
      BY <2>2, Zenon DEF TypeOK
    <2>14. final = FinalStatus(b, item')
      BY <2>2, Zenon DEF final
    <2> QED
      BY <1>3, <2>2, <2>5, <2>6, <2>7, <2>8, <2>9, <2>10, <2>11, <2>12, <2>13, <2>14, Zenon
  <1> QED BY <1>2, <1>3
(* The rows after finishFileBatchItem agree again, whatever became of the  *)
(* files: an item ends as completed only with its operation recorded, and  *)
(* as failed only before it is applied.                                    *)
LEMMA FinishKeepsRows ==
  ASSUME Counting, IInv, NEW i \in Items, current = {i}, NEW to \in {"completed", "failed"},
         Finish(i, to), UNCHANGED <<posting, records, moved, busy, crashes>>,
         to = "completed" => i \in ops,
         to = "failed" => runner \notin {"found", "trashed", "recorded"}
  PROVE  /\ RunnerInv'
         /\ \A b \in Batches : BatchInv(b)'
         /\ \A j \in Items : ItemInv(j)'
         /\ CompletedIsRecorded' /\ BatchTellsItems'
  <1> DEFINE b == i[1]
  <1>0. /\ TypeOK /\ RunnerInv /\ CompletedIsRecorded /\ BatchTellsItems
        /\ \A c \in Batches : BatchInv(c)
        /\ \A j \in Items : ItemInv(j)
    BY Zenon DEF IInv
  <1>1. /\ b \in Batches /\ i \in ItemsOf(b) /\ job[b] \in {"running", "cancelled", "deleted"}
        /\ item[i] = "running" \/ (job[b] = "deleted" /\ item[i] = "none")
    BY <1>0, PlanFacts, Zenon DEF RunnerInv
  <1>2. /\ current' = {} /\ runner' \in {"idle", "drain"}
        /\ item' \in [Items -> ItemStatus]
        /\ \A c \in Batches : c # b => job'[c] = job[c] /\ done'[c] = done[c]
        /\ \A j \in Items : j[1] # b => item'[j] = item[j]
        /\ job[b] = "deleted" => job' = job /\ item' = item /\ done' = done
    BY <1>0, FinishFacts, ZenonT(60)
  <1>3. job[b] # "deleted" =>
          /\ item'[i] = to
          /\ \A j \in ItemsOf(b) \ {i} :
               item'[j] = IF job[b] = "cancelled" /\ item[j] = "queued"
                          THEN "cancelled" ELSE item[j]
          /\ done'[b] = CountOf(b, item')
          /\ \/ job'[b] = job[b] /\ \E j \in ItemsOf(b) : item'[j] \in ActiveItem
             \/ /\ job'[b] = FinalStatus(b, item')
                /\ \A j \in ItemsOf(b) : item'[j] \notin ActiveItem
    BY <1>0, FinishFacts, Zenon
  <1>4. job[b] # "deleted" => /\ job'[b] \in {"running", "completed", "failed", "cancelled"}
                              /\ job'[b] = "cancelled" <=> job[b] = "cancelled"
    BY <1>1, <1>3, Zenon DEF FinalStatus
  <1>5. \A c \in Batches : \A j \in ItemsOf(c) : j \in Items /\ j[1] = c
    BY PlanFacts, Zenon
  <1>6. RunnerInv'
    BY <1>0, <1>2, Zenon DEF RunnerInv
  <1>7. ASSUME NEW c \in Batches PROVE BatchInv(c)'
    <2>1. CASE c # b
      BY <1>0, <1>2, <1>5, <2>1 DEF BatchInv, Rows
    <2>2. CASE c = b /\ job[b] = "deleted"
      BY <1>0, <1>2, <2>2 DEF BatchInv, Rows
    <2>3. CASE c = b /\ job[b] # "deleted"
      <3>1. Rows(b) /\ Rows(b)' /\ b \notin posting
        BY <1>0, <1>1, <1>4, <2>3, Zenon DEF BatchInv, Rows
      <3>2. \A j \in ItemsOf(b) : item[j] # "none" /\ (item[j] = "cancelled" => job[b] = "cancelled")
        BY <1>0, <1>1, <3>1, Zenon DEF BatchInv
      <3>3. \A j \in ItemsOf(b) : item'[j] # "none" /\ (item'[j] = "cancelled" => job'[b] = "cancelled")
        BY <1>3, <1>4, <2>3, <3>2, Zenon
      <3>4. b \in busy => job[b] = "cancelled"
        BY <1>0, <1>1, Zenon DEF BatchInv
      <3> QED BY <1>4, <2>3, <3>1, <3>3, <3>4 DEF BatchInv
    <2> QED BY <2>1, <2>2, <2>3
  <1>8. ASSUME NEW j \in Items PROVE ItemInv(j)'
    <2>1. ItemInv(j) /\ current' = {} /\ j[1] \in Batches /\ ops' = ops /\ trashRows' = trashRows
      BY <1>0, <1>2, PlanFacts, Zenon DEF records
    <2>2. CASE j[1] # b
      BY <1>2, <2>1, <2>2, Zenon DEF ItemInv
    <2>3. CASE job[b] = "deleted"
      <3>1. item' = item /\ job' = job /\ item[i] = "none"
        BY <1>0, <1>1, <1>2, <2>3, Zenon DEF BatchInv, Rows
      <3>2. CASE j = i
        BY <2>1, <3>1, <3>2, Zenon DEF ItemInv
      <3>3. CASE j # i
        BY <2>1, <3>1, <3>3, Zenon DEF ItemInv
      <3> QED BY <3>2, <3>3
    <2>4. CASE j[1] = b /\ j # i /\ job[b] # "deleted"
      <3>1. item'[j] = IF job[b] = "cancelled" /\ item[j] = "queued" THEN "cancelled" ELSE item[j]
        BY <1>3, <2>4, PlanFacts, Zenon
      <3> QED BY <1>4, <2>1, <2>4, <3>1 DEF ItemInv
    <2>5. CASE j = i /\ job[b] # "deleted"
      <3>1. item'[i] = to
        BY <1>3, <2>5, Zenon
      <3> QED BY <1>1, <2>1, <2>5, <3>1 DEF ItemInv
    <2> QED BY <2>2, <2>3, <2>4, <2>5
  <1>9. CompletedIsRecorded'
    <2>1. \A j \in Items : item'[j] = "completed" => item[j] = "completed" \/ (j = i /\ to = "completed")
      BY <1>1, <1>2, <1>3, PlanFacts, Zenon
    <2> QED BY <1>0, <2>1 DEF CompletedIsRecorded, ItemInv, records
  <1>10. ASSUME NEW c \in Batches PROVE Tells(c)'
    <2>1. CASE c # b \/ job[b] = "deleted"
      <3>1. job'[c] = job[c] /\ done'[c] = done[c] /\ \A j \in ItemsOf(c) : item'[j] = item[j]
        BY <1>2, <1>5, <2>1, Zenon
      <3>2. Tells(c) /\ (Rows(c)' => Rows(c))
        BY <1>0, <3>1, Zenon DEF BatchTellsItems, Tells, Rows
      <3> QED BY <3>1, <3>2, TellsKept
    <2>2. CASE c = b /\ job[b] # "deleted"
      <3>1. \A j \in ItemsOf(b) : item'[j] # "none" /\ (item'[j] = "cancelled" => job'[b] = "cancelled")
        BY <1>1, <1>4, <1>7, <2>2, Zenon DEF BatchInv, Rows
      <3>2. \A j \in ItemsOf(b) : item'[j] \in ItemStatus
        BY <1>1, <1>2, <1>5, Zenon
      <3> QED
        BY <1>1, <1>3, <2>2, <3>1, <3>2, Zenon
           DEF Tells, FinalStatus, ItemStatus, SettledItem, ActiveItem
    <2> QED BY <2>1, <2>2
  <1>11. BatchTellsItems'
    BY <1>10, Zenon DEF BatchTellsItems, Tells
  <1> QED BY <1>6, <1>7, <1>8, <1>9, <1>11

(* The items of a batch are finitely many.                                 *)
LEMMA CountingHolds == Counting
  <1>1. Cardinality({}) = 0
    BY FS_EmptySet, Zenon
  <1>2. ASSUME NEW b \in Batches, NEW S \in SUBSET ItemsOf(b) PROVE Cardinality(S) \in Nat
    <2>1. IsFiniteSet(1 .. Len(Plan[b])) /\ IsFiniteSet({b})
      <3>1. Len(Plan[b]) \in Int /\ 1 \in Int
        BY PlanFacts
      <3> QED BY <3>1, FS_Interval, FS_Singleton, Zenon
    <2>2. IsFiniteSet(ItemsOf(b))
      BY <2>1, FS_Product, Zenon DEF ItemsOf
    <2>3. IsFiniteSet(S)
      BY <2>2, FS_Subset, Zenon
    <2> QED BY <2>3, FS_CardinalityType, Zenon
  <1> QED BY <1>1, <1>2, Zenon DEF Counting

(* An item that is applied, or given up, takes its file along or leaves    *)
(* it: the copy is complete before the source is removed, and removed      *)
(* itself only while the source is there.                                  *)
LEMMA FilesStep ==
  ASSUME IInv, [Next]_vars
  PROVE  fs' \in [Paths -> Sources \cup {NoFile}] /\ FilesSurvive'
  <1> USE DEF IInv
  <1>1. fs \in [Paths -> Sources \cup {NoFile}]
    BY Zenon DEF TypeOK
  <1>2. CASE UNCHANGED fs
    BY <1>1, <1>2, Zenon DEF FilesSurvive
  <1>3. ASSUME NEW i \in Items, Apply(i), fs' # fs
        PROVE  FilesSurvive' /\ fs' \in [Paths -> Sources \cup {NoFile}]
    <2>1. /\ At(Src(i)) /\ ~At(Dst(i))
          /\ \/ fs' = [fs EXCEPT ![Dst(i)] = fs[Src(i)], ![Src(i)] = NoFile]
             \/ fs' = [fs EXCEPT ![Dst(i)] = fs[Src(i)]]
      BY <1>3, Zenon DEF Apply, disk
    <2> QED BY <1>1, <2>1, PathFacts, SourcesArePaths DEF FilesSurvive, At
  <1>4. ASSUME NEW i \in Items, RemoveSource(i)
        PROVE  FilesSurvive' /\ fs' \in [Paths -> Sources \cup {NoFile}]
    <2>1. fs[Src(i)] = fs[Dst(i)]
      BY <1>4, Zenon DEF RemoveSource, RunnerInv
    <2>2. fs' = [fs EXCEPT ![Src(i)] = NoFile] \/ fs' = [fs EXCEPT ![Dst(i)] = NoFile]
      BY <1>4, Zenon DEF RemoveSource
    <2> QED BY <1>1, <2>1, <2>2, PathFacts, SourcesArePaths, Zenon DEF FilesSurvive
  <1> QED
    BY <1>2, <1>3, <1>4, Zenon
    DEF Next, vars, disk, ValidateBatch, CreateBatch, CancelJob, CancelQueuedItems,
        DeleteSession, RunnerStep, DrainEnds, Claim, Recover, RecordTrash, RecordOperation,
        Complete, Crash, Start

(* Every step keeps every variable in its type.                            *)
LEMMA TypeStep ==
  ASSUME IInv, [Next]_vars
  PROVE  TypeOK'
  <1>0. TypeOK
    BY Zenon DEF IInv
  <1>1. fs' \in [Paths -> Sources \cup {NoFile}]
    BY FilesStep, Zenon
  <1>2. ASSUME NEW b \in Batches, ValidateBatch(b) PROVE TypeOK'
    BY <1>0, <1>2, Zenon DEF TypeOK, ValidateBatch, rows, records, disk
  <1>3. ASSUME NEW b \in Batches, CreateBatch(b) PROVE TypeOK'
    <2>1. CASE SourcesAreFree(b)
      <3>1. order' \in Seq(Batches)
        <4>1. order' = Append(order, b) /\ order \in Seq(Batches)
          BY <1>0, <1>3, <2>1, Zenon DEF TypeOK, CreateBatch
        <4> QED BY <4>1
      <3>2. /\ job' = [job EXCEPT ![b] = "queued"] /\ note' = [note EXCEPT ![b] = "running"]
            /\ item' = [j \in Items |-> IF j[1] = b THEN "queued" ELSE item[j]]
        BY <1>3, <2>1, Zenon DEF CreateBatch
      <3>3. "queued" \in JobStatus /\ "queued" \in ItemStatus /\ "running" \in NotificationStatus
        BY Zenon DEF JobStatus, ActiveJobStatus, ItemStatus, NotificationStatus
      <3>4. /\ job' \in [Batches -> JobStatus] /\ note' \in [Batches -> NotificationStatus]
            /\ item' \in [Items -> ItemStatus]
        BY <1>0, <3>2, <3>3, Zenon DEF TypeOK
      <3> QED
        BY <1>0, <1>3, <2>1, <3>1, <3>4, Zenon
        DEF TypeOK, CreateBatch, WakeRunner, RunnerAt, records, disk
    <2>2. CASE ~SourcesAreFree(b)
      BY <1>0, <1>3, <2>2, Zenon DEF TypeOK, CreateBatch, rows, records, disk
    <2> QED BY <2>1, <2>2, Zenon
  <1>4. ASSUME NEW b \in Batches, CancelJob(b) PROVE TypeOK'
    BY <1>0, <1>4, NoteType, Zenon
       DEF TypeOK, CancelJob, JobStatus, TerminalJobStatus, records, disk
  <1>5. ASSUME NEW b \in Batches, CancelQueuedItems(b) PROVE TypeOK'
    BY <1>0, <1>5, CountingHolds, CountType, Zenon
       DEF TypeOK, CancelQueuedItems, ItemStatus, records, disk
  <1>6. ASSUME NEW b \in Batches, DeleteSession(b) PROVE TypeOK'
    BY <1>0, <1>6, Zenon DEF TypeOK, DeleteSession, JobStatus, ItemStatus, records, disk
  <1>7. ASSUME NEW i \in Items, Claim(i) PROVE TypeOK'
    BY <1>0, <1>7, NoteType, PlanFacts, Zenon
    DEF TypeOK, Claim, JobStatus, ActiveJobStatus, ItemStatus, RunnerAt, records, disk
  <1>8. CASE DrainEnds
    BY <1>0, <1>8, Zenon DEF TypeOK, DrainEnds, RunnerAt, rows, records, disk
  <1>9. ASSUME NEW i \in Items, NEW to \in {"completed", "failed"}, current = {i}, Finish(i, to),
               UNCHANGED <<posting, records, busy, crashes>>, moved' \subseteq Items
        PROVE  TypeOK'
    <2>1. /\ current' = {} /\ runner' \in {"idle", "drain"} /\ order' = order
          /\ job' \in [Batches -> JobStatus] /\ item' \in [Items -> ItemStatus]
          /\ done' \in [Batches -> Nat] /\ note' \in [Batches -> NotificationStatus]
      BY <1>0, <1>9, CountingHolds, FinishFacts, Zenon DEF IInv
    <2> QED BY <1>0, <1>1, <1>9, <2>1, Zenon DEF TypeOK, RunnerAt, records
  <1>10. ASSUME NEW i \in Items, Recover(i) PROVE TypeOK'
    <2>1. CASE \E to \in {"completed", "failed"} : Finish(i, to)
      <3>1. current = {i} /\ UNCHANGED <<posting, records, busy, crashes>> /\ moved' = moved
        BY <1>10, Zenon DEF Recover, disk
      <3>2. moved' \subseteq Items
        BY <1>0, <3>1, Zenon DEF TypeOK
      <3> QED BY <1>9, <2>1, <3>1, <3>2, Zenon
    <2>2. CASE Inspect(i) # "fail" /\ runner' = Inspect(i) /\ UNCHANGED <<rows, current>>
      BY <1>0, <1>10, <2>2, Zenon DEF TypeOK, Recover, Inspect, RunnerAt, rows, records, disk
    <2> QED BY <1>10, <2>1, <2>2, Zenon DEF Recover
  <1>11. ASSUME NEW i \in Items, Apply(i) PROVE TypeOK'
    <2>1. CASE Finish(i, "failed") /\ UNCHANGED disk
      <3>1. current = {i} /\ UNCHANGED <<posting, records, busy, crashes>> /\ moved' = moved
        BY <1>11, <2>1, Zenon DEF Apply, disk
      <3>2. moved' \subseteq Items
        BY <1>0, <3>1, Zenon DEF TypeOK
      <3> QED BY <1>9, <2>1, <3>1, <3>2, Zenon
    <2>2. CASE ~(Finish(i, "failed") /\ UNCHANGED disk)
      <3>1. /\ runner' \in {"found", "copied"} /\ current = {i}
            /\ UNCHANGED <<rows, current, posting, records, busy, crashes>>
        BY <1>11, <2>2, Zenon DEF Apply
      <3>2. moved' \subseteq Items
        BY <1>0, <1>11, <2>2, Zenon DEF Apply, TypeOK
      <3> QED BY <1>0, <1>1, <3>1, <3>2, Zenon DEF TypeOK, RunnerAt, rows, records
    <2> QED BY <2>1, <2>2, Zenon
  <1>12. ASSUME NEW i \in Items, RemoveSource(i) PROVE TypeOK'
    <2>1. CASE Finish(i, "failed") /\ UNCHANGED moved
      <3>1. current = {i} /\ UNCHANGED <<posting, records, busy, crashes>> /\ moved' = moved
        BY <1>12, <2>1, Zenon DEF RemoveSource
      <3>2. moved' \subseteq Items
        BY <1>0, <3>1, Zenon DEF TypeOK
      <3> QED BY <1>9, <2>1, <3>1, <3>2, Zenon
    <2>2. CASE ~(Finish(i, "failed") /\ UNCHANGED moved)
      <3>1. /\ runner' = "found" /\ current = {i}
            /\ UNCHANGED <<rows, current, posting, records, busy, crashes>>
        BY <1>12, <2>2, Zenon DEF RemoveSource
      <3>2. moved' \subseteq Items
        BY <1>0, <1>12, <2>2, Zenon DEF RemoveSource, TypeOK
      <3> QED BY <1>0, <1>1, <3>1, <3>2, Zenon DEF TypeOK, RunnerAt, rows, records
    <2> QED BY <2>1, <2>2, Zenon
  <1>13. ASSUME NEW i \in Items, RecordTrash(i) \/ RecordOperation(i) PROVE TypeOK'
    BY <1>0, <1>13, Zenon DEF TypeOK, RecordTrash, RecordOperation, RunnerAt, rows, disk
  <1>14. ASSUME NEW i \in Items, Complete(i) PROVE TypeOK'
    <2>1. /\ current = {i} /\ Finish(i, "completed") /\ moved' = moved
          /\ UNCHANGED <<posting, records, busy, crashes>>
      BY <1>14, Zenon DEF Complete, disk
    <2>2. moved' \subseteq Items
      BY <1>0, <2>1, Zenon DEF TypeOK
    <2> QED BY <1>9, <2>1, <2>2, Zenon
  <1>15. CASE Crash
    BY <1>0, <1>15 DEF TypeOK, Crash, RunnerAt, rows, records, disk
  <1>16. CASE Start
    BY <1>0, <1>16, Zenon
    DEF TypeOK, Start, RunnerAt, ItemStatus, JobStatus, ActiveJobStatus, records, disk
  <1>17. CASE UNCHANGED vars
    BY <1>0, <1>17, Zenon DEF TypeOK, vars, rows, records, disk
  <1> QED
    BY <1>2, <1>3, <1>4, <1>5, <1>6, <1>7, <1>8, <1>10, <1>11, <1>12, <1>13, <1>14, <1>15,
       <1>16, <1>17, Zenon
    DEF Next, RunnerStep

(* Claiming an item, and the start of the process.                         *)
LEMMA ClaimKeepsRows ==
  ASSUME IInv, NEW i \in Items, Claim(i)
  PROVE  RowsInv'
  <1> DEFINE b == i[1]
  <1> USE DEF IInv, rows, records, disk
  <1>0. /\ b \in Batches /\ i \in ItemsOf(b)
        /\ \A j \in Items : j[1] \in Batches /\ j \in ItemsOf(j[1])
        /\ \A c \in Batches : \A j \in ItemsOf(c) : j \in Items /\ j[1] = c
    BY PlanFacts, Zenon
  <1>1. /\ item[i] = "queued" /\ job[b] \in {"queued", "running"} /\ current = {}
        /\ item' = [item EXCEPT ![i] = "running"] /\ current' = {i} /\ runner' = "claimed"
        /\ job' = [job EXCEPT ![b] = IF @ = "queued" THEN "running" ELSE @]
        /\ UNCHANGED <<done, posting, records, disk, busy, crashes>>
    BY Zenon DEF Claim, Claimable, TypeOK
  <1>2. /\ job'[b] = "running" /\ \A c \in Batches : c # b => job'[c] = job[c]
        /\ item'[i] = "running" /\ \A j \in Items : j # i => item'[j] = item[j]
    BY <1>0, <1>1, Zenon DEF TypeOK
  <1>3. RunnerInv'
    BY <1>1, <1>2, Zenon DEF RunnerInv
  <1>4. \A c \in Batches : BatchInv(c)'
    BY <1>0, <1>1, <1>2 DEF BatchInv, Rows
  <1>5. \A j \in Items : ItemInv(j)'
    BY <1>0, <1>1, <1>2, ZenonT(60) DEF ItemInv
  <1>6. CompletedIsRecorded'
    BY <1>1, <1>2, Zenon DEF CompletedIsRecorded
  <1>7. ASSUME NEW c \in Batches PROVE Tells(c)'
    <2>1. /\ done'[c] = done[c] /\ Tells(c) /\ (Rows(c)' => Rows(c))
          /\ \A j \in ItemsOf(c) : item[j] \in SettledItem <=> item'[j] \in SettledItem
      BY <1>0, <1>1, <1>2, Zenon DEF BatchTellsItems, Tells, Rows, SettledItem
    <2>2. CASE c = b
      BY <1>2, <2>1, <2>2, TellsKept, Zenon
    <2>3. CASE c # b
      <3>1. job'[c] = job[c] /\ \A j \in ItemsOf(c) : item'[j] = item[j]
        BY <1>0, <1>2, <2>3, Zenon
      <3> QED BY <2>1, <3>1, TellsKept, Zenon
    <2> QED BY <2>2, <2>3, Zenon
  <1>8. BatchTellsItems'
    BY <1>7, Zenon DEF BatchTellsItems, Tells
  <1> QED BY <1>3, <1>4, <1>5, <1>6, <1>8, Zenon DEF RowsInv

(* A crash and a start of the API keep the rows' invariant: a start puts   *)
(* the items that were running back in the queue.                          *)
LEMMA ProcessKeepsRows ==
  ASSUME IInv, Crash \/ Start
  PROVE  RowsInv'
  <1> USE DEF IInv, rows, records, disk
  <1>0. /\ \A j \in Items : j[1] \in Batches /\ j \in ItemsOf(j[1])
        /\ \A c \in Batches : \A j \in ItemsOf(c) : j \in Items /\ j[1] = c
    BY PlanFacts, Zenon
  <1>1. CASE Crash
    <2>1. crashes' > 0 /\ crashes' # 0
      BY <1>1 DEF Crash, TypeOK
    <2>2. RunnerInv' /\ \A c \in Batches : BatchInv(c)'
      BY <1>1, <2>1, ZenonT(60) DEF Crash, RunnerInv, BatchInv, Rows
    <2>3. \A j \in Items : ItemInv(j)'
      BY <1>1, <2>1, Zenon DEF Crash, ItemInv
    <2>4. CompletedIsRecorded' /\ BatchTellsItems'
      BY <1>1, Zenon DEF Crash, CompletedIsRecorded, BatchTellsItems, Rows
    <2> QED BY <2>2, <2>3, <2>4, Zenon DEF RowsInv
  <1>2. CASE Start
    <2>1. /\ runner = "down" /\ crashes > 0 /\ crashes # 0 /\ current = {}
          /\ runner' = "drain"
          /\ UNCHANGED <<done, posting, records, disk, current, busy, crashes>>
      BY <1>2 DEF Start, RunnerInv, TypeOK
    <2>2. /\ \A c \in Batches : job'[c] = IF job[c] = "running" THEN "queued" ELSE job[c]
          /\ \A j \in Items : item'[j] = IF item[j] = "running" /\ job[j[1]] = "running"
                                         THEN "queued" ELSE item[j]
      BY <1>2, Zenon DEF Start
    <2>3. RunnerInv'
      BY <2>1, Zenon DEF RunnerInv
    <2>4. \A c \in Batches : BatchInv(c)'
      BY <1>0, <2>1, <2>2 DEF BatchInv, Rows
    <2>5. \A j \in Items : ItemInv(j)'
      BY <2>1, Zenon DEF ItemInv
    <2>6. CompletedIsRecorded'
      BY <2>1, <2>2, Zenon DEF CompletedIsRecorded
    <2>7. ASSUME NEW c \in Batches PROVE Tells(c)'
      <3>1. /\ done'[c] = done[c] /\ Tells(c) /\ (Rows(c)' => Rows(c))
            /\ \A j \in ItemsOf(c) : item[j] \in SettledItem <=> item'[j] \in SettledItem
        BY <1>0, <2>1, <2>2, Zenon DEF BatchTellsItems, Tells, Rows, SettledItem
      <3>2. CASE job[c] = "running"
        BY <2>2, <3>1, <3>2, TellsKept, Zenon
      <3>3. CASE job[c] # "running"
        <4>1. job'[c] = job[c] /\ \A j \in ItemsOf(c) : item'[j] = item[j]
          BY <1>0, <2>2, <3>3, Zenon
        <4> QED BY <3>1, <4>1, TellsKept, Zenon
      <3> QED BY <3>2, <3>3, Zenon
    <2>8. BatchTellsItems'
      BY <2>7, Zenon DEF BatchTellsItems, Tells
    <2> QED BY <2>3, <2>4, <2>5, <2>6, <2>8, Zenon DEF RowsInv
  <1> QED BY <1>1, <1>2, Zenon

(* The invariant holds before the first batch is posted.                   *)
LEMMA InitIInv == Init => IInv
  <1> SUFFICES ASSUME Init PROVE IInv
    BY Zenon
  <1>1. TypeOK
    <2>1. order \in Seq(Batches)
      BY DEF Init
    <2>2. fs \in [Paths -> Sources \cup {NoFile}]
      BY Zenon DEF Init
    <2> QED
      BY <2>1, <2>2, Zenon DEF Init, TypeOK, JobStatus, NotificationStatus, ItemStatus, RunnerAt
  <1>2. RunnerInv /\ \A b \in Batches : BatchInv(b)
    BY PlanFacts, Zenon DEF Init, RunnerInv, BatchInv, Rows
  <1>3. (\A i \in Items : ItemInv(i)) /\ CompletedIsRecorded /\ BatchTellsItems
    BY PlanFacts, Zenon DEF Init, ItemInv, CompletedIsRecorded, BatchTellsItems, Rows
  <1>4. FilesSurvive
    BY SourcesArePaths, Zenon DEF Init, FilesSurvive
  <1> QED BY <1>1, <1>2, <1>3, <1>4, Zenon DEF IInv

(* Every step keeps the rows' invariant.                                   *)
LEMMA RowsStep ==
  ASSUME IInv, [Next]_vars
  PROVE  RowsInv'
  <1>1. CASE \E b \in Batches : \/ ValidateBatch(b) \/ CreateBatch(b) \/ CancelJob(b)
                                \/ CancelQueuedItems(b) \/ DeleteSession(b)
    BY <1>1, CountingHolds, HandlersKeepRows, Zenon
  <1>2. ASSUME NEW i \in Items, NEW to \in {"completed", "failed"}, Finish(i, to),
               Recover(i) \/ Apply(i) \/ RemoveSource(i) \/ Complete(i),
               UNCHANGED <<posting, records, moved, busy, crashes>>,
               to = "completed" => i \in ops,
               to = "failed" => runner \notin {"found", "trashed", "recorded"}
        PROVE  RowsInv'
    <2>1. current = {i}
      BY <1>2, Zenon DEF Recover, Apply, RemoveSource, Complete
    <2> QED BY <1>2, <2>1, CountingHolds, FinishKeepsRows, Zenon DEF RowsInv
  <1>3. ASSUME NEW i \in Items, Recover(i) PROVE RowsInv'
    <2>1. CASE i \in ops /\ Finish(i, "completed")
      BY <1>2, <1>3, <2>1, Zenon DEF Recover, disk
    <2>2. CASE i \notin ops /\ Finish(i, "failed")
      BY <1>2, <1>3, <2>2, Zenon DEF Recover, disk
    <2>3. CASE i \notin ops /\ Inspect(i) # "fail" /\ runner' = Inspect(i) /\ UNCHANGED <<rows, current>>
      BY <1>3, <2>3, TypeStep, WorkKeepsRows, Zenon DEF Recover
    <2> QED BY <1>3, <2>1, <2>2, <2>3, Zenon DEF Recover
  <1>4. ASSUME NEW i \in Items, Apply(i) PROVE RowsInv'
    <2>1. CASE Finish(i, "failed") /\ UNCHANGED disk
      BY <1>2, <1>4, <2>1, Zenon DEF Apply, disk
    <2>2. CASE UNCHANGED <<rows, current>>
      BY <1>4, <2>2, TypeStep, WorkKeepsRows, Zenon DEF Apply
    <2> QED BY <1>4, <2>1, <2>2, Zenon DEF Apply
  <1>5. ASSUME NEW i \in Items, RemoveSource(i) PROVE RowsInv'
    <2>1. CASE Finish(i, "failed") /\ UNCHANGED moved
      BY <1>2, <1>5, <2>1, Zenon DEF RemoveSource
    <2>2. CASE UNCHANGED <<rows, current>>
      BY <1>5, <2>2, TypeStep, WorkKeepsRows, Zenon DEF RemoveSource
    <2> QED BY <1>5, <2>1, <2>2, Zenon DEF RemoveSource
  <1>6. ASSUME NEW i \in Items, RecordTrash(i) \/ RecordOperation(i) PROVE RowsInv'
    <2>1. UNCHANGED <<rows, posting, current, busy, crashes>>
      BY <1>6, Zenon DEF RecordTrash, RecordOperation
    <2> QED BY <1>6, <2>1, TypeStep, WorkKeepsRows, Zenon
  <1>7. ASSUME NEW i \in Items, Complete(i) PROVE RowsInv'
    <2>1. i \in ops /\ runner = "recorded"
      BY <1>7, Zenon DEF Complete, IInv, RunnerInv
    <2>2. Finish(i, "completed") /\ UNCHANGED <<posting, records, moved, busy, crashes>>
      BY <1>7, Zenon DEF Complete, disk
    <2> QED BY <1>2, <1>7, <2>1, <2>2, Zenon
  <1>8. CASE DrainEnds
    <2>1. UNCHANGED <<rows, posting, current, busy, crashes>>
      BY <1>8, Zenon DEF DrainEnds
    <2> QED BY <1>8, <2>1, TypeStep, WorkKeepsRows, Zenon
  <1>9. CASE Crash \/ Start
    BY <1>9, ProcessKeepsRows, Zenon
  <1>10. CASE UNCHANGED vars
    <2>1. RunnerInv' /\ CompletedIsRecorded' /\ BatchTellsItems'
      BY <1>10, Zenon DEF vars, rows, records, disk, IInv, RunnerInv, CompletedIsRecorded,
                   BatchTellsItems, Rows
    <2>2. \A b \in Batches : BatchInv(b)'
      BY <1>10, Zenon DEF vars, rows, disk, IInv, BatchInv, Rows
    <2>3. \A i \in Items : ItemInv(i)'
      BY <1>10, Zenon DEF vars, rows, records, disk, IInv, ItemInv
    <2> QED BY <2>1, <2>2, <2>3, Zenon DEF RowsInv
  <1> QED
    BY <1>1, <1>3, <1>4, <1>5, <1>6, <1>7, <1>8, <1>9, <1>10, ClaimKeepsRows, Zenon
       DEF Next, RunnerStep

(* The inductive invariant holds in every state of the runner, the         *)
(* handlers and any number of crashes.                                     *)
THEOREM InductiveInvariant == Spec => []IInv
  <1>1. ASSUME IInv, [Next]_vars PROVE IInv'
    BY <1>1, TypeStep, FilesStep, RowsStep, Zenon DEF IInv, RowsInv
  <1> QED BY InitIInv, <1>1, PTL DEF Spec

(* Every row and every position is one the code can write.                 *)
THEOREM TypeCorrect == Spec => []TypeOK
  BY InductiveInvariant, PTL DEF IInv

(* Whatever fails in applyFileMutation, and wherever the API dies, a batch *)
(* loses no file of the pool.                                              *)
THEOREM FilesSurviveHolds == Spec => []FilesSurvive
  BY InductiveInvariant, PTL DEF IInv

(* finishFileBatchItem reports an item completed only once its operation,  *)
(* and for a trash item its trash entry, has its row, also when the item   *)
(* was recovered after any number of crashes.                              *)
THEOREM CompletedIsRecordedHolds == Spec => []CompletedIsRecorded
  BY InductiveInvariant, PTL DEF IInv

(* refreshBatchCounts keeps the count equal to the number of settled items *)
(* and a batch that has completed or failed says what its items say.       *)
THEOREM BatchTellsItemsHolds == Spec => []BatchTellsItems
  BY InductiveInvariant, PTL DEF IInv

(* Without a crash, an item reported failed or cancelled is still at its   *)
(* source.                                                                 *)
THEOREM FailedKeepsSourceHolds == Spec => []FailedKeepsSource
  <1>1. IInv => FailedKeepsSource
    <2> SUFFICES ASSUME IInv, crashes = 0, NEW i \in Items, item[i] \in {"failed", "cancelled"},
                        i \in moved
                 PROVE  FALSE
      BY Zenon DEF FailedKeepsSource
    <2>1. item[i] \notin {"completed", "none", "running"}
      BY Zenon
    <2>2. i \in current
      BY <2>1, Zenon DEF IInv, ItemInv
    <2> QED BY <2>1, <2>2, Zenon DEF IInv, RunnerInv
  <1> QED BY InductiveInvariant, <1>1, PTL

(* Without a crash, the cancel route leaves no item queued or running once *)
(* cancelQueuedFileBatchItems is done, but for the one the runner works    *)
(* on.                                                                     *)
THEOREM CancelledBatchSettlesHolds == Spec => []CancelledBatchSettles
  <1>1. IInv => CancelledBatchSettles
    <2> SUFFICES ASSUME IInv, NEW b \in Batches, job[b] = "cancelled", crashes = 0, b \notin busy,
                        NEW i \in ItemsOf(b), i \notin current
                 PROVE  item[i] \in SettledItem
      BY Zenon DEF CancelledBatchSettles
    <2>1. i \in Items /\ i[1] = b
      BY PlanFacts, Zenon
    <2>2. item[i] \notin {"queued", "running"}
      BY <2>1, Zenon DEF IInv, ItemInv
    <2>3. item[i] # "none"
      BY Zenon DEF IInv, BatchInv, Rows
    <2>4. item[i] \in ItemStatus
      BY <2>1, Zenon DEF IInv, TypeOK
    <2> QED BY <2>2, <2>3, <2>4, Zenon DEF ItemStatus, SettledItem
  <1> QED BY InductiveInvariant, <1>1, PTL
(* Cancelling is final: claimNextFileBatchItem starts no item of a         *)
(* cancelled batch, and neither finishFileBatchItem nor                    *)
(* recoverInterruptedFileBatches takes an ended job out of its status.     *)
THEOREM EndedBatchesStayHolds == Spec => EndedBatchesStay
  <1> DEFINE Stay(b) ==
        /\ job[b] \in TerminalJobStatus => job'[b] \in {job[b], "deleted"}
        /\ job[b] = "cancelled" =>
             ~ \E i \in ItemsOf(b) : item[i] = "queued" /\ item'[i] = "running"
  <1>1. ASSUME IInv, Next, NEW b \in Batches PROVE Stay(b)
    <2> USE <1>1 DEF IInv, rows
    <2>0. /\ \A i \in Items : i[1] \in Batches /\ i \in ItemsOf(i[1])
          /\ \A i \in ItemsOf(b) : i \in Items /\ i[1] = b
      BY PlanFacts, Zenon
    <2>1. CASE job' = job /\ item' = item
      BY <2>1, Zenon
    <2>2. ASSUME NEW c \in Batches, \/ ValidateBatch(c) \/ CreateBatch(c) \/ CancelJob(c)
                                    \/ CancelQueuedItems(c) \/ DeleteSession(c)
          PROVE  Stay(b)
      <3>1. CASE ValidateBatch(c) \/ (CreateBatch(c) /\ ~SourcesAreFree(c))
        BY <2>1, <3>1, Zenon DEF ValidateBatch, CreateBatch
      <3>2. CASE CreateBatch(c) /\ SourcesAreFree(c)
        <4>1. job[c] = "none" /\ c \in posting
          BY <3>2, Zenon DEF CreateBatch, BatchInv
        <4>2. /\ \A d \in Batches : d # c => job'[d] = job[d]
              /\ \A i \in Items : item'[i] = IF i[1] = c THEN "queued" ELSE item[i]
          BY <3>2, Zenon DEF CreateBatch, TypeOK
        <4> QED BY <2>0, <4>1, <4>2, Zenon DEF TerminalJobStatus
      <3>3. CASE CancelJob(c)
        <4>1. /\ job[c] \in ActiveJobStatus /\ item' = item
              /\ \A d \in Batches : d # c => job'[d] = job[d]
          BY <3>3, Zenon DEF CancelJob, TypeOK
        <4> QED BY <4>1, Zenon DEF TerminalJobStatus, ActiveJobStatus
      <3>4. CASE CancelQueuedItems(c)
        <4>1. job' = job /\ \A i \in Items : item'[i] = IF i[1] = c /\ item[i] = "queued"
                                                        THEN "cancelled" ELSE item[i]
          BY <3>4, Zenon DEF CancelQueuedItems
        <4> QED BY <2>0, <4>1, Zenon
      <3>5. CASE DeleteSession(c)
        <4>1. /\ job'[c] = "deleted" /\ \A d \in Batches : d # c => job'[d] = job[d]
              /\ \A i \in Items : item'[i] = IF i[1] = c THEN "none" ELSE item[i]
          BY <3>5, Zenon DEF DeleteSession, TypeOK
        <4> QED BY <2>0, <4>1, Zenon
      <3> QED BY <2>2, <3>1, <3>2, <3>3, <3>4, <3>5, Zenon
    <2>3. ASSUME NEW i \in Items, Claim(i) PROVE Stay(b)
      <3>1. /\ job[i[1]] \in {"queued", "running"}
            /\ \A d \in Batches : d # i[1] => job'[d] = job[d]
            /\ \A j \in Items : j # i => item'[j] = item[j]
        BY <2>3, Zenon DEF Claim, Claimable, TypeOK
      <3> QED BY <2>0, <3>1, Zenon DEF TerminalJobStatus
    <2>4. ASSUME NEW i \in Items, NEW to \in {"completed", "failed"}, current = {i}, Finish(i, to)
          PROVE  Stay(b)
      <3>1. /\ \A c \in Batches : c # i[1] => job'[c] = job[c]
            /\ \A j \in Items : j[1] # i[1] => item'[j] = item[j]
            /\ job[i[1]] = "deleted" => job' = job /\ item' = item
            /\ job[i[1]] # "deleted" =>
                 /\ item'[i] = to
                 /\ \A j \in ItemsOf(i[1]) \ {i} :
                      item'[j] = IF job[i[1]] = "cancelled" /\ item[j] = "queued"
                                 THEN "cancelled" ELSE item[j]
                 /\ job'[i[1]] \in {job[i[1]], FinalStatus(i[1], item')}
        BY <2>4, CountingHolds, FinishFacts
      <3>2. job[i[1]] \in {"running", "cancelled", "deleted"}
        BY <2>4, Zenon DEF RunnerInv
      <3>3. job[b] \in TerminalJobStatus => job'[b] \in {job[b], "deleted"}
        BY <3>1, <3>2, Zenon DEF FinalStatus, TerminalJobStatus
      <3>4. ~ \E j \in ItemsOf(b) : item[j] = "queued" /\ item'[j] = "running"
        BY <2>0, <3>1, Zenon
      <3> QED BY <3>3, <3>4, Zenon
    <2>5. ASSUME NEW i \in Items, \/ Recover(i) \/ Apply(i) \/ RemoveSource(i) \/ RecordTrash(i)
                                  \/ RecordOperation(i) \/ Complete(i)
          PROVE  Stay(b)
      <3>1. \/ job' = job /\ item' = item
            \/ current = {i} /\ \E to \in {"completed", "failed"} : Finish(i, to)
        BY <2>5, Zenon DEF Recover, Apply, RemoveSource, RecordTrash, RecordOperation, Complete
      <3> QED BY <2>1, <2>4, <3>1, Zenon
    <2>6. CASE Start
      <3>1. /\ \A c \in Batches : job[c] # "running" => job'[c] = job[c]
            /\ \A i \in Items : item[i] = "queued" => item'[i] = "queued"
        BY <2>6, Zenon DEF Start
      <3> QED BY <2>0, <3>1, Zenon DEF TerminalJobStatus
    <2>7. CASE DrainEnds \/ Crash
      BY <2>1, <2>7, Zenon DEF DrainEnds, Crash
    <2> QED BY <2>2, <2>3, <2>5, <2>6, <2>7, Zenon DEF Next, RunnerStep
  <1>2. IInv /\ [Next]_vars => [\A b \in Batches : Stay(b)]_vars
    BY <1>1, Zenon
  <1> QED BY InductiveInvariant, <1>2, PTL DEF Spec, EndedBatchesStay
=============================================================================
