-------------------------- MODULE PhotostaffProofs --------------------------
(***************************************************************************)
(* Proofs about Photostaff, second part: the steps of a job that runs      *)
(* keep the invariant of PhotostaffInvariant, and the theorems follow.     *)
(***************************************************************************)
EXTENDS PhotostaffInvariant

-----------------------------------------------------------------------------
(* run_job.                                                                *)

(* A step that writes one task leaves the others.                          *)
LEMMA OneTask ==
  ASSUME IInv, NEW w \in Workers, NEW p \in Paths, NEW t \in Tasks
  PROVE  LET new == [task EXCEPT ![w][p] = t]
         IN /\ new \in [Workers -> [Paths -> Tasks]] /\ new[w][p] = t
            /\ \A v \in Workers, q \in Paths : v # w \/ q # p => new[v][q] = task[v][q]
<1>1. task \in [Workers -> [Paths -> Tasks]]
  BY Zenon DEF IInv, TypeOK
<1> QED
  BY <1>1, Zenon

(* So does one that moves a task on, which keeps its content and number.   *)
LEMMA TaskMoves ==
  ASSUME IInv, NEW w \in Workers, NEW p \in Paths,
         NEW pc \in {"none", "claimed", "current", "reserved"} \cup Made
  PROVE  LET new == SetTask(w, p, pc)
         IN /\ new \in [Workers -> [Paths -> Tasks]]
            /\ new[w][p].pc = pc /\ new[w][p].ident = task[w][p].ident
            /\ new[w][p].op = task[w][p].op
            /\ \A v \in Workers, q \in Paths : v # w \/ q # p => new[v][q] = task[v][q]
<1> DEFINE t == [task[w][p] EXCEPT !.pc = pc]
<1>1. task \in [Workers -> [Paths -> Tasks]] /\ task[w][p] \in Tasks
  BY Zenon DEF IInv, TypeOK
<1>2. t \in Tasks /\ t.pc = pc /\ t.ident = task[w][p].ident /\ t.op = task[w][p].op
  BY <1>1, Zenon DEF Tasks
<1>3. SetTask(w, p, pc) = [task EXCEPT ![w][p] = t]
  BY Zenon DEF SetTask
<1> HIDE DEF t
<1> QED
  BY <1>2, <1>3, OneTask

(* And one with which process_entry is done with a path.                   *)
LEMMA TaskDone ==
  ASSUME IInv, NEW w \in Workers, NEW p \in Paths
  PROVE  LET new == Done(w, p)
         IN /\ new \in [Workers -> [Paths -> Tasks]] /\ new[w][p].pc = "none"
            /\ \A v \in Workers, q \in Paths : v # w \/ q # p => new[v][q] = task[v][q]
<1>1. Idle \in Tasks /\ Idle.pc = "none"
  BY Zenon DEF Idle, Tasks
<1> QED
  BY <1>1, OneTask DEF Done

(* What these steps do to the tasks: one of them changes, and it neither   *)
(* begins a rendering nor publishes one.                                   *)
MovesTask(w, new) ==
  /\ new \in [Workers -> [Paths -> Tasks]]
  /\ \A v \in Workers, p \in Paths :
       \/ new[v][p] = task[v][p]
       \/ /\ v = w /\ task[v][p].pc = "rendering" /\ new[v][p].pc = "rendered"
          /\ new[v][p].ident = task[v][p].ident /\ new[v][p].op = task[v][p].op
       \/ v = w /\ new[v][p].pc \notin Made \cup {"reserved"}
       \/ v = w /\ new[v][p].pc = "reserved" /\ new[v][p].ident \in Idents

(* A task that is claimed, opened, found current or rendered, and the      *)
(* listing of the directory: no number is given out and no file changes.   *)
LEMMA EntryStepsKeep ==
  ASSUME IInv, NEW w \in Workers,
         \/ Discover(w) \/ ClaimEntry(w)
         \/ \E p \in Paths : OpenEntry(w, p) \/ CompleteEntry(w, p) \/ Render(w, p)
  PROVE  IInv'
<1>1. /\ worker[w].pc \in {"discover", "process"} /\ worker[w].job \in Jobs
      /\ UNCHANGED <<library, job, journal, disk, temps, cache, ops, requests>>
  BY RowsPart, Zenon
     DEF Assigned, Discover, ClaimEntry, OpenEntry, CompleteEntry, Render, Working, dbVars,
         fsVars
<1>2. /\ worker' \in [Workers -> Processes]
      /\ worker'[w].job = worker[w].job /\ worker'[w].todo = worker[w].todo
      /\ worker'[w].pc = "process"
      /\ \A v \in Workers : v # w => worker'[v] = worker[v]
  <2>1. \/ worker' = worker /\ worker[w].pc = "process"
        \/ worker' = [worker EXCEPT ![w].pc = "process"]
    BY Zenon DEF Discover, ClaimEntry, OpenEntry, CompleteEntry, Render, Working
  <2>2. worker \in [Workers -> Processes] /\ worker[w] \in Processes
    BY Zenon DEF IInv, TypeOK
  <2>3. LET new == [worker[w] EXCEPT !.pc = "process"]
        IN /\ new \in Processes /\ new.pc = "process" /\ new.job = worker[w].job
           /\ new.todo = worker[w].todo
    BY <2>2, Zenon DEF Processes
  <2> QED
    BY <2>1, <2>2, <2>3, Zenon
<1>3. /\ space' \subseteq Jobs \X Paths
      /\ \A s \in space' : s \in space \/ job[s[1]].status = "running"
  <2>1. \/ space' = space
        \/ /\ \E p \in Paths : space' = space \cup {<<worker[w].job, p>>}
           /\ job[worker[w].job].status = "running"
    BY Zenon DEF Discover, ClaimEntry, OpenEntry, CompleteEntry, Render, Owned, Live, dbVars
  <2> QED
    BY <1>1, <2>1 DEF IInv, TypeOK
<1>4. /\ asset' \in [Paths -> Assets]
      /\ \A p \in Paths : asset'[p].status = asset[p].status /\ asset'[p].ident = asset[p].ident
  <2>1. asset' = asset \/ \E p \in Paths : asset' = [asset EXCEPT ![p].gen = worker[w].job]
    BY Zenon DEF Discover, ClaimEntry, OpenEntry, CompleteEntry, Render, dbVars
  <2>2. asset \in [Paths -> Assets] /\ worker[w].job \in Nat
    BY <1>1, PhotoAssumption DEF IInv, TypeOK, Jobs
  <2>3. \A p \in Paths : LET new == [asset[p] EXCEPT !.gen = worker[w].job]
                         IN new \in Assets /\ new.status = asset[p].status /\ new.ident = asset[p].ident
    BY <2>2, Zenon DEF Assets
  <2> QED
    BY <2>1, <2>2, <2>3, Zenon
<1>5. MovesTask(w, task')
  <2>1. \/ task' = task
        \/ \E p \in Paths : \/ task' = Done(w, p)
                            \/ task' = SetTask(w, p, "current")
                            \/ task' = SetTask(w, p, "claimed")
                            \/ task' = SetTask(w, p, "rendered") /\ task[w][p].pc = "rendering"
                            \/ /\ task' = [task EXCEPT ![w][p] = [pc |-> "reserved", ident |-> disk[p], op |-> 0]]
                               /\ disk[p] # NONE
    <3>1. CASE ClaimEntry(w)
      <4>1. PICK pending \in SUBSET Paths : pending # {} /\ task' = SetTask(w, Min(pending), "claimed")
        BY <3>1, Zenon DEF ClaimEntry
      <4>2. Min(pending) \in Paths
        BY <4>1, MinIsMember, PhotoAssumption, Zenon
      <4> QED
        BY <4>1, <4>2, Zenon
    <3>2. CASE Discover(w) \/ \E p \in Paths : OpenEntry(w, p) \/ CompleteEntry(w, p) \/ Render(w, p)
      BY <3>2, Zenon DEF Discover, OpenEntry, CompleteEntry, Render
    <3> QED
      BY <3>1, <3>2, Zenon
  <2>2. MovesTask(w, task)
    BY Zenon DEF IInv, TypeOK, MovesTask
  <2>3. ASSUME NEW p \in Paths
        PROVE  /\ MovesTask(w, Done(w, p))
               /\ MovesTask(w, SetTask(w, p, "current")) /\ MovesTask(w, SetTask(w, p, "claimed"))
               /\ task[w][p].pc = "rendering" => MovesTask(w, SetTask(w, p, "rendered"))
    <3>1. \A v \in Workers, q \in Paths : (v = w /\ q = p) \/ v # w \/ q # p
      BY Zenon
    <3>2. MovesTask(w, Done(w, p))
      BY <3>1, TaskDone DEF MovesTask, Made
    <3>3. ASSUME NEW pc \in {"current", "claimed"}
          PROVE  MovesTask(w, SetTask(w, p, pc))
      <4>1. pc \in {"none", "claimed", "current", "reserved"} \cup Made /\ pc \notin Made \cup {"reserved"}
        BY Zenon DEF Made
      <4> QED
        BY <3>1, <4>1, TaskMoves DEF MovesTask
    <3>4. task[w][p].pc = "rendering" => MovesTask(w, SetTask(w, p, "rendered"))
      BY <3>1, TaskMoves DEF MovesTask, Made
    <3> QED
      BY <3>2, <3>3, <3>4, Zenon
  <2>4. ASSUME NEW p \in Paths, disk[p] # NONE
        PROVE  MovesTask(w, [task EXCEPT ![w][p] = [pc |-> "reserved", ident |-> disk[p], op |-> 0]])
    <3> DEFINE t == [pc |-> "reserved", ident |-> disk[p], op |-> 0]
    <3>1. t \in Tasks /\ t.pc = "reserved" /\ t.ident \in Idents
      BY <2>4, Zenon DEF IInv, TypeOK, Tasks
    <3> HIDE DEF t
    <3>2. MovesTask(w, [task EXCEPT ![w][p] = t])
      BY <3>1, OneTask DEF MovesTask
    <3> QED
      BY <3>2, Zenon DEF t
  <2> QED
    BY <2>1, <2>2, <2>3, <2>4, Zenon
<1>6. TypeOK'
  BY <1>1, <1>2, <1>3, <1>4, <1>5, Zenon DEF IInv, TypeOK, MovesTask
<1>7. RowsStay /\ KeepsSpace
  BY <1>1, <1>2, <1>3, RowsUntouched, Zenon DEF KeepsSpace
<1>8. GivesUp
  <2>1. ReadyInv'
    BY <1>1, <1>4, ReadyPart, Zenon DEF ReadyInv
  <2>2. ASSUME NEW v \in Workers, NEW p \in Paths
        PROVE  /\ \/ task'[v][p] = task[v][p]
                  \/ /\ task[v][p].pc \in Unpublished /\ task'[v][p].pc \in Unpublished
                     /\ task'[v][p].ident = task[v][p].ident /\ task'[v][p].op = task[v][p].op
                  \/ task'[v][p].pc \notin Made \cup {"reserved"}
                  \/ task'[v][p].pc = "reserved" /\ task'[v][p].ident \in Idents
               /\ task'[v][p].pc # "none" => worker'[v].pc = "process"
               /\ task'[v][p].pc \in Made => worker'[v].job = worker[v].job
    BY <1>2, <1>5, TaskPart DEF TaskInv, MovesTask, Unpublished
  <2> QED
    BY <1>1, <1>2, <2>1, <2>2 DEF GivesUp, ReadyInv
<1> QED
  BY <1>6, <1>7, <1>8, GivingUpKeeps, Zenon

(* process_media begins a rendering with a number nobody has.              *)
LEMMA StartRenderKeeps ==
  ASSUME IInv, NEW w \in Workers, NEW p \in Paths, StartRender(w, p)
  PROVE  IInv'
<1>1. /\ worker[w].pc = "process" /\ task[w][p].pc = "reserved" /\ ops' = ops + 1
      /\ temps' = temps \cup {ops + 1}
      /\ task' = [task EXCEPT ![w][p] = [task[w][p] EXCEPT !.pc = "rendering", !.op = ops + 1]]
      /\ UNCHANGED <<library, job, asset, journal, space, disk, cache, worker, requests>>
  <2>1. task \in [Workers -> [Paths -> Tasks]]
    BY Zenon DEF IInv, TypeOK
  <2> QED
    BY <2>1, Zenon DEF StartRender, dbVars
<1>9. /\ task' \in [Workers -> [Paths -> Tasks]] /\ ops \in Nat
      /\ task'[w][p].pc = "rendering" /\ task'[w][p].op = ops + 1
      /\ task'[w][p].ident = task[w][p].ident
      /\ \A v \in Workers, q \in Paths : v # w \/ q # p => task'[v][q] = task[v][q]
  <2> DEFINE t == [task[w][p] EXCEPT !.pc = "rendering", !.op = ops + 1]
  <2>1. task[w][p] \in Tasks /\ ops \in Nat
    BY Zenon DEF IInv, TypeOK
  <2>2. t \in Tasks /\ t.pc = "rendering" /\ t.op = ops + 1 /\ t.ident = task[w][p].ident
    <3>1. ops + 1 \in Nat
      BY <2>1
    <3>2. \A n \in Nat : LET new == [task[w][p] EXCEPT !.pc = "rendering", !.op = n]
                         IN /\ new \in Tasks /\ new.pc = "rendering" /\ new.op = n
                            /\ new.ident = task[w][p].ident
      BY <2>1, Zenon DEF Tasks, Made
    <3> QED
      BY <3>1, <3>2, Zenon
  <2> HIDE DEF t
  <2>3. task' = [task EXCEPT ![w][p] = t]
    BY <1>1, Zenon DEF t
  <2> QED
    BY <2>1, <2>2, <2>3, OneTask
<1>2. TypeOK'
  BY SMTT(30), <1>1, <1>9 DEF IInv, TypeOK
<1>3. \A v \in Workers, q \in Paths : TaskInv(v, q)'
  BY SMTT(30), <1>1, <1>9, TaskPart DEF TaskInv, Made, Unpublished
<1>4. OwnRendering'
  BY SMTT(30), <1>1, <1>9, TaskPart, RenderingPart DEF TaskInv, OwnRendering, Made
<1>5. \A r \in journal' : JournalInv(r)'
  BY <1>1, <1>9, JournalPart DEF JournalInv, Publishable, Made, Unpublished
<1>6. \A v \in Workers : TodoInv(v)'
  <2>1. \A v \in Workers : \A r \in worker[v].todo : r.op \in 1 .. ops' /\ r.op # ops + 1
    BY <1>1, <1>9, TodoPart DEF TodoInv
  <2>2. \A v \in Workers, q \in Paths : task'[v][q].pc \in Unpublished =>
          task'[v][q].op = ops + 1 \/ task'[v][q] = task[v][q]
    BY <1>9, Zenon
  <2> QED
    BY <1>1, <2>1, <2>2, TodoPart DEF TodoInv
<1>7. ReadyInv'
  BY <1>1, ReadyPart, Zenon DEF ReadyInv
<1>8. RowsInv'
  BY <1>1, <1>2, RowsUntouched, RowsInvKept, Zenon
<1> QED
  BY <1>2, <1>3, <1>4, <1>5, <1>6, <1>7, <1>8, Zenon DEF IInv, FilesInv

(* record_failed_asset writes a row of the asset that is not ready.        *)
LEMMA FailedAsset ==
  ASSUME IInv, NEW w \in Workers, NEW p \in Paths, worker[w].job \in Jobs, EntryFails(w, p)
  PROVE  /\ asset' \in [Paths -> Assets] /\ space' \subseteq space /\ task' = Done(w, p)
         /\ \A q \in Paths : asset'[q] = asset[q] \/ asset'[q].status = "failed"
<1> DEFINE j == worker[w].job
           new == [status |-> "failed", ident |-> task[w][p].ident, lib |-> job[j].lib, gen |-> j]
<1>1. /\ asset \in [Paths -> Assets] /\ task[w][p].ident \in Idents \cup {NONE}
      /\ job[j].lib \in Nat /\ j \in Nat
  BY PhotoAssumption DEF IInv, TypeOK, Tasks, Rows, Jobs
<1>2. new \in Assets /\ new.status = "failed"
  BY <1>1, Zenon DEF Assets
<1>3. asset' = [asset EXCEPT ![p] = new] /\ space' \subseteq space /\ task' = Done(w, p)
  BY Zenon DEF EntryFails
<1> HIDE DEF new
<1> QED
  BY <1>1, <1>2, <1>3, Zenon

(* process_entry ends with an error of its file alone.                     *)
LEMMA RenderFailsKeeps ==
  ASSUME IInv, NEW w \in Workers, NEW p \in Paths, RenderFails(w, p)
  PROVE  IInv'
<1>1. /\ worker[w].pc = "process" /\ worker[w].job \in Jobs
      /\ UNCHANGED <<library, job, journal, disk, cache, worker, ops, requests>>
      /\ EntryFails(w, p) /\ task[w][p].pc \in Unpublished
      /\ temps' = temps \/ temps' = temps \ {task[w][p].op}
  BY RowsPart, Zenon DEF Assigned, RenderFails, Unpublished
<1>2. /\ asset' \in [Paths -> Assets] /\ space' \subseteq space
      /\ \A q \in Paths : asset'[q] = asset[q] \/ asset'[q].status = "failed"
      /\ task' \in [Workers -> [Paths -> Tasks]]
      /\ task'[w][p].pc = "none"
      /\ \A v \in Workers, q \in Paths : v # w \/ q # p => task'[v][q] = task[v][q]
  BY <1>1, FailedAsset, TaskDone
<1>3. TypeOK'
  BY <1>1, <1>2, Zenon DEF IInv, TypeOK
<1>4. RowsStay /\ KeepsSpace
  BY <1>1, <1>2, RowsUntouched, Zenon DEF KeepsSpace
<1>5. \A o \in temps \ temps' :
        /\ \A r \in journal' : r.op # o
        /\ \A v \in Workers, q \in Paths : task'[v][q].pc \in Unpublished => task'[v][q].op # o
  <2>1. \A o \in temps \ temps' : o = task[w][p].op
    BY <1>1, Zenon
  <2>2. task[w][p].pc \in Made /\ \A v \in Workers, q \in Paths :
          task'[v][q].pc \in Unpublished =>
            task[v][q].pc \in Made /\ (v # w \/ q # p) /\ task'[v][q].op = task[v][q].op
    BY <1>1, <1>2, Zenon DEF Made, Unpublished
  <2> QED
    BY <1>1, <2>1, <2>2, RenderingPart, JournalPart DEF OwnRendering, JournalInv
<1>6. GivesUp
  <2>1. \A v \in Workers, q \in Paths :
          task'[v][q] = task[v][q] \/ task'[v][q].pc = "none"
    BY <1>2, Zenon
  <2>2. \A q \in Paths : asset'[q].status = "ready" =>
          asset'[q].ident \in Idents /\ cache[asset'[q].ident] # 0
    BY <1>2, ReadyPart, Zenon DEF ReadyInv
  <2> QED
    BY <1>1, <1>5, <2>1, <2>2, TaskPart, ZenonT(60) DEF TaskInv, GivesUp, Made
<1> QED
  BY <1>3, <1>4, <1>6, GivingUpKeeps, Zenon

(* The record begin_publish writes for a task that has a rendering.        *)
LEMMA TaskRecord ==
  ASSUME IInv, NEW w \in Workers, NEW p \in Paths, worker[w].pc = "process", task[w][p].pc \in Made
  PROVE  LET r == Record(worker[w].job, p, task[w][p].ident, task[w][p].op)
         IN /\ r \in Records /\ r.job = worker[w].job /\ r.path = p
            /\ r.ident = task[w][p].ident /\ r.op = task[w][p].op /\ r.op \in 1 .. ops
            /\ job[r.job].status # "none" /\ r.lib = job[r.job].lib
<1>1. /\ worker[w].job \in Jobs /\ job[worker[w].job].status # "none"
      /\ job[worker[w].job].lib \in Nat
  BY RowsPart, Zenon DEF IInv, TypeOK, Rows, Assigned
<1>2. task[w][p].ident \in Idents /\ task[w][p].op \in Nat /\ task[w][p].op \in 1 .. ops
  BY TaskPart DEF IInv, TypeOK, TaskInv
<1> QED
  BY <1>1, <1>2, Zenon DEF Record, Records

(* A journal with the rendering of a task is the one the task wrote.       *)
LEMMA OneJournal ==
  ASSUME IInv, NEW w \in Workers, NEW p \in Paths, worker[w].pc = "process", task[w][p].pc \in Made,
         NEW q \in journal, q.op = task[w][p].op
  PROVE  q = Record(worker[w].job, p, task[w][p].ident, task[w][p].op)
<1>1. q \in Records /\ q.lib = job[q.job].lib
      /\ q.job = worker[w].job /\ q.path = p /\ q.ident = task[w][p].ident
  BY JournalPart DEF IInv, TypeOK, JournalInv
<1> QED
  BY <1>1, Zenon DEF Records, Record

(* begin_publish writes the journal of a rendering, or ends the job.       *)
LEMMA BeginPublishKeeps ==
  ASSUME IInv, NEW w \in Workers, NEW p \in Paths, BeginPublish(w, p)
  PROVE  IInv'
<1> DEFINE row == Record(worker[w].job, p, task[w][p].ident, task[w][p].op)
<1>1. /\ worker[w].pc = "process" /\ task[w][p].pc = "rendered"
      /\ UNCHANGED <<library, asset, disk, cache, ops, requests>>
  BY Zenon DEF BeginPublish
<1>2. CASE JobFails(w, "database") /\ UNCHANGED journal
  BY <1>1, <1>2, JobFailsKeeps, Zenon
<1>3. CASE journal' = journal \cup {row} /\ task' = SetTask(w, p, "journaled")
           /\ UNCHANGED <<job, space, worker, temps>>
  <2>1. PICK r \in Records :
          /\ r.job = worker[w].job /\ r.path = p
          /\ r.ident = task[w][p].ident /\ r.op = task[w][p].op
          /\ job[r.job].status # "none" /\ r.lib = job[r.job].lib
          /\ journal' = journal \cup {r}
    BY <1>1, <1>3, TaskRecord, Zenon DEF Made
  <2>2. /\ task' \in [Workers -> [Paths -> Tasks]]
        /\ task'[w][p].pc = "journaled"
        /\ task'[w][p].ident = task[w][p].ident /\ task'[w][p].op = task[w][p].op
        /\ \A v \in Workers, q \in Paths : v # w \/ q # p => task'[v][q] = task[v][q]
    BY <1>3, TaskMoves DEF Made
  <2>3. TypeOK'
    BY <1>1, <1>3, <2>1, <2>2, ZenonT(60) DEF IInv, TypeOK
  <2>4. \A v \in Workers, q \in Paths : TaskInv(v, q)'
    BY SMTT(30), <1>1, <1>3, <2>2, TaskPart DEF TaskInv, Made, Unpublished
  <2>5. OwnRendering'
    BY SMTT(30), <1>1, <2>2, RenderingPart DEF OwnRendering, Made
  <2>6. \A q \in journal : JournalInv(q)'
    <3>1. \A q \in journal : q.op # r.op
      BY <1>1, <2>1, JournalPart DEF JournalInv, Made, Unpublished
    <3>2. \A v \in Workers, q \in Paths :
            /\ task'[v][q].pc \in Made => task[v][q].pc \in Made
            /\ task'[v][q].pc \in Unpublished => task[v][q].pc \in Unpublished
            /\ task'[v][q].op = task[v][q].op /\ task'[v][q].ident = task[v][q].ident
      BY <1>1, <2>2, Zenon DEF Made, Unpublished
    <3>3. \A q \in journal : Publishable(q)'
      BY <1>1, <1>3, JournalPart, Zenon DEF JournalInv, Publishable
    <3> QED
      BY SMTT(30), <1>1, <1>3, <2>1, <3>1, <3>2, <3>3, JournalPart DEF JournalInv
  <2>7. JournalInv(r)'
    <3>1. \A q \in journal : q.op # r.op
      BY <1>1, <2>1, JournalPart DEF JournalInv, Made, Unpublished
    <3>2. r.op \in temps' /\ r.op \in 1 .. ops'
      BY <1>1, <1>3, <2>1, TaskPart, Zenon DEF TaskInv, Made, Unpublished
    <3>3. \A v \in Workers, q \in Paths : task'[v][q].pc \in Made /\ task'[v][q].op = r.op => v = w /\ q = p
      BY SMTT(30), <1>1, <2>1, <2>2, RenderingPart DEF OwnRendering, Made
    <3> QED
      BY <1>1, <1>3, <2>1, <2>2, <3>1, <3>2, <3>3, Zenon DEF JournalInv, Publishable, Unpublished
  <2>8. \A v \in Workers : TodoInv(v)'
    <3>1. \A v \in Workers : \A q \in worker[v].todo : q.op # r.op
      BY <1>1, <2>1, TodoPart DEF TodoInv, Unpublished
    <3>2. \A v \in Workers, q \in Paths :
            /\ task'[v][q].pc \in Unpublished => task[v][q].pc \in Unpublished
            /\ task'[v][q].op = task[v][q].op
      BY <1>1, <2>2, Zenon DEF Unpublished
    <3> QED
      BY SMTT(30), <1>1, <1>3, <2>1, <3>1, <3>2, TodoPart DEF TodoInv
  <2>9. ReadyInv'
    BY <1>1, ReadyPart, Zenon DEF ReadyInv
  <2>10. RowsInv'
    BY <1>1, <1>3, <2>3, RowsUntouched, RowsInvKept, Zenon
  <2> QED
    BY <2>1, <2>3, <2>4, <2>5, <2>6, <2>7, <2>8, <2>9, <2>10, Zenon DEF IInv, FilesInv
<1> QED
  BY <1>2, <1>3, Zenon DEF BeginPublish

(* publish_derivatives of a task.                                          *)
LEMMA PublishKeeps ==
  ASSUME IInv, NEW w \in Workers, NEW p \in Paths, Publish(w, p)
  PROVE  IInv'
<1> DEFINE r == Record(worker[w].job, p, task[w][p].ident, task[w][p].op)
<1>1. /\ worker[w].pc = "process" /\ task[w][p].pc = "journaled" /\ PublishDerivatives(r)
      /\ UNCHANGED <<library, job, asset, journal, space, disk, worker, ops, requests>>
  BY Zenon DEF Publish, dbVars
<1>2. /\ r \in Records /\ r.job = worker[w].job /\ r.path = p
      /\ r.ident = task[w][p].ident /\ r.op = task[w][p].op /\ r.op \in 1 .. ops
      /\ r.lib = job[r.job].lib
  BY <1>1, TaskRecord, TaskPart, ZenonT(60) DEF TaskInv, Made
<1> HIDE DEF r
<1>3. \A q \in journal : q.op = r.op => q = r
  BY SMTT(30), <1>1, <1>2, OneJournal DEF Made, r
<1>4. \A v \in Workers, q \in Paths : task[v][q].pc \in Unpublished => task[v][q].op # r.op
  <2>1. \A v \in Workers, q \in Paths : task[v][q].pc \in Unpublished =>
          task[v][q].pc \in Made /\ (v # w \/ q # p)
    BY <1>1, Zenon DEF Made, Unpublished
  <2> QED
    BY <1>1, <1>2, <2>1, RenderingPart DEF OwnRendering, Made
<1>5. /\ task' \in [Workers -> [Paths -> Tasks]]
      /\ \A v \in Workers, q \in Paths :
           \/ task'[v][q] = task[v][q]
           \/ /\ task[v][q].pc = "journaled" /\ task'[v][q].pc = "published"
              /\ task'[v][q].op = task[v][q].op /\ task'[v][q].ident = task[v][q].ident
              /\ task[v][q].ident = r.ident
  <2>1. task' = SetTask(w, p, "published") /\ "published" \in Made
    BY Zenon DEF Publish, Made
  <2> QED
    <3>1. /\ task' \in [Workers -> [Paths -> Tasks]]
          /\ task'[w][p].pc = "published" /\ task'[w][p].ident = task[w][p].ident
          /\ task'[w][p].op = task[w][p].op
          /\ \A v \in Workers, q \in Paths : v # w \/ q # p => task'[v][q] = task[v][q]
      BY <2>1, TaskMoves DEF Made
    <3> QED
      BY <1>1, <1>2, <3>1, Zenon
<1>6. temps' \subseteq temps /\ cache' \in [Idents -> Nat]
  BY <1>1, <1>2, <1>3, PublishedDerivatives, Zenon
<1>7. TypeOK'
  BY <1>1, <1>5, <1>6, Zenon DEF IInv, TypeOK
<1>8. FilesInv'
  BY <1>1, <1>2, <1>3, <1>4, <1>5, PublicationKeepsFiles, Zenon
<1> QED
  BY <1>1, <1>7, <1>8, RowsUntouched, RowsInvKept, Zenon DEF IInv

(* complete_publish_owned, or abort_journal_owned and a failed asset.      *)
LEMMA FinishPublishKeeps ==
  ASSUME IInv, NEW w \in Workers, NEW p \in Paths, FinishPublish(w, p)
  PROVE  IInv'
<1> DEFINE r == Record(worker[w].job, p, task[w][p].ident, task[w][p].op)
<1>1. /\ worker[w].pc = "process" /\ task[w][p].pc = "published"
      /\ UNCHANGED <<library, job, disk, cache, worker, ops, requests>>
      /\ \/ /\ r \in journal /\ CompletePublish(r) /\ temps' = temps \ {r.op}
            /\ task' = Done(w, p) /\ space' = space \ {<<worker[w].job, p>>}
         \/ /\ r \notin journal /\ UNCHANGED <<asset, journal>> /\ temps' = temps \ {r.op}
            /\ task' = Done(w, p) /\ space' = space \ {<<worker[w].job, p>>}
         \/ journal' = journal \ {r} /\ EntryFails(w, p) /\ temps' = temps
  BY Zenon DEF FinishPublish
<1>2. /\ r \in Records /\ r.job = worker[w].job /\ r.path = p
      /\ r.ident = task[w][p].ident /\ r.op = task[w][p].op
      /\ cache[r.ident] # 0
  <2>1. cache[task[w][p].ident] # 0 /\ task[w][p].pc \in Made
    BY <1>1, TaskPart, Zenon DEF TaskInv, Made
  <2> QED
    BY <1>1, <2>1, TaskRecord, ZenonT(60)
<1>3. \A q \in journal : q.op = r.op => q = r
  BY <1>1, <1>2, OneJournal DEF Made, r
<1> HIDE DEF r
<1>4. /\ asset' \in [Paths -> Assets] /\ journal' \subseteq journal /\ temps' \subseteq temps
      /\ \A q \in Paths : asset'[q] = asset[q] \/ asset'[q].status = "failed" \/ asset'[q].ident = r.ident
      /\ \A o \in temps \ temps' : o = r.op /\ r \notin journal'
      /\ task' = Done(w, p) /\ space' \subseteq space
  <2>1. asset \in [Paths -> Assets] /\ worker[w].job \in Jobs
    BY <1>1, RowsPart, Zenon DEF IInv, TypeOK, Assigned
  <2>2. LET new == [status |-> "ready", ident |-> r.ident, lib |-> r.lib, gen |-> r.job]
        IN new \in Assets /\ new.ident = r.ident
    BY <1>2, PhotoAssumption DEF Records, Assets, Jobs
  <2>3. CASE CompletePublish(r) /\ temps' = temps \ {r.op} /\ task' = Done(w, p)
             /\ space' = space \ {<<worker[w].job, p>>}
    <3>1. /\ asset' = [asset EXCEPT ![p] =
                         [status |-> "ready", ident |-> r.ident, lib |-> r.lib, gen |-> r.job]]
          /\ journal' = journal \ {r}
      BY <1>2, <2>3, Zenon DEF CompletePublish
    <3> QED
      BY <2>1, <2>2, <2>3, <3>1, Zenon
  <2>4. CASE r \notin journal /\ UNCHANGED <<asset, journal>> /\ temps' = temps \ {r.op}
             /\ task' = Done(w, p) /\ space' = space \ {<<worker[w].job, p>>}
    BY <2>1, <2>4, Zenon
  <2>5. CASE journal' = journal \ {r} /\ EntryFails(w, p) /\ temps' = temps
    BY <2>1, <2>5, FailedAsset, Zenon
  <2> QED
    BY <1>1, <2>3, <2>4, <2>5, Zenon
<1>5. /\ task' \in [Workers -> [Paths -> Tasks]]
      /\ task'[w][p].pc = "none"
      /\ \A v \in Workers, q \in Paths : v # w \/ q # p => task'[v][q] = task[v][q]
  BY <1>4, TaskDone
<1>6. TypeOK'
  BY <1>1, <1>4, <1>5, Zenon DEF IInv, TypeOK
<1>7. RowsStay /\ KeepsSpace
  BY <1>1, <1>4, RowsUntouched, Zenon DEF KeepsSpace
<1>8. \A o \in temps \ temps' :
        /\ \A q \in journal' : q.op # o
        /\ \A v \in Workers, q \in Paths : task'[v][q].pc \in Unpublished => task'[v][q].op # o
  <2>1. task[w][p].pc \in Made /\ \A v \in Workers, q \in Paths :
          task'[v][q].pc \in Unpublished =>
            task[v][q].pc \in Made /\ (v # w \/ q # p) /\ task'[v][q].op = task[v][q].op
    BY <1>1, <1>5, Zenon DEF Made, Unpublished
  <2>2. \A v \in Workers, q \in Paths : task'[v][q].pc \in Unpublished => task'[v][q].op # r.op
    BY SMTT(30), <1>2, <2>1, RenderingPart DEF OwnRendering
  <2> QED
    BY <1>3, <1>4, <2>2, Zenon
<1>9. GivesUp
  <2>1. \A v \in Workers, q \in Paths : task'[v][q] = task[v][q] \/ task'[v][q].pc = "none"
    BY <1>5, Zenon
  <2>2. \A q \in Paths : asset'[q].status = "ready" =>
          asset'[q].ident \in Idents /\ cache[asset'[q].ident] # 0
    BY <1>2, <1>4, ReadyPart, Zenon DEF Records, ReadyInv
  <2> QED
    BY SMTT(30), <1>1, <1>4, <1>8, <2>1, <2>2, TaskPart DEF TaskInv, GivesUp, Made
<1> QED
  BY <1>6, <1>7, <1>9, GivingUpKeeps, Zenon

(* finish_job, with no task left.                                          *)
LEMMA FinishJobKeeps ==
  ASSUME IInv, NEW w \in Workers, FinishJob(w)
  PROVE  IInv'
<1>1. /\ worker[w].pc = "process" /\ worker[w].job \in Jobs
      /\ \A p \in Paths : task[w][p].pc = "none"
      /\ UNCHANGED <<library, journal, disk, temps, cache, task, ops, requests>>
  BY RowsPart, Zenon DEF Assigned, FinishJob, Working, Busy, fsVars
<1>2. /\ job' \in [Jobs -> Rows] /\ space' \subseteq space
      /\ \A j \in Jobs : /\ job'[j].lib = job[j].lib
                         /\ job[j].status # "none" => job'[j].status # "none"
      /\ \A s \in space' : job'[s[1]].status = job[s[1]].status
  <2> DEFINE k == worker[w].job
             new == [job[k] EXCEPT !.status = "completed", !.owner = NONE, !.lease = NONE]
  <2>1. job \in [Jobs -> Rows] /\ space \subseteq Jobs \X Paths
    BY Zenon DEF IInv, TypeOK
  <2>2. new \in Rows /\ new.status = "completed" /\ new.lib = job[k].lib
    BY <1>1, <2>1, ZenonT(60) DEF Rows
  <2>3. job' = [job EXCEPT ![k] = new] /\ space' = {s \in space : s[1] # k}
    BY Zenon DEF FinishJob
  <2> HIDE DEF new
  <2> QED
    BY <1>1, <2>1, <2>2, <2>3, Zenon
<1>3. /\ worker' \in [Workers -> Processes]
      /\ worker'[w].pc \in {"sweep", "tick"} /\ worker'[w].todo = {}
      /\ \A v \in Workers : v # w => worker'[v] = worker[v]
  BY Zenon DEF IInv, TypeOK, Processes, FinishJob, Released
<1>4. /\ asset' \in [Paths -> Assets]
      /\ \A p \in Paths : asset'[p] = asset[p] \/ asset'[p].status = "none"
  BY Zenon DEF IInv, TypeOK, Assets, FinishJob
<1>5. TypeOK'
  BY <1>1, <1>2, <1>3, <1>4, Zenon DEF IInv, TypeOK
<1>6. RowsStay /\ KeepsSpace
  BY <1>1, <1>2, <1>3, RowsUntouched, Zenon DEF KeepsSpace
<1>7. GivesUp
  BY <1>1, <1>3, <1>4, TaskPart, ReadyPart, ZenonT(60) DEF TaskInv, ReadyInv, GivesUp, Made
<1> QED
  BY <1>5, <1>6, <1>7, GivingUpKeeps, Zenon

(* cleanup_orphan_derivatives removes what no asset and no journal wants,  *)
(* while nobody renders or recovers.                                       *)
LEMMA SweepKeeps ==
  ASSUME IInv, NEW w \in Workers, Sweep(w)
  PROVE  IInv'
<1>1. /\ worker' \in [Workers -> Processes]
      /\ worker[w].pc = "sweep" /\ worker'[w].pc = "tick" /\ worker'[w].todo = {}
      /\ \A v \in Workers : v # w => worker'[v] = worker[v]
      /\ UNCHANGED <<library, job, asset, journal, space, disk, temps, task, ops, requests>>
  BY Zenon DEF IInv, TypeOK, Processes, Sweep, Released, dbVars
<1>2. /\ cache' \in [Idents -> Nat]
      /\ \A r \in journal : cache'[r.ident] = cache[r.ident]
      /\ \A p \in Paths : asset[p].status = "ready" /\ asset[p].ident \in Idents =>
                            cache'[asset[p].ident] = cache[asset[p].ident]
  BY Zenon DEF IInv, TypeOK, Records, Sweep, Kept
<1>3. /\ \A v \in Workers : worker[v].pc # "recovering"
      /\ \A v \in Workers, p \in Paths : task[v][p].pc \notin Made
  BY Zenon DEF Sweep, NobodyShares, Sharing, Made
<1>4. TypeOK'
  BY <1>1, <1>2, Zenon DEF IInv, TypeOK
<1>5. RowsStay /\ KeepsSpace
  BY <1>1, RowsUntouched, Zenon DEF KeepsSpace
<1>6. (\A v \in Workers, p \in Paths : TaskInv(v, p)') /\ OwnRendering'
  <2>1. \A v \in Workers, p \in Paths :
          task'[v][p].pc \notin Made /\ task'[v][p].pc \notin Unpublished /\ task'[v][p].pc # "published"
    BY <1>1, <1>3, Zenon DEF Made, Unpublished
  <2> QED
    BY <1>1, <2>1, TaskPart, RenderingPart, ZenonT(60) DEF TaskInv, OwnRendering
<1>7. (\A v \in Workers : TodoInv(v)') /\ (\A r \in journal' : JournalInv(r)')
  <2>1. \A r \in journal' : Publishable(r)'
    BY <1>1, <1>2, JournalPart, Zenon DEF JournalInv, Publishable
  <2>2. \A v \in Workers : worker'[v].pc # "recovering" /\ worker'[v].todo \subseteq worker[v].todo
    BY <1>1, <1>3, Zenon
  <2> QED
    BY <1>1, <1>3, <2>1, <2>2, JournalPart, TodoPart DEF TodoInv, JournalInv
<1>8. ReadyInv'
  BY <1>1, <1>2, ReadyPart, Zenon DEF IInv, TypeOK, Assets, ReadyInv
<1> QED
  BY <1>4, <1>5, <1>6, <1>7, <1>8, RowsInvKept, Zenon DEF IInv, FilesInv

-----------------------------------------------------------------------------
(* The invariant.                                                          *)

(* Every step of a process keeps IInv.                                     *)
LEMMA StepKeeps ==
  ASSUME IInv, NEW w \in Workers, Step(w)
  PROVE  IInv'
<1>1. CASE \/ JobErrs(w)
           \/ \E found \in SUBSET Paths, e \in {"storage", "fatal"} : DiscoverFails(w, found, e)
           \/ \E p \in Paths : NoSpace(w, p)
  BY <1>1, JobFailsKeeps, Zenon DEF JobErrs, DiscoverFails, NoSpace, Working
<1>2. CASE \E p \in Paths : \/ StartRender(w, p) \/ RenderFails(w, p) \/ BeginPublish(w, p)
                            \/ Publish(w, p) \/ FinishPublish(w, p)
  BY <1>2, StartRenderKeeps, RenderFailsKeeps, BeginPublishKeeps, PublishKeeps,
     FinishPublishKeeps, Zenon
<1>3. CASE \/ Discover(w) \/ ClaimEntry(w)
           \/ \E p \in Paths : OpenEntry(w, p) \/ CompleteEntry(w, p) \/ Render(w, p)
  BY <1>3, EntryStepsKeep, Zenon
<1>4. CASE \/ \E r \in worker[w].todo : RecoverOpen(w, r)
           \/ \E periodic \in BOOLEAN, due \in SUBSET Jobs : ClaimJob(w, periodic, due)
  BY <1>4, RecoverOpenKeeps, ClaimJobKeeps, Zenon
<1>5. CASE \/ Start(w) \/ RenewLease(w) \/ RecoverList(w) \/ RecoverFinish(w) \/ FinishJob(w)
           \/ Sweep(w) \/ Stop(w) \/ Crash(w)
  BY <1>5, StartKeeps, RenewLeaseKeeps, RecoverListKeeps, RecoverFinishKeeps, FinishJobKeeps,
     SweepKeeps, StopKeeps, CrashKeeps, ZenonT(60)
<1> QED
  BY <1>1, <1>2, <1>3, <1>4, <1>5, Zenon DEF Step

(* The library has no rendering, journal or reservation at first.          *)
LEMMA InitIInv == Init => IInv
<1> SUFFICES ASSUME Init PROVE IInv
  BY Zenon
<1>1. TypeOK
  <2>1. NoJob \in Rows /\ [NoJob EXCEPT !.status = "queued", !.kind = "full_scan", !.lib = 1] \in Rows
    BY Zenon DEF NoJob, Rows
  <2>2. [status |-> "none", ident |-> NONE, lib |-> 0, gen |-> 0] \in Assets
    BY Zenon DEF Assets
  <2>3. Idle \in Tasks
    BY Zenon DEF Idle, Tasks
  <2>4. [pc |-> "off", job |-> 0, lost |-> FALSE, todo |-> {}, rec |-> NONE] \in Processes
    BY Zenon DEF Processes
  <2>5. 1 \in Idents
    BY PhotoAssumption DEF Idents
  <2> QED
    BY <2>1, <2>2, <2>3, <2>4, <2>5, Zenon DEF Init, TypeOK
<1>2. RowsInv
  BY <1>1 DEF Init, RowsInv, Assigned, ReservationsHaveJob, NoJob
<1>3. FilesInv
  BY Zenon DEF Init, FilesInv, TaskInv, OwnRendering, JournalInv, TodoInv, ReadyInv, Made, Unpublished,
         Idle
<1> QED
  BY <1>1, <1>2, <1>3, Zenon DEF IInv

(* IInv holds in every state the photo library reaches, also between the   *)
(* journal, the renames and the rows of a publication.                     *)
THEOREM InductiveInvariant == Spec => []IInv
<1>1. IInv /\ [Next]_vars => IInv'
  <2> SUFFICES ASSUME IInv, [Next]_vars PROVE IInv'
    BY Zenon
  <2>1. CASE \E w \in Workers : Step(w)
    BY <2>1, StepKeeps, Zenon
  <2>2. CASE ChangeLibrary \/ RequestScan \/ \E r \in requests : LinkUpload(r)
    BY <2>2, ChangeLibraryKeeps, RequestScanKeeps, LinkUploadKeeps, Zenon
  <2>3. CASE \/ \E p \in Paths, i \in Idents : ReserveUpload(p, i)
             \/ \E p \in Paths, i \in Idents \cup {NONE} : EditFile(p, i)
             \/ \E j \in Jobs : LeaseExpires(j)
    BY <2>3, OutsideKeeps, Zenon
  <2>4. CASE UNCHANGED vars
    <3>1. TypeOK'
      BY <2>4, Zenon DEF IInv, TypeOK, vars, dbVars, fsVars
    <3> QED
      BY <2>4, <3>1, RowsUntouched, FilesUntouched, GivingUpKeeps, Zenon DEF vars, dbVars, fsVars
  <2> QED
    BY <2>1, <2>2, <2>3, <2>4, Zenon DEF Next
<1> QED
  BY InitIInv, <1>1, PTL DEF Spec

(* A photo the timeline shows as ready can be shown, for any number of     *)
(* processes, photos and disturbances: its derivative is in the cache,     *)
(* whatever scans, recoveries and clean-ups have run.                      *)
THEOREM ReadyHasDerivativeHolds == Spec => []ReadyHasDerivative
<1>1. IInv => ReadyHasDerivative
  BY ReadyPart, Zenon DEF ReadyInv, ReadyHasDerivative
<1> QED
  BY InductiveInvariant, <1>1, PTL

(* A job that was interrupted can be taken up: every journal has the files *)
(* to finish its publication, so that recover_journals does not fail, and  *)
(* reserved space belongs to a job that runs, is queued, or ended with its *)
(* library.                                                                *)
THEOREM JobsCanBeTakenUpHolds == Spec => []JobsCanBeTakenUp
<1>1. IInv => JobsCanBeTakenUp
  BY JournalPart, RowsPart, Zenon DEF JournalInv, JobsCanBeTakenUp, JournalCanFinish
<1> QED
  BY InductiveInvariant, <1>1, PTL
=============================================================================
