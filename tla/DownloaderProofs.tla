-------------------------- MODULE DownloaderProofs --------------------------
(***************************************************************************)
(* Proofs about Downloader, for any processes, handlers, segments and      *)
(* requests, and any number of failures, crashes and expired leases.       *)
(*                                                                         *)
(* Two arguments show that one handler at a time works on the .part file.  *)
(* As long as only one such file was ever made, its lock keeps a second    *)
(* handler out (LockInv).  As long as one process runs at a time and no    *)
(* lease runs out under a handler that works, the row of the task does:    *)
(* whoever works owns it, and recovery only acts when nobody works         *)
(* (OwnerInv, RecoveryInv, JournalInv).  What the segments, the .part file *)
(* and the target say of one another (DataInv) rests on either.            *)
(***************************************************************************)
EXTENDS Downloader, TLAPS

(* Where a handler holds the lock of a .part file, where it works on the   *)
(* file, and where it has not journaled it yet.                            *)
Holding == {"plan", "open", "transfer", "restart", "prepare", "journal", "publish"}
Writing == Holding \cup {"lock"}
Begun == {"probe", "lock", "plan", "open", "transfer", "restart", "prepare", "journal"}

(* The values of the variables.                                            *)
Entries == [w : Workers, file : Nat]
Tasks == [pc : Writing \cup {"idle", "probe", "finalize", "error", "settle", "pause", "cancel",
                             "cancelled"},
          w : Workers \cup {Nobody}, tries : Nat, err : {"none", "fail", "retry", "mismatch"},
          lock : Nat, out : Nat, todo : SUBSET Segs, id : Nat, again : BOOLEAN]
Recoveries == [pc : {"idle", "target", "published", "partial", "unpublished", "remove",
                     "conflict", "exit"},
               row : SUBSET Entries, live : BOOLEAN, cancel : BOOLEAN, lock : Nat]

Fields ==
  /\ status \in {"queued", "running", "paused", "failed", "cancelled", "completed", "deleted"}
  /\ owner \in Workers \cup {Nobody} /\ lease \in BOOLEAN
  /\ control \in {"none", "pause", "cancel"} /\ retries \in Nat
  /\ plan \subseteq SUBSET Segs /\ journal \subseteq Entries
  /\ proc \in [Workers -> {"new", "up", "stopping", "gone"}]
  /\ stalls \in Nat /\ shared \in BOOLEAN
TypeInv == Fields /\ h \in [Handlers -> Tasks] /\ rec \in [Workers -> Recoveries]

(* The files that have been made, and their names.                         *)
NamesInv ==
  /\ files \in 0 .. MaxFiles /\ partial \in 0 .. files /\ long \subseteq 1 .. files
  /\ target \in 0 .. files \cup {UserFile}
  /\ data \in [Files -> SUBSET Segs]
  /\ target \in Files => partial # target

(* A handler that works has locked a file, and nobody else has locked it.  *)
LockInv ==
  /\ \A x \in Handlers : h[x].pc \in Holding => h[x].lock \in 1 .. files
  /\ \A x, y \in Handlers : x # y /\ h[x].lock # NoFile => h[x].lock # h[y].lock

(* Handlers and recoveries belong to a process that runs.                  *)
ProcInv ==
  /\ \A x \in Handlers : h[x].pc # "idle" => h[x].w \in Workers /\ proc[h[x].w] = "up"
  /\ \A w \in Workers : rec[w].pc # "idle" => proc[w] = "up"
  /\ ~shared => \A v, w \in Workers :
       proc[v] \in {"up", "stopping"} /\ proc[w] \in {"up", "stopping"} => v = w

(* One process at a time, and no lease that ran out under a handler.       *)
Alone == stalls = 0 /\ ~shared

(* Until the file is published the handler owns the task and is the only   *)
(* one; afterwards nobody works on a file.                                 *)
OwnerInv ==
  Alone =>
    IF target \in Files THEN \A x \in Handlers : h[x].pc \notin Writing
    ELSE /\ \A x \in Handlers : h[x].pc # "idle" =>
              status = "running" /\ owner = h[x].w /\ lease
         /\ \A x, y \in Handlers : h[x].pc # "idle" /\ h[y].pc # "idle" => x = y

(* A recovery decides by what it has read, which is still so.              *)
RecoveryInv(w) ==
  /\ rec[w].pc = "published" => target \in Files
  /\ rec[w].pc \in {"partial", "conflict", "unpublished"} => ~rec[w].live
  /\ Alone /\ rec[w].pc \in {"partial", "conflict", "unpublished"} => target \notin Files
  /\ Alone /\ rec[w].pc # "idle" /\ target \notin Files =>
       \A x \in Handlers : h[x].pc \notin Begun
  /\ Alone /\ rec[w].pc \in {"target", "partial", "conflict", "unpublished"} /\ ~rec[w].live
       /\ target \notin Files => \A x \in Handlers : h[x].pc = "idle"
  /\ Alone /\ rec[w].pc = "target" =>
       IF target \in Files THEN \A e \in rec[w].row : Identified(target, e)
       ELSE journal = {} \/ rec[w].row = journal

(* The journal names the file that is renamed, until the task is complete. *)
JournalInv ==
  /\ status = "completed" => target \in Files
  /\ \A x \in Handlers : h[x].pc = "finalize" => target \in Files
  /\ Alone /\ target \notin Files => \A x \in Handlers :
       /\ h[x].pc \in Begun => journal = {}
       /\ h[x].pc = "publish" => journal = {Entry(x)}
  /\ Alone /\ target \in Files =>
       \/ journal = {} /\ status \in {"completed", "deleted"}
       \/ \E e \in journal : journal = {e} /\ Identified(target, e)

(* What has been written, planned and published.                           *)
TaskInv(x) ==
  /\ h[x].pc = "open" => UNION plan = {}
  /\ h[x].pc = "transfer" =>
       /\ h[x].out \in 1 .. files /\ Segs \ h[x].todo \subseteq data[h[x].out]
       /\ partial \in long => partial = h[x].out
  /\ h[x].pc = "prepare" /\ partial \in long => data[partial] = Segs
  /\ h[x].pc \in {"journal", "publish"} /\ partial # NoFile =>
       partial = h[x].id /\ partial \in long /\ data[partial] = Segs
DataInv ==
  ~Displaced =>
    /\ \A x \in Handlers : TaskInv(x)
    /\ partial \in long => UNION plan \subseteq data[partial]
    /\ target \in Files => data[target] = Segs

Control == OwnerInv /\ JournalInv /\ \A w \in Workers : RecoveryInv(w)

(* The inductive invariant.                                                *)
IInv == TypeInv /\ NamesInv /\ LockInv /\ ProcInv /\ Control /\ DataInv

-----------------------------------------------------------------------------
(* What most steps do.                                                     *)

(* A handler keeps or drops its lock.                                      *)
KeepsLock(y) ==
  /\ h'[y].lock \in {NoFile, h[y].lock}
  /\ h'[y].pc \in Holding => h[y].pc \in Holding /\ h'[y].lock = h[y].lock

(* A handler neither starts, nor journals, nor publishes.                  *)
KeepsTask(y) ==
  /\ h'[y].pc # "idle" => h[y].pc # "idle" /\ h'[y].w = h[y].w
  /\ h'[y].pc \in Begun => h[y].pc \in Begun
  /\ h'[y].pc \in Writing => h[y].pc \in Writing \/ target = NoFile
  /\ h'[y].pc = "publish" => h[y].pc = "publish" /\ h'[y].id = h[y].id
  /\ h'[y].pc = "finalize" => h[y].pc = "finalize"

(* A handler does not go on with its transfer.                             *)
KeepsData(y) ==
  h'[y] = h[y] \/ h'[y].pc \notin {"open", "transfer", "prepare", "journal", "publish"}

HandlersQuiet ==
  /\ h' \in [Handlers -> Tasks]
  /\ \A y \in Handlers : KeepsLock(y) /\ KeepsTask(y) /\ KeepsData(y)

(* A recovery goes on only to end.                                         *)
RecoveriesQuiet ==
  \A v \in Workers :
    \/ rec'[v] = rec[v]
    \/ rec'[v].pc = "idle"
    \/ rec'[v].pc \in {"exit", "remove"} /\ rec[v].pc # "idle"

(* The bounds only grow.                                                   *)
Grows == stalls' \in {stalls, stalls + 1} /\ (shared => shared')

(* The row of the task stays, its lease is kept or renewed.                *)
RowQuiet ==
  /\ status' = status /\ owner' = owner /\ journal' = journal /\ lease' \in {lease, TRUE}
  /\ RecoveriesQuiet /\ Grows

(* No file is made, written to or renamed.                                 *)
DiskQuiet ==
  /\ partial' \in {partial, NoFile} /\ target' \in {target, UserFile}
  /\ target # NoFile => target' = target
  /\ files' = files /\ data' = data /\ long' = long
  /\ Grows

(* The published file stays where and what it is.                          *)
TargetStays ==
  /\ target' \in Files <=> target \in Files
  /\ target \in Files => target' = target
  /\ target \in Files /\ target \in long => target \in long'

-----------------------------------------------------------------------------
(* What quiet steps keep.                                                  *)

(* No file, and the file of somebody else, are none of the .part files.    *)
LEMMA NoFiles == NoFile \notin Files /\ UserFile \notin Files /\ UserFile # NoFile
BY DownloadAssumption DEF NoFile, UserFile, Files

(* The locks stay as they are or are dropped.                              *)
LEMMA LocksKept ==
  ASSUME NamesInv, LockInv, files' \in Nat, files' >= files,
         \A y \in Handlers : KeepsLock(y)
  PROVE  LockInv'
<1>1. \A x \in Handlers : h'[x].pc \in Holding => h'[x].lock \in 1 .. files'
  BY DEF KeepsLock, LockInv, NamesInv
<1>2. ASSUME NEW x \in Handlers, NEW y \in Handlers, x # y, h'[x].lock # NoFile
      PROVE  h'[x].lock # h'[y].lock
  BY <1>2, Zenon DEF KeepsLock, LockInv
<1> QED  BY <1>1, <1>2, Zenon DEF LockInv

(* The processes go on.                                                    *)
LEMMA ProcsKept ==
  ASSUME ProcInv, proc' = proc, shared' = shared, RecoveriesQuiet,
         \A y \in Handlers : KeepsTask(y)
  PROVE  ProcInv'
BY DEF ProcInv, RecoveriesQuiet, KeepsTask

(* One step further without a disturbance comes from one without.          *)
LEMMA AloneBefore ==
  ASSUME TypeInv, Grows, stalls' \in Nat, Alone'
  PROVE  Alone
BY DEF TypeInv, Fields, Grows, Alone

(* A step that leaves the row of the task and the published file alone.    *)
LEMMA ControlKept ==
  ASSUME TypeInv, Control, RowQuiet, TargetStays, Alone' => Alone,
         \A y \in Handlers : KeepsTask(y)
  PROVE  Control'
<1>0. lease => lease'
  BY Zenon DEF RowQuiet
<1>1. OwnerInv'
  BY <1>0, NoFiles, Zenon DEF Control, OwnerInv, RowQuiet, TargetStays, KeepsTask
<1>2. JournalInv'
  BY Zenon DEF Control, JournalInv, RowQuiet, TargetStays, KeepsTask, Entry, Identified
<1>3. ASSUME NEW w \in Workers
      PROVE  RecoveryInv(w)'
  BY <1>3, ZenonT(60) DEF Control, RecoveryInv, RowQuiet, RecoveriesQuiet, TargetStays, KeepsTask, Identified
<1> QED  BY <1>1, <1>2, <1>3, Zenon DEF Control

(* A task is released, taken back or moved by a request when no handler    *)
(* counts on its row.                                                      *)
LEMMA ControlReleased ==
  ASSUME TypeInv, Control, RecoveriesQuiet, TargetStays, Alone' => Alone, journal' = journal,
         status \notin {"completed", "deleted"}, status' # "completed",
         \A y \in Handlers : KeepsTask(y),
         Alone' /\ target \notin Files => \A y \in Handlers : h'[y].pc = "idle"
  PROVE  Control'
<1>1. OwnerInv'
  BY DEF Control, OwnerInv, TargetStays, KeepsTask, Files, NoFile
<1>2. JournalInv'
  BY Zenon DEF Control, JournalInv, TargetStays, KeepsTask, Entry, Identified, Begun
<1>3. ASSUME NEW w \in Workers
      PROVE  RecoveryInv(w)'
  BY <1>3 DEF Control, RecoveryInv, RecoveriesQuiet, TargetStays, KeepsTask, Identified, Begun
<1> QED  BY <1>1, <1>2, <1>3, Zenon DEF Control

(* The journal is dropped when no handler counts on it and the file was    *)
(* not published: recover_unpublished, fail_recovery and a deletion.       *)
LEMMA ControlDropped ==
  ASSUME TypeInv, Control, RecoveriesQuiet, target' = target, Alone' => Alone, journal' = {},
         status' = "completed" => status = "completed", long' = long, h' = h,
         Alone' /\ target \in Files => status' = "deleted",
         Alone' /\ target \notin Files => \A y \in Handlers : h[y].pc = "idle"
  PROVE  Control'
<1>1. OwnerInv'
  BY Zenon DEF Control, OwnerInv
<1>2. JournalInv'
  BY Zenon DEF Control, JournalInv, Begun
<1>3. ASSUME NEW w \in Workers
      PROVE  RecoveryInv(w)'
  BY <1>3, Zenon DEF Control, RecoveryInv, RecoveriesQuiet, Identified, Begun
<1> QED  BY <1>1, <1>2, <1>3, Zenon DEF Control

(* finalize_publish of a file that is at the target.                       *)
LEMMA ControlFinalized ==
  ASSUME TypeInv, Control, RecoveriesQuiet, target' = target, Alone' => Alone, journal' = {},
         status' = "completed", long' = long, target \in Files,
         \A y \in Handlers : KeepsTask(y)
  PROVE  Control'
<1>1. OwnerInv'
  BY DEF Control, OwnerInv, KeepsTask, Files, NoFile
<1>2. JournalInv'
  BY Zenon DEF Control, JournalInv, KeepsTask
<1>3. ASSUME NEW w \in Workers
      PROVE  RecoveryInv(w)'
  BY <1>3, Zenon DEF Control, RecoveryInv, RecoveriesQuiet, Identified
<1> QED  BY <1>1, <1>2, <1>3, Zenon DEF Control

(* The names stay well formed.                                             *)
LEMMA NamesKept ==
  ASSUME NamesInv, DiskQuiet
  PROVE  NamesInv'
BY NoFiles DEF NamesInv, DiskQuiet, NoFile

(* Who is not displaced now was not before.                                *)
LEMMA DisplacedStays ==
  ASSUME TypeInv, NamesInv, Grows, stalls' \in Nat, files' \in Nat, files' >= files, Displaced
  PROVE  Displaced'
BY DEF TypeInv, Fields, NamesInv, Grows, Displaced

(* No bytes, no plan and no name is added.                                 *)
LEMMA DataKept ==
  ASSUME TypeInv, TypeInv', NamesInv, DataInv, DiskQuiet, UNION plan' \subseteq UNION plan,
         \A y \in Handlers : KeepsData(y)
  PROVE  DataInv'
<1> SUFFICES ASSUME ~Displaced'
             PROVE  /\ \A x \in Handlers : TaskInv(x)'
                    /\ (partial \in long => UNION plan \subseteq data[partial])'
                    /\ (target \in Files => data[target] = Segs)' 
  BY Zenon DEF DataInv
<1>1. ~Displaced
  BY DisplacedStays DEF DiskQuiet, NamesInv, TypeInv, Fields
<1>2. NoFile \notin long /\ UserFile \notin Files
  BY NoFiles DEF NamesInv, NoFile
<1>3. ASSUME NEW y \in Handlers
      PROVE  TaskInv(y)'
  BY <1>1, <1>2, <1>3, Zenon DEF DataInv, TaskInv, DiskQuiet, KeepsData
<1>4. (partial \in long => UNION plan \subseteq data[partial])'
  BY <1>1, <1>2, Zenon DEF DataInv, DiskQuiet
<1>5. (target \in Files => data[target] = Segs)'
  BY <1>1, <1>2, Zenon DEF DataInv, DiskQuiet
<1> QED  BY <1>3, <1>4, <1>5, Zenon

(* A quiet step keeps everything but, perhaps, what is said of processes.  *)
LEMMA QuietKeeps ==
  ASSUME IInv, TypeInv', HandlersQuiet, RowQuiet, DiskQuiet, UNION plan' \subseteq UNION plan
  PROVE  NamesInv' /\ LockInv' /\ Control' /\ DataInv'
<1>1. NamesInv'
  BY NamesKept, Zenon DEF IInv
<1>2. LockInv'
  <2>1. files' \in Nat /\ files' >= files
    BY DEF IInv, NamesInv, DiskQuiet
  <2> QED  BY <2>1, LocksKept, Zenon DEF IInv, HandlersQuiet
<1>3. Control'
  <2>1. TargetStays
    BY NoFiles, Zenon DEF DiskQuiet, TargetStays
  <2>2. Alone' => Alone
    BY AloneBefore, Zenon DEF IInv, RowQuiet, TypeInv, Fields
  <2> QED  BY <2>1, <2>2, ControlKept, Zenon DEF IInv, HandlersQuiet
<1>4. DataInv'
  BY DataKept, Zenon DEF IInv, HandlersQuiet
<1> QED  BY <1>1, <1>2, <1>3, <1>4, Zenon

(* A step of a handler that only reads.                                    *)
Undisturbed == UNCHANGED <<rows, disk, rec, proc, req>> /\ (UNCHANGED bounds \/ Event)

(* Such a step keeps the invariant.                                        *)
LEMMA UndisturbedKeeps ==
  ASSUME IInv, HandlersQuiet, Undisturbed
  PROVE  IInv'
<1>1. /\ status' = status /\ owner' = owner /\ lease' = lease /\ control' = control
      /\ retries' = retries /\ plan' = plan /\ journal' = journal
      /\ rec' = rec /\ proc' = proc /\ stalls' = stalls /\ shared' = shared
  BY Zenon DEF Undisturbed, rows, task, bounds, Event
<1>2. partial' = partial /\ target' = target /\ files' = files /\ data' = data /\ long' = long
  BY Zenon DEF Undisturbed, disk, names
<1>3. TypeInv'
  BY <1>1, Zenon DEF IInv, TypeInv, Fields, HandlersQuiet
<1>4. RowQuiet /\ RecoveriesQuiet
  BY <1>1, Zenon DEF RowQuiet, RecoveriesQuiet, Grows
<1>5. DiskQuiet
  BY <1>1, <1>2, Zenon DEF DiskQuiet, Grows
<1>6. NamesInv' /\ LockInv' /\ Control' /\ DataInv'
  BY <1>1, <1>3, <1>4, <1>5, QuietKeeps, Zenon
<1>7. ProcInv'
  BY <1>1, <1>4, ProcsKept, Zenon DEF IInv, HandlersQuiet
<1> QED  BY <1>3, <1>6, <1>7, Zenon DEF IInv

(* A handler gives up, or goes on to a place where it holds nothing.       *)
LEMMA GivesUp ==
  ASSUME TypeInv, NEW x \in Handlers, NEW t \in Tasks, h' = [h EXCEPT ![x] = t],
         t.lock \in {NoFile, h[x].lock}, h[x].pc # "idle", t.pc # "idle" => t.w = h[x].w,
         t.pc \in {"idle", "error", "pause", "cancel", "cancelled", "settle"}
  PROVE  HandlersQuiet
<1>1. h' \in [Handlers -> Tasks] /\ h'[x] = t /\ \A y \in Handlers : y # x => h'[y] = h[y]
  BY Zenon DEF TypeInv
<1>2. KeepsLock(x) /\ KeepsTask(x) /\ KeepsData(x)
  BY <1>1, Zenon DEF KeepsLock, KeepsTask, KeepsData, Holding, Begun, Writing
<1>3. ASSUME NEW y \in Handlers, y # x
      PROVE  KeepsLock(y) /\ KeepsTask(y) /\ KeepsData(y)
  BY <1>1, <1>3, Zenon DEF KeepsLock, KeepsTask, KeepsData
<1> QED  BY <1>1, <1>2, <1>3, Zenon DEF HandlersQuiet

(* run_task returns an error.                                              *)
LEMMA ErrorIsQuiet ==
  ASSUME TypeInv, NEW x \in Handlers, h[x].pc # "idle",
         NEW err \in {"none", "fail", "retry", "mismatch"}, Error(x, err)
  PROVE  /\ HandlersQuiet /\ h'[x].pc = "error"
         /\ \A y \in Handlers : y # x => h'[y] = h[y]
<1> DEFINE t == [Idle EXCEPT !.pc = "error", !.err = err, !.w = h[x].w, !.tries = h[x].tries]
<1>1. t \in Tasks /\ t.lock = NoFile /\ t.w = h[x].w /\ t.pc = "error"
  BY Zenon DEF TypeInv, Tasks, Idle, NoFile
<1>2. h' = [h EXCEPT ![x] = t]
  BY Zenon DEF Error
<1> HIDE DEF t
<1>3. h'[x] = t /\ \A y \in Handlers : y # x => h'[y] = h[y]
  BY <1>2, Zenon DEF TypeInv
<1> QED  BY <1>1, <1>2, <1>3, GivesUp, Zenon

(* run_task is interrupted.                                                *)
LEMMA InterruptIsQuiet ==
  ASSUME TypeInv, NEW x \in Handlers, h[x].pc # "idle", control # "none", Interrupt(x)
  PROVE  HandlersQuiet
<1> DEFINE t == [Idle EXCEPT !.pc = control, !.w = h[x].w, !.tries = h[x].tries]
<1>1. t \in Tasks /\ t.lock = NoFile /\ t.w = h[x].w /\ t.pc \in {"pause", "cancel"}
  BY Zenon DEF TypeInv, Fields, Tasks, Idle, NoFile
<1>2. h' = [h EXCEPT ![x] = t]
  BY Zenon DEF Interrupt
<1> HIDE DEF t
<1> QED  BY <1>1, <1>2, GivesUp, Zenon

(* The handler ends.                                                       *)
LEMMA EndIsQuiet ==
  ASSUME TypeInv, NEW x \in Handlers, h[x].pc # "idle", h' = [h EXCEPT ![x] = Idle]
  PROVE  HandlersQuiet
<1>1. Idle \in Tasks /\ Idle.lock = NoFile /\ Idle.pc = "idle"
  BY Zenon DEF Tasks, Idle, NoFile
<1> QED  BY <1>1, GivesUp, Zenon

(* The handler goes on to one of its last places.                          *)
LEMMA GotoIsQuiet ==
  ASSUME TypeInv, NEW x \in Handlers, h[x].pc # "idle", NEW pc \in {"settle", "cancelled"},
         Goto(x, pc)
  PROVE  HandlersQuiet
<1> DEFINE t == [h[x] EXCEPT !.pc = pc]
<1>1. t \in Tasks /\ t.lock = h[x].lock /\ t.w = h[x].w /\ t.pc = pc
  BY Zenon DEF TypeInv, Tasks
<1>2. h' = [h EXCEPT ![x] = t]
  BY Zenon DEF Goto, TypeInv
<1> HIDE DEF t
<1> QED  BY <1>1, <1>2, GivesUp, Zenon

(* The step is not one of a handler.                                       *)
LEMMA StillIsQuiet ==
  ASSUME TypeInv, h' = h
  PROVE  HandlersQuiet
BY Zenon DEF HandlersQuiet, KeepsLock, KeepsTask, KeepsData, TypeInv

(* A handler goes on with its file.                                        *)
LEMMA Proceeds ==
  ASSUME TypeInv, NEW x \in Handlers, NEW t \in Tasks, h' = [h EXCEPT ![x] = t],
         t.w = h[x].w, t.lock = h[x].lock, h[x].pc \in Holding \cap Begun,
         t.pc \in Holding \cap Begun
  PROVE  /\ h' \in [Handlers -> Tasks] /\ h'[x] = t
         /\ \A y \in Handlers : y # x => h'[y] = h[y]
         /\ \A y \in Handlers : KeepsLock(y) /\ KeepsTask(y)
<1>1. h' \in [Handlers -> Tasks] /\ h'[x] = t /\ \A y \in Handlers : y # x => h'[y] = h[y]
  BY Zenon DEF TypeInv
<1>2. KeepsLock(x) /\ KeepsTask(x)
  BY <1>1, Zenon DEF KeepsLock, KeepsTask, Holding, Begun, Writing
<1>3. ASSUME NEW y \in Handlers, y # x
      PROVE  KeepsLock(y) /\ KeepsTask(y)
  BY <1>1, <1>3, Zenon DEF KeepsLock, KeepsTask
<1> QED  BY <1>1, <1>2, <1>3, Zenon

(* It keeps what the rows and the locks say.                               *)
LEMMA ProceedKeeps ==
  ASSUME IInv, TypeInv', NamesInv', RowQuiet, TargetStays, proc' = proc, shared' = shared,
         files' >= files, \A y \in Handlers : KeepsLock(y) /\ KeepsTask(y)
  PROVE  LockInv' /\ ProcInv' /\ Control'
<1>1. LockInv'
  BY LocksKept DEF IInv, NamesInv
<1>2. ProcInv'
  BY ProcsKept, Zenon DEF IInv, RowQuiet
<1>3. Alone' => Alone
  BY AloneBefore, Zenon DEF IInv, RowQuiet, TypeInv, Fields
<1>4. Control'
  BY <1>3, ControlKept, Zenon DEF IInv
<1> QED  BY <1>1, <1>2, <1>4, Zenon

(* One handler at a time holds a file: the lock of the only file, or the   *)
(* row of the task, keeps the others out.                                  *)
LEMMA OneHolder ==
  ASSUME IInv, ~Displaced, NEW x \in Handlers, NEW y \in Handlers,
         h[x].pc \in Holding, h[y].pc \in Holding
  PROVE  x = y
<1>1. CASE Alone
  BY <1>1, Zenon DEF IInv, Control, OwnerInv, Holding, Writing
<1>2. CASE ~Alone
  <2>1. files \in Nat /\ files <= 1
    BY <1>2 DEF Alone, Displaced, IInv, TypeInv, Fields, NamesInv
  <2>2. h[x].lock = 1 /\ h[y].lock = 1
    BY <2>1 DEF IInv, LockInv
  <2> QED  BY <2>2 DEF IInv, LockInv, NoFile
<1> QED  BY <1>1, <1>2, Zenon

(* So what it finds and does is all there is to say about the data.        *)
LEMMA HolderData ==
  ASSUME IInv, TypeInv', Grows, files' \in Nat, files' >= files,
         NEW x \in Handlers, h[x].pc \in Holding,
         \A y \in Handlers : y # x => h'[y] = h[y],
         ~Displaced /\ TaskInv(x) =>
           /\ TaskInv(x)'
           /\ (partial \in long => UNION plan \subseteq data[partial])'
           /\ (target \in Files => data[target] = Segs)'
  PROVE  DataInv'
<1> SUFFICES ASSUME ~Displaced'
             PROVE  DataInv'
  BY Zenon DEF DataInv
<1>1. ~Displaced
  BY DisplacedStays, Zenon DEF IInv, TypeInv, Fields
<1>2. TaskInv(x)
  BY <1>1, Zenon DEF IInv, DataInv
<1>3. ASSUME NEW y \in Handlers, y # x
      PROVE  TaskInv(y)'
  <2>1. h[y].pc \notin Holding
    BY <1>1, <1>3, OneHolder, Zenon
  <2> QED  BY <1>3, <2>1, Zenon DEF TaskInv, Holding
<1> QED  BY <1>1, <1>2, <1>3, Zenon DEF DataInv

(* A .part file that is opened by its name.                                *)
LEMMA Opened ==
  ASSUME NamesInv, NEW f \in Files, OpenPartial(f)
  PROVE  /\ files' \in 0 .. MaxFiles /\ files' >= files /\ partial' = f /\ f \in 1 .. files'
         /\ target' = target /\ target # f /\ target \in 0 .. files' \cup {UserFile}
         /\ long \subseteq 1 .. files'
         /\ f \in long => partial = f /\ files' = files
<1>1. CASE partial = NoFile
  <2>1. f = files + 1 /\ partial' = f /\ files' = f /\ target' = target
    BY <1>1, Zenon DEF OpenPartial
  <2> QED  BY <1>1, <2>1, DownloadAssumption DEF NamesInv, Files, UserFile
<1>2. CASE partial # NoFile
  <2>1. f = partial /\ partial' = f /\ files' = files /\ target' = target
    BY <1>2, Zenon DEF OpenPartial
  <2> QED  BY <1>2, <2>1 DEF NamesInv, Files, NoFile
<1> QED  BY <1>1, <1>2, Zenon

-----------------------------------------------------------------------------
(* handle_task and run_task.                                               *)

(* Probing, failing and looking for a request.                             *)
LEMMA ReadersKeep ==
  ASSUME IInv, NEW x \in Handlers, Probe(x) \/ TransferFails(x) \/ HandleError(x)
  PROVE  IInv'
<1> USE DEF IInv
<1>1. Undisturbed
  BY Zenon DEF Undisturbed, Probe, TransferFails, HandleError
<1>2. ASSUME h[x].pc = "probe", target = NoFile, Goto(x, "lock")
      PROVE  HandlersQuiet
  <2> DEFINE t == [h[x] EXCEPT !.pc = "lock"]
  <2>1. t \in Tasks /\ t.lock = h[x].lock /\ t.w = h[x].w /\ t.pc = "lock"
    BY ZenonT(60) DEF TypeInv, Tasks, Writing
  <2>2. h' = [h EXCEPT ![x] = t]
    BY <1>2, Zenon DEF Goto, TypeInv
  <2> HIDE DEF t
  <2>3. h' \in [Handlers -> Tasks] /\ h'[x] = t /\ \A y \in Handlers : y # x => h'[y] = h[y]
    BY <2>1, <2>2, Zenon DEF TypeInv
  <2>4. KeepsLock(x) /\ KeepsTask(x) /\ KeepsData(x)
    BY <1>2, <2>1, <2>3, Zenon DEF KeepsLock, KeepsTask, KeepsData, Holding, Begun, Writing
  <2>5. ASSUME NEW y \in Handlers, y # x
        PROVE  KeepsLock(y) /\ KeepsTask(y) /\ KeepsData(y)
    BY <2>3, <2>5, Zenon DEF KeepsLock, KeepsTask, KeepsData
  <2> QED  BY <2>3, <2>4, <2>5, Zenon DEF HandlersQuiet
<1>3. HandlersQuiet
  <2>1. CASE Probe(x)
    BY <2>1, <1>2, ErrorIsQuiet, Zenon DEF Probe
  <2>2. CASE TransferFails(x)
    BY <2>2, ErrorIsQuiet, Zenon DEF TransferFails
  <2>3. CASE HandleError(x)
    BY <2>3, GotoIsQuiet, InterruptIsQuiet, Zenon DEF HandleError
  <2> QED  BY <2>1, <2>2, <2>3, Zenon
<1> QED  BY <1>1, <1>3, UndisturbedKeeps, Zenon

(* poll claims the task: nobody else works on it and nobody recovers it.   *)
LEMMA ClaimKeeps ==
  ASSUME IInv, NEW x \in Handlers, NEW w \in Workers, Claim(x, w)
  PROVE  IInv'
<1> DEFINE t == [Idle EXCEPT !.pc = "probe", !.w = w, !.tries = retries]
<1>1. /\ h[x].pc = "idle" /\ status = "queued" /\ journal = {} /\ proc[w] = "up"
      /\ rec[w].pc = "idle"
      /\ status' = "running" /\ owner' = w /\ lease' = TRUE /\ control' = "none"
      /\ h' = [h EXCEPT ![x] = t]
      /\ retries' = retries /\ plan' = plan /\ journal' = journal /\ rec' = rec /\ proc' = proc
      /\ stalls' = stalls /\ shared' = shared
  BY Zenon DEF Claim, Row, bounds
<1>2. partial' = partial /\ target' = target /\ files' = files /\ data' = data /\ long' = long
  BY Zenon DEF Claim, disk, names
<1>3. t \in Tasks /\ t.lock = NoFile /\ t.w = w /\ t.pc = "probe"
  BY Zenon DEF IInv, TypeInv, Fields, Tasks, Idle, NoFile
<1> HIDE DEF t
<1>4. h' \in [Handlers -> Tasks] /\ h'[x] = t /\ \A y \in Handlers : y # x => h'[y] = h[y]
  BY <1>1, <1>3, Zenon DEF IInv, TypeInv
<1>5. TypeInv'
  BY <1>1, <1>4, Zenon DEF IInv, TypeInv, Fields
<1>6. DiskQuiet
  BY <1>1, <1>2, Zenon DEF DiskQuiet, Grows
<1>7. NamesInv'
  BY <1>6, NamesKept, Zenon DEF IInv
<1>8. LockInv'
  <2>1. \A y \in Handlers : KeepsLock(y)
    BY <1>3, <1>4, Zenon DEF KeepsLock, Holding
  <2>2. files' \in Nat /\ files' >= files
    BY <1>2 DEF IInv, NamesInv
  <2> QED  BY <2>1, <2>2, LocksKept, Zenon DEF IInv
<1>9. ProcInv'
  BY <1>1, <1>3, <1>4, Zenon DEF IInv, ProcInv
<1>10. DataInv'
  <2>1. \A y \in Handlers : KeepsData(y)
    BY <1>3, <1>4, Zenon DEF KeepsData
  <2> QED  BY <1>1, <1>5, <1>6, <2>1, DataKept, Zenon DEF IInv
<1>11. Control'
  <2>1. Alone => target \notin Files /\ \A y \in Handlers : h[y].pc = "idle"
    BY <1>1, Zenon DEF IInv, Control, OwnerInv, JournalInv
  <2>2. Alone => \A v \in Workers : rec[v].pc = "idle"
    BY <1>1, Zenon DEF IInv, ProcInv, Alone
  <2>3. Alone' = Alone
    BY <1>1, Zenon DEF Alone
  <2>4. OwnerInv'
    BY <1>1, <1>2, <1>3, <1>4, <2>1, <2>3, Zenon DEF OwnerInv
  <2>5. JournalInv'
    BY <1>1, <1>2, <1>3, <1>4, <2>1, <2>3, Zenon DEF JournalInv, IInv, Control
  <2>6. ASSUME NEW v \in Workers
        PROVE  RecoveryInv(v)'
    BY <1>1, <1>2, <2>2, <2>3, Zenon DEF RecoveryInv, IInv, Control
  <2> QED  BY <2>4, <2>5, <2>6, Zenon DEF Control
<1> QED  BY <1>5, <1>7, <1>8, <1>9, <1>10, <1>11, Zenon DEF IInv

(* The row of the task, but for its lease, and the recoveries stay.        *)
RowStays ==
  /\ status' = status /\ owner' = owner /\ lease' \in {lease, TRUE} /\ control' = control
  /\ retries' = retries /\ journal' = journal /\ rec' = rec /\ proc' = proc
  /\ stalls' = stalls /\ shared' = shared

(* Then it is quiet, and keeps the types with those of the plan.           *)
LEMMA RowStaysQuiet ==
  ASSUME TypeInv, RowStays, h' \in [Handlers -> Tasks], plan' \subseteq SUBSET Segs
  PROVE  TypeInv' /\ RowQuiet /\ Grows
<1>1. TypeInv'
  BY Zenon DEF TypeInv, Fields, RowStays
<1>2. RowQuiet /\ Grows
  BY Zenon DEF RowStays, RowQuiet, RecoveriesQuiet, Grows
<1> QED  BY <1>1, <1>2, Zenon

(* lock_partial: a file that is made is neither written to by another      *)
(* handler nor trusted by a plan.                                          *)
LEMMA LockPartialKeeps ==
  ASSUME IInv, NEW x \in Handlers, LockPartial(x)
  PROVE  IInv'
<1>0. h[x].pc = "lock" /\ plan' = plan /\ data' = data /\ long' = long /\ RowStays
  BY Zenon DEF LockPartial, RowStays, rows, task, bounds
<1>f. PICK f \in Files :
        /\ OpenPartial(f)
        /\ \/ Error(x, "retry")
           \/ ~Locked(f) /\ h' = [h EXCEPT ![x].pc = "plan", ![x].lock = f]
  BY Zenon DEF LockPartial
<1>1. /\ files' \in 0 .. MaxFiles /\ files' >= files /\ partial' = f /\ f \in 1 .. files'
      /\ target' = target /\ target # f /\ target \in 0 .. files' \cup {UserFile}
      /\ long \subseteq 1 .. files' /\ (f \in long => partial = f /\ files' = files)
  BY <1>f, Opened, Zenon DEF IInv
<1>2. NamesInv'
  BY <1>0, <1>1 DEF IInv, NamesInv
<1>3. TargetStays
  BY <1>0, <1>1, Zenon DEF TargetStays
<1>4. /\ h' \in [Handlers -> Tasks] /\ \A y \in Handlers : KeepsTask(y) /\ KeepsData(y)
      /\ LockInv'
  <2>1. CASE Error(x, "retry")
    <3>1. HandlersQuiet
      BY <1>0, <2>1, ErrorIsQuiet, Zenon DEF IInv
    <3>2. LockInv'
      BY <1>1, <3>1, LocksKept DEF IInv, HandlersQuiet
    <3> QED  BY <3>1, <3>2, Zenon DEF HandlersQuiet
  <2>2. CASE ~Locked(f) /\ h' = [h EXCEPT ![x].pc = "plan", ![x].lock = f]
    <3> DEFINE t == [h[x] EXCEPT !.pc = "plan", !.lock = f]
    <3>1. t \in Tasks /\ t.pc = "plan" /\ t.lock = f /\ t.w = h[x].w
      <4>1. f \in Nat
        BY DownloadAssumption DEF Files
      <4> QED  BY <4>1, ZenonT(60) DEF IInv, TypeInv, Tasks, Writing, Holding
    <3>2. h' = [h EXCEPT ![x] = t]
      BY <2>2, Zenon DEF IInv, TypeInv, Tasks
    <3> HIDE DEF t
    <3>3. h' \in [Handlers -> Tasks] /\ h'[x] = t /\ \A y \in Handlers : y # x => h'[y] = h[y]
      BY <3>1, <3>2, Zenon DEF IInv, TypeInv
    <3>4. KeepsTask(x) /\ KeepsData(x)
      BY <1>0, <3>1, <3>3, Zenon DEF KeepsTask, KeepsData, Begun, Writing, Holding
    <3>5. ASSUME NEW y \in Handlers, y # x
          PROVE  KeepsTask(y) /\ KeepsData(y)
      BY <3>3, <3>5, Zenon DEF KeepsTask, KeepsData
    <3>6. \A y \in Handlers : h[y].lock # f
      BY <2>2, Zenon DEF Locked
    <3>7. \A y \in Handlers : h'[y].pc \in Holding => h'[y].lock \in 1 .. files'
      BY <1>1, <3>1, <3>3 DEF IInv, LockInv, NamesInv
    <3>8. \A y, z \in Handlers : y # z /\ h'[y].lock # NoFile => h'[y].lock # h'[z].lock
      BY <3>1, <3>3, <3>6, ZenonT(60) DEF IInv, LockInv
    <3> QED  BY <3>3, <3>4, <3>5, <3>7, <3>8, Zenon DEF LockInv
  <2> QED  BY <1>f, <2>1, <2>2, Zenon
<1>5. TypeInv' /\ RowQuiet /\ Grows
  BY <1>0, <1>4, RowStaysQuiet, Zenon DEF IInv, TypeInv, Fields
<1>6. ProcInv'
  BY <1>0, <1>4, <1>5, ProcsKept, Zenon DEF IInv, RowStays, RowQuiet
<1>7. Alone' => Alone
  BY <1>0, Zenon DEF Alone, RowStays
<1>8. Control'
  BY <1>3, <1>4, <1>5, <1>7, ControlKept, Zenon DEF IInv
<1>9. DataInv'
  <2>1. CASE partial # NoFile
    <3>1. DiskQuiet
      BY <1>0, <1>1, <1>5, <1>f, <2>1, Zenon DEF DiskQuiet, OpenPartial
    <3> QED  BY <1>0, <1>4, <1>5, <3>1, DataKept, Zenon DEF IInv
  <2>2. CASE partial = NoFile
    <3>1. f \notin long /\ files' = files + 1
      BY <1>1, <1>f, <2>2 DEF OpenPartial, NoFile
    <3> SUFFICES ASSUME ~Displaced'
                 PROVE  DataInv'
      BY Zenon DEF DataInv
    <3>2. ~Displaced
      BY <1>1, <1>5, DisplacedStays DEF IInv, TypeInv, Fields
    <3>3. ASSUME NEW y \in Handlers, h[y].pc \in Holding
          PROVE  FALSE
      <4>1. files' > 1
        BY <3>1, <3>3 DEF IInv, LockInv, NamesInv
      <4>2. Alone
        BY <1>0, <4>1 DEF Alone, Displaced, RowStays, IInv, TypeInv, Fields
      <4> QED  BY <1>0, <3>3, <4>2, Zenon DEF IInv, Control, OwnerInv, Writing, Holding
    <3>4. ASSUME NEW y \in Handlers
          PROVE  TaskInv(y)'
      BY <1>4, <3>3, Zenon DEF TaskInv, KeepsData, Holding
    <3> QED  BY <1>0, <1>1, <3>1, <3>2, <3>4, Zenon DEF DataInv, IInv
  <2> QED  BY <2>1, <2>2, Zenon
<1> QED  BY <1>2, <1>4, <1>5, <1>6, <1>8, <1>9, Zenon DEF IInv

(* A handler that goes on with its file keeps the invariant if it keeps    *)
(* what is said about its own data.                                        *)
LEMMA ForwardKeeps ==
  ASSUME IInv, RowStays, plan' \subseteq SUBSET Segs, NamesInv', files' >= files, TargetStays,
         NEW x \in Handlers, NEW t \in Tasks, h' = [h EXCEPT ![x] = t],
         t.w = h[x].w, t.lock = h[x].lock, h[x].pc \in Holding \cap Begun,
         t.pc \in Holding \cap Begun,
         h'[x] = t /\ ~Displaced /\ TaskInv(x) =>
           /\ TaskInv(x)'
           /\ (partial \in long => UNION plan \subseteq data[partial])'
           /\ (target \in Files => data[target] = Segs)'
  PROVE  IInv'
<1>1. /\ h' \in [Handlers -> Tasks] /\ h'[x] = t
      /\ \A y \in Handlers : y # x => h'[y] = h[y]
      /\ \A y \in Handlers : KeepsLock(y) /\ KeepsTask(y)
  BY Proceeds, Zenon DEF IInv
<1>2. TypeInv' /\ RowQuiet /\ Grows
  BY <1>1, RowStaysQuiet, Zenon DEF IInv
<1>3. LockInv' /\ ProcInv' /\ Control'
  BY <1>1, <1>2, ProceedKeeps, Zenon DEF RowStays
<1>4. DataInv'
  BY <1>1, <1>2, HolderData DEF NamesInv
<1> QED  BY <1>2, <1>3, <1>4, Zenon DEF IInv

(* download_segmented: the segments that are trusted are in the file.      *)
LEMMA PlanSegmentsKeeps ==
  ASSUME IInv, NEW x \in Handlers, PlanSegments(x)
  PROVE  IInv'
<1>1. /\ h[x].pc = "plan" /\ RowStays
      /\ partial' = partial /\ target' = target /\ files' = files /\ data' = data /\ long' = long
  BY Zenon DEF PlanSegments, RowStays, task, bounds, disk, names
<1>2. NamesInv' /\ files' >= files /\ TargetStays
  BY <1>1 DEF IInv, NamesInv, TargetStays
<1>3. h[x] \in Tasks /\ h[x].pc \in Holding \cap Begun
  BY <1>1, Zenon DEF IInv, TypeInv, Holding, Begun
<1>4. CASE /\ plan # {} /\ partial \in long /\ plan' = plan
           /\ h' = [h EXCEPT ![x].pc = "transfer", ![x].out = partial,
                             ![x].todo = Segs \ UNION plan]
  <2> DEFINE t == [h[x] EXCEPT !.pc = "transfer", !.out = partial, !.todo = Segs \ UNION plan]
  <2>1. /\ t \in Tasks /\ t.pc = "transfer" /\ t.out = partial /\ t.todo = Segs \ UNION plan
        /\ t.w = h[x].w /\ t.lock = h[x].lock
    <3>1. partial \in Nat
      BY DEF IInv, NamesInv
    <3> QED  BY <1>3, <3>1, Zenon DEF Tasks, Writing, Holding
  <2>2. h' = [h EXCEPT ![x] = t]
    BY <1>4, Zenon DEF IInv, TypeInv, Tasks
  <2> HIDE DEF t
  <2>3. t.pc \in Holding \cap Begun
    BY <2>1, Zenon DEF Holding, Begun
  <2>4. ASSUME h'[x] = t, ~Displaced
        PROVE  /\ TaskInv(x)'
               /\ (partial \in long => UNION plan \subseteq data[partial])'
               /\ (target \in Files => data[target] = Segs)'
    <3>1. UNION plan \subseteq data[partial] /\ partial \in 1 .. files
      BY <1>4, <2>4, Zenon DEF IInv, DataInv, NamesInv
    <3> QED  BY <1>1, <1>4, <2>1, <2>4, <3>1, Zenon DEF TaskInv, IInv, DataInv
  <2>5. plan' \subseteq SUBSET Segs
    BY <1>4, Zenon DEF IInv, TypeInv, Fields
  <2> QED  BY <1>1, <1>2, <1>3, <2>1, <2>2, <2>3, <2>4, <2>5, ForwardKeeps, Zenon
<1>5. CASE plan' = {{}} /\ Goto(x, "open")
  <2> DEFINE t == [h[x] EXCEPT !.pc = "open"]
  <2>1. t \in Tasks /\ t.pc = "open" /\ t.w = h[x].w /\ t.lock = h[x].lock
    BY <1>3, Zenon DEF Tasks, Writing, Holding
  <2>2. h' = [h EXCEPT ![x] = t]
    BY <1>5, Zenon DEF IInv, TypeInv, Tasks, Goto
  <2> HIDE DEF t
  <2>3. t.pc \in Holding \cap Begun
    BY <2>1, Zenon DEF Holding, Begun
  <2>4. UNION plan' = {} /\ plan' \subseteq SUBSET Segs
    BY <1>5, Zenon
  <2>5. ASSUME h'[x] = t, ~Displaced
        PROVE  /\ TaskInv(x)'
               /\ (partial \in long => UNION plan \subseteq data[partial])'
               /\ (target \in Files => data[target] = Segs)'
    BY <1>1, <2>1, <2>4, <2>5, Zenon DEF TaskInv, IInv, DataInv
  <2> QED  BY <1>1, <1>2, <1>3, <2>1, <2>2, <2>3, <2>4, <2>5, ForwardKeeps, Zenon
<1>6. CASE Error(x, "fail") /\ plan' = plan
  <2>1. Undisturbed
    BY <1>6, Zenon DEF Undisturbed, PlanSegments, rows
  <2>2. HandlersQuiet
    BY <1>1, <1>6, ErrorIsQuiet, Zenon DEF IInv
  <2> QED  BY <2>1, <2>2, UndisturbedKeeps, Zenon
<1> QED  BY <1>4, <1>5, <1>6, Zenon DEF PlanSegments

(* open_partial(true) and set_len: the plan trusts nothing yet.            *)
LEMMA OpenTruncatedKeeps ==
  ASSUME IInv, NEW x \in Handlers, OpenTruncated(x)
  PROVE  IInv'
<1>1. h[x].pc = "open" /\ plan' = plan /\ RowStays
  BY Zenon DEF OpenTruncated, RowStays, rows, task, bounds
<1>f. PICK f \in Files :
        /\ OpenPartial(f)
        /\ data' = [data EXCEPT ![f] = {}] /\ long' = long \cup {f}
        /\ h' = [h EXCEPT ![x].pc = "transfer", ![x].out = f, ![x].todo = Segs]
  BY Zenon DEF OpenTruncated
<1>2. /\ files' \in 0 .. MaxFiles /\ files' >= files /\ partial' = f /\ f \in 1 .. files'
      /\ target' = target /\ target # f /\ target \in 0 .. files' \cup {UserFile}
      /\ long \subseteq 1 .. files'
  BY <1>f, Opened, Zenon DEF IInv
<1>3. NamesInv'
  BY <1>2, <1>f DEF IInv, NamesInv
<1>4. TargetStays
  BY <1>2, <1>f, Zenon DEF TargetStays
<1>5. h[x] \in Tasks /\ h[x].pc \in Holding \cap Begun /\ f \in Nat
  BY <1>1, DownloadAssumption DEF IInv, TypeInv, Holding, Begun, Files
<1> DEFINE t == [h[x] EXCEPT !.pc = "transfer", !.out = f, !.todo = Segs]
<1>6. /\ t \in Tasks /\ t.pc = "transfer" /\ t.out = f /\ t.todo = Segs
      /\ t.w = h[x].w /\ t.lock = h[x].lock
  BY <1>5, Zenon DEF Tasks, Writing, Holding
<1>7. h' = [h EXCEPT ![x] = t]
  BY <1>f, Zenon DEF IInv, TypeInv, Tasks
<1> HIDE DEF t
<1>8. t.pc \in Holding \cap Begun
  BY <1>6, Zenon DEF Holding, Begun
<1>9. plan' \subseteq SUBSET Segs
  BY <1>1, Zenon DEF IInv, TypeInv, Fields
<1>10. ASSUME h'[x] = t, ~Displaced, TaskInv(x)
       PROVE  /\ TaskInv(x)'
              /\ (partial \in long => UNION plan \subseteq data[partial])'
              /\ (target \in Files => data[target] = Segs)'
  <2>1. TaskInv(x)'
    BY <1>2, <1>6, <1>10, Zenon DEF TaskInv
  <2>2. UNION plan' = {}
    BY <1>1, <1>10, Zenon DEF TaskInv
  <2>3. (target \in Files => data[target] = Segs)'
    BY <1>2, <1>f, <1>10, Zenon DEF IInv, DataInv, NamesInv
  <2> QED  BY <2>1, <2>2, <2>3, Zenon
<1> QED  BY <1>1, <1>2, <1>3, <1>4, <1>5, <1>6, <1>7, <1>8, <1>9, <1>10, ForwardKeeps, Zenon

(* download_segment: bytes are only added.                                 *)
LEMMA WriteSegmentKeeps ==
  ASSUME IInv, NEW x \in Handlers, NEW s \in Segs, WriteSegment(x, s)
  PROVE  IInv'
<1>1. /\ h[x].pc = "transfer" /\ plan' = plan /\ RowStays /\ h' = h
      /\ partial' = partial /\ target' = target /\ files' = files /\ long' = long
      /\ data' = [data EXCEPT ![h[x].out] = @ \cup {s}]
  BY Zenon DEF WriteSegment, RowStays, rows, task, bounds, names
<1>2. h[x] \in Tasks /\ h[x].pc \in Holding \cap Begun /\ h' = [h EXCEPT ![x] = h[x]]
  BY <1>1, Zenon DEF IInv, TypeInv, Holding, Begun
<1>3. \A f \in Files : data[f] \subseteq data'[f] /\ data'[f] \subseteq Segs
  BY <1>1, Zenon DEF IInv, NamesInv
<1>a. data' \in [Files -> SUBSET Segs]
  BY <1>1, <1>3, Zenon DEF IInv, NamesInv
<1>4. NamesInv' /\ files' >= files /\ TargetStays
  BY <1>1, <1>a DEF IInv, NamesInv, TargetStays
<1>5. plan' \subseteq SUBSET Segs
  BY <1>1, Zenon DEF IInv, TypeInv, Fields
<1>6. ASSUME ~Displaced, TaskInv(x)
      PROVE  /\ TaskInv(x)'
             /\ (partial \in long => UNION plan \subseteq data[partial])'
             /\ (target \in Files => data[target] = Segs)'
  <2>1. long \subseteq Files /\ 1 .. files \subseteq Files
    BY DownloadAssumption DEF IInv, NamesInv, Files
  <2>2. TaskInv(x)'
    BY <1>1, <1>3, <1>6, <2>1, Zenon DEF TaskInv
  <2>3. (partial \in long => UNION plan \subseteq data[partial])'
    BY <1>1, <1>3, <1>6, <2>1, Zenon DEF IInv, DataInv
  <2>4. (target \in Files => data[target] = Segs)'
    BY <1>1, <1>3, <1>6, ZenonT(60) DEF IInv, DataInv
  <2> QED  BY <2>2, <2>3, <2>4, Zenon
<1> QED  BY <1>1, <1>2, <1>4, <1>5, <1>6, ForwardKeeps, Zenon

(* The segment that is checkpointed is in the file.                        *)
LEMMA CheckpointSegmentKeeps ==
  ASSUME IInv, NEW x \in Handlers, NEW s \in Segs, CheckpointSegment(x, s)
  PROVE  IInv'
<1>1. /\ h[x].pc = "transfer" /\ s \in h[x].todo /\ s \in data[h[x].out]
      /\ partial' = partial /\ target' = target /\ files' = files /\ data' = data /\ long' = long
  BY Zenon DEF CheckpointSegment, disk, names
<1>2. CASE plan' = {ck \cup {s} : ck \in plan} /\ lease' = TRUE
           /\ h' = [h EXCEPT ![x].todo = @ \ {s}]
  <2>1. RowStays
    BY <1>2, Zenon DEF CheckpointSegment, RowStays, bounds
  <2>2. NamesInv' /\ files' >= files /\ TargetStays
    BY <1>1 DEF IInv, NamesInv, TargetStays
  <2>3. h[x] \in Tasks /\ h[x].pc \in Holding \cap Begun
    BY <1>1, Zenon DEF IInv, TypeInv, Holding, Begun
  <2> DEFINE t == [h[x] EXCEPT !.todo = h[x].todo \ {s}]
  <2>4. /\ t \in Tasks /\ t.pc = h[x].pc /\ t.out = h[x].out /\ t.todo = h[x].todo \ {s}
        /\ t.w = h[x].w /\ t.lock = h[x].lock
    BY <2>3, Zenon DEF Tasks
  <2>5. h' = [h EXCEPT ![x] = t]
    BY <1>2, Zenon DEF IInv, TypeInv, Tasks
  <2> HIDE DEF t
  <2>6. plan' \subseteq SUBSET Segs /\ UNION plan' \subseteq (UNION plan) \cup {s}
    <3>1. ASSUME NEW c \in plan'
          PROVE  c \in SUBSET Segs /\ c \subseteq (UNION plan) \cup {s}
      <4>1. PICK ck \in plan : c = ck \cup {s}
        BY <1>2, <3>1, Zenon
      <4>2. ck \in SUBSET Segs
        BY Zenon DEF IInv, TypeInv, Fields
      <4>3. c \in SUBSET Segs
        BY <4>1, <4>2, Zenon
      <4>4. c \subseteq (UNION plan) \cup {s}
        BY <4>1, Zenon
      <4> QED  BY <4>3, <4>4, Zenon
    <3>2. UNION plan' \subseteq (UNION plan) \cup {s}
      BY <3>1, Zenon
    <3> QED  BY <3>1, <3>2, Zenon
  <2>7. ASSUME h'[x] = t, ~Displaced, TaskInv(x)
        PROVE  /\ TaskInv(x)'
               /\ (partial \in long => UNION plan \subseteq data[partial])'
               /\ (target \in Files => data[target] = Segs)'
    <3>1. TaskInv(x)'
      BY <1>1, <2>4, <2>7, Zenon DEF TaskInv
    <3>2. (partial \in long => UNION plan \subseteq data[partial])'
      <4>1. partial \in long => UNION plan \subseteq data[partial] /\ partial = h[x].out
        BY <1>1, <2>7, Zenon DEF TaskInv, IInv, DataInv
      <4>2. partial' \in long' => s \in data[partial] /\ UNION plan \subseteq data[partial]
        BY <1>1, <4>1, Zenon
      <4>3. UNION plan' \subseteq (UNION plan) \cup {s} /\ data'[partial'] = data[partial]
        BY <1>1, <2>6, Zenon
      <4>4. ASSUME partial' \in long', NEW e \in UNION plan'
            PROVE  e \in data'[partial']
        BY <4>2, <4>3, <4>4, Zenon
      <4> QED  BY <4>4, Zenon
    <3> QED  BY <1>1, <2>7, <3>1, <3>2, Zenon DEF IInv, DataInv
  <2> QED  BY <2>1, <2>2, <2>3, <2>4, <2>5, <2>6, <2>7, ForwardKeeps, Zenon
<1>3. CASE Error(x, "fail") /\ UNCHANGED <<plan, lease>>
  <2>1. Undisturbed
    BY <1>3, Zenon DEF Undisturbed, CheckpointSegment, rows, task
  <2>2. HandlersQuiet
    BY <1>1, <1>3, ErrorIsQuiet, Zenon DEF IInv
  <2> QED  BY <2>1, <2>2, UndisturbedKeeps, Zenon
<1> QED  BY <1>2, <1>3, Zenon DEF CheckpointSegment

(* The source has changed: the plan is dropped.                            *)
LEMMA SourceChangedKeeps ==
  ASSUME IInv, NEW x \in Handlers, SourceChanged(x)
  PROVE  IInv'
<1>1. /\ h[x].pc = "transfer" /\ RowStays
      /\ partial' = partial /\ target' = target /\ files' = files /\ data' = data /\ long' = long
  BY Zenon DEF SourceChanged, RowStays, task, Event, disk, names
<1>2. CASE plan' = {} /\ h' = [h EXCEPT ![x].pc = "restart", ![x].out = NoFile,
                                    ![x].todo = {}, ![x].again = TRUE]
  <2>1. NamesInv' /\ files' >= files /\ TargetStays
    BY <1>1 DEF IInv, NamesInv, TargetStays
  <2>2. h[x] \in Tasks /\ h[x].pc \in Holding \cap Begun
    BY <1>1, Zenon DEF IInv, TypeInv, Holding, Begun
  <2> DEFINE t == [h[x] EXCEPT !.pc = "restart", !.out = NoFile, !.todo = {}, !.again = TRUE]
  <2>3. t \in Tasks /\ t.pc = "restart" /\ t.w = h[x].w /\ t.lock = h[x].lock
    BY <2>2, Zenon DEF Tasks, Writing, Holding, NoFile
  <2>4. h' = [h EXCEPT ![x] = t]
    BY <1>2, Zenon DEF IInv, TypeInv, Tasks
  <2> HIDE DEF t
  <2>5. t.pc \in Holding \cap Begun
    BY <2>3, Zenon DEF Holding, Begun
  <2>6. plan' \subseteq SUBSET Segs /\ UNION plan' = {}
    BY <1>2, Zenon
  <2>7. ASSUME h'[x] = t, ~Displaced
        PROVE  /\ TaskInv(x)'
               /\ (partial \in long => UNION plan \subseteq data[partial])'
               /\ (target \in Files => data[target] = Segs)'
    BY <1>1, <2>3, <2>6, <2>7, Zenon DEF TaskInv, IInv, DataInv
  <2> QED  BY <1>1, <2>1, <2>2, <2>3, <2>4, <2>5, <2>6, <2>7, ForwardKeeps, Zenon
<1>3. CASE Error(x, "fail") /\ plan' = plan
  <2>1. Undisturbed
    BY <1>3, Zenon DEF Undisturbed, SourceChanged, rows
  <2>2. HandlersQuiet
    BY <1>1, <1>3, ErrorIsQuiet, Zenon DEF IInv
  <2> QED  BY <2>1, <2>2, UndisturbedKeeps, Zenon
<1> QED  BY <1>2, <1>3, Zenon DEF SourceChanged

(* The file is emptied and no longer trusted.                              *)
LEMMA RestartTransferKeeps ==
  ASSUME IInv, NEW x \in Handlers, RestartTransfer(x)
  PROVE  IInv'
<1>1. h[x].pc = "restart" /\ plan' = plan /\ RowStays /\ Goto(x, "plan")
  BY Zenon DEF RestartTransfer, RowStays, rows, task, bounds
<1>f. PICK f \in Files :
        OpenPartial(f) /\ data' = [data EXCEPT ![f] = {}] /\ long' = long \ {f}
  BY Zenon DEF RestartTransfer
<1>2. /\ files' \in 0 .. MaxFiles /\ files' >= files /\ partial' = f /\ f \in 1 .. files'
      /\ target' = target /\ target # f /\ target \in 0 .. files' \cup {UserFile}
      /\ long \subseteq 1 .. files'
  BY <1>f, Opened, Zenon DEF IInv
<1>3. NamesInv'
  BY <1>2, <1>f DEF IInv, NamesInv
<1>4. TargetStays
  BY <1>2, <1>f, Zenon DEF TargetStays
<1>5. h[x] \in Tasks /\ h[x].pc \in Holding \cap Begun
  BY <1>1, Zenon DEF IInv, TypeInv, Holding, Begun
<1> DEFINE t == [h[x] EXCEPT !.pc = "plan"]
<1>6. t \in Tasks /\ t.pc = "plan" /\ t.w = h[x].w /\ t.lock = h[x].lock
  BY <1>5, Zenon DEF Tasks, Writing, Holding
<1>7. h' = [h EXCEPT ![x] = t]
  BY <1>1, Zenon DEF IInv, TypeInv, Tasks, Goto
<1> HIDE DEF t
<1>8. t.pc \in Holding \cap Begun
  BY <1>6, Zenon DEF Holding, Begun
<1>9. plan' \subseteq SUBSET Segs
  BY <1>1, Zenon DEF IInv, TypeInv, Fields
<1>10. ASSUME h'[x] = t, ~Displaced
       PROVE  /\ TaskInv(x)'
              /\ (partial \in long => UNION plan \subseteq data[partial])'
              /\ (target \in Files => data[target] = Segs)'
  <2>1. TaskInv(x)'
    BY <1>6, <1>10, Zenon DEF TaskInv
  <2>2. partial' \notin long'
    BY <1>2, <1>f, Zenon
  <2>3. (target \in Files => data[target] = Segs)'
    BY <1>2, <1>f, <1>10, Zenon DEF IInv, DataInv, NamesInv
  <2> QED  BY <2>1, <2>2, <2>3, Zenon
<1> QED  BY <1>1, <1>2, <1>3, <1>4, <1>5, <1>6, <1>7, <1>8, <1>9, <1>10, ForwardKeeps, Zenon

(* All segments are transferred, so the file has them.                     *)
LEMMA VerifyKeeps ==
  ASSUME IInv, NEW x \in Handlers, Verify(x)
  PROVE  IInv'
<1>1. /\ h[x].pc = "transfer" /\ h[x].todo = {} /\ RowStays /\ plan' = plan
      /\ partial' = partial /\ target' = target /\ files' = files /\ data' = data /\ long' = long
  BY Zenon DEF Verify, RowStays, rows, task, bounds, disk, names
<1>2. CASE Transferred(x)
  <2>1. NamesInv' /\ files' >= files /\ TargetStays
    BY <1>1 DEF IInv, NamesInv, TargetStays
  <2>2. h[x] \in Tasks /\ h[x].pc \in Holding \cap Begun
    BY <1>1, Zenon DEF IInv, TypeInv, Holding, Begun
  <2> DEFINE t == [h[x] EXCEPT !.pc = "prepare", !.out = NoFile, !.again = FALSE]
  <2>3. t \in Tasks /\ t.pc = "prepare" /\ t.w = h[x].w /\ t.lock = h[x].lock
    BY <2>2, Zenon DEF Tasks, Writing, Holding, NoFile
  <2>4. h' = [h EXCEPT ![x] = t]
    BY <1>2, Zenon DEF IInv, TypeInv, Tasks, Transferred
  <2> HIDE DEF t
  <2>5. t.pc \in Holding \cap Begun
    BY <2>3, Zenon DEF Holding, Begun
  <2>6. plan' \subseteq SUBSET Segs
    BY <1>1, Zenon DEF IInv, TypeInv, Fields
  <2>7. ASSUME h'[x] = t, ~Displaced, TaskInv(x)
        PROVE  /\ TaskInv(x)'
               /\ (partial \in long => UNION plan \subseteq data[partial])'
               /\ (target \in Files => data[target] = Segs)'
    <3>1. h[x].out \in Files /\ data[h[x].out] \subseteq Segs
      BY <1>1, <2>7, DownloadAssumption DEF TaskInv, IInv, NamesInv, Files
    <3>2. TaskInv(x)'
      BY <1>1, <2>3, <2>7, <3>1, Zenon DEF TaskInv
    <3> QED  BY <1>1, <2>7, <3>2, Zenon DEF IInv, DataInv
  <2> QED  BY <1>1, <2>1, <2>2, <2>3, <2>4, <2>5, <2>6, <2>7, ForwardKeeps, Zenon
<1>3. CASE ~Transferred(x)
  <2>1. Undisturbed
    BY Zenon DEF Undisturbed, Verify
  <2>2. HandlersQuiet
    BY <1>1, <1>3, ErrorIsQuiet, InterruptIsQuiet, Zenon DEF IInv, Verify
  <2> QED  BY <2>1, <2>2, UndisturbedKeeps, Zenon
<1> QED  BY <1>2, <1>3, Zenon

(* The identity that is taken is that of the whole file.                   *)
LEMMA PrepareKeeps ==
  ASSUME IInv, NEW x \in Handlers, Prepare(x)
  PROVE  IInv'
<1>1. h[x].pc = "prepare" /\ plan' = plan /\ data' = data /\ long' = long /\ RowStays
  BY Zenon DEF Prepare, RowStays, rows, task, bounds
<1>2. CASE control # "none" /\ Interrupt(x) /\ UNCHANGED names
  <2>1. Undisturbed
    BY <1>2, Zenon DEF Undisturbed, Prepare, disk
  <2>2. HandlersQuiet
    BY <1>1, <1>2, InterruptIsQuiet, Zenon DEF IInv
  <2> QED  BY <2>1, <2>2, UndisturbedKeeps, Zenon
<1>3. ASSUME NEW f \in Files, OpenPartial(f),
             IF f \in long THEN h' = [h EXCEPT ![x].pc = "journal", ![x].id = f]
             ELSE Error(x, "fail")
      PROVE  IInv'
  <2>1. /\ files' \in 0 .. MaxFiles /\ files' >= files /\ partial' = f /\ f \in 1 .. files'
        /\ target' = target /\ target # f /\ target \in 0 .. files' \cup {UserFile}
        /\ long \subseteq 1 .. files' /\ (f \in long => partial = f /\ files' = files)
    BY <1>3, Opened, Zenon DEF IInv
  <2>2. NamesInv'
    BY <1>1, <2>1 DEF IInv, NamesInv
  <2>3. TargetStays
    BY <1>1, <2>1, Zenon DEF TargetStays
  <2>4. h[x] \in Tasks /\ h[x].pc \in Holding \cap Begun /\ f \in Nat
    BY <1>1, DownloadAssumption DEF IInv, TypeInv, Holding, Begun, Files
  <2>5. plan' \subseteq SUBSET Segs
    BY <1>1, Zenon DEF IInv, TypeInv, Fields
  <2>6. CASE f \in long
    <3> DEFINE t == [h[x] EXCEPT !.pc = "journal", !.id = f]
    <3>1. t \in Tasks /\ t.pc = "journal" /\ t.id = f /\ t.w = h[x].w /\ t.lock = h[x].lock
      BY <2>4, Zenon DEF Tasks, Writing, Holding
    <3>2. h' = [h EXCEPT ![x] = t]
      BY <1>3, <2>6, Zenon DEF IInv, TypeInv, Tasks
    <3> HIDE DEF t
    <3>3. t.pc \in Holding \cap Begun
      BY <3>1, Zenon DEF Holding, Begun
    <3>4. ASSUME h'[x] = t, ~Displaced, TaskInv(x)
          PROVE  /\ TaskInv(x)'
                 /\ (partial \in long => UNION plan \subseteq data[partial])'
                 /\ (target \in Files => data[target] = Segs)'
      BY <1>1, <2>1, <2>6, <3>1, <3>4, Zenon DEF TaskInv, IInv, DataInv
    <3> QED  BY <1>1, <2>1, <2>2, <2>3, <2>4, <2>5, <3>1, <3>2, <3>3, <3>4, ForwardKeeps, Zenon
  <2>7. CASE f \notin long
    <3>1. HandlersQuiet
      BY <1>1, <1>3, <2>7, ErrorIsQuiet, Zenon DEF IInv
    <3>2. TypeInv' /\ RowQuiet /\ Grows
      BY <1>1, <2>5, <3>1, RowStaysQuiet, Zenon DEF IInv, HandlersQuiet
    <3>3. LockInv' /\ ProcInv' /\ Control'
      BY <1>1, <2>1, <2>2, <2>3, <3>1, <3>2, ProceedKeeps, Zenon DEF RowStays, HandlersQuiet
    <3>4. h'[x].pc \notin Holding /\ \A y \in Handlers : y # x => h'[y] = h[y]
      BY <1>1, <1>3, <2>7, ErrorIsQuiet DEF IInv, Holding
    <3>5. ~Displaced => (target \in Files => data[target] = Segs)'
      BY <1>1, <2>1, Zenon DEF IInv, DataInv
    <3>6. DataInv'
      BY <1>1, <2>1, <2>2, <2>4, <2>7, <3>2, <3>4, <3>5, HolderData
      DEF TaskInv, Holding, NamesInv
    <3> QED  BY <2>2, <3>2, <3>3, <3>6, Zenon DEF IInv
  <2> QED  BY <2>6, <2>7, Zenon
<1> QED  BY <1>2, <1>3, Zenon DEF Prepare

(* A quiet step, in which perhaps a request is recorded, a recovery ends   *)
(* or a plan is dropped.                                                   *)
LEMMA QuietStep ==
  ASSUME IInv, Fields', rec' \in [Workers -> Recoveries], HandlersQuiet, RowQuiet, DiskQuiet,
         proc' = proc, shared' = shared, UNION plan' \subseteq UNION plan
  PROVE  IInv'
<1>1. TypeInv'
  BY Zenon DEF TypeInv, HandlersQuiet
<1>2. NamesInv' /\ LockInv' /\ Control' /\ DataInv'
  BY <1>1, QuietKeeps, Zenon
<1>3. ProcInv'
  BY ProcsKept, Zenon DEF IInv, HandlersQuiet, RowQuiet
<1> QED  BY <1>1, <1>2, <1>3, Zenon DEF IInv

(* begin_publish: nobody else works on the task and nobody recovers it.    *)
LEMMA BeginPublishKeeps ==
  ASSUME IInv, NEW x \in Handlers, BeginPublish(x)
  PROVE  IInv'
<1>1. /\ h[x].pc = "journal" /\ plan' = plan /\ rec' = rec /\ proc' = proc
      /\ status' = status /\ owner' = owner /\ lease' = lease /\ control' = control
      /\ retries' = retries /\ stalls' = stalls /\ shared' = shared
      /\ partial' = partial /\ target' = target /\ files' = files /\ data' = data /\ long' = long
  BY Zenon DEF BeginPublish, task, bounds, disk, names
<1>2. CASE journal' = journal /\ (Error(x, "fail") \/ (control # "none" /\ Interrupt(x)))
  <2>1. Undisturbed
    BY <1>2, Zenon DEF Undisturbed, BeginPublish, rows
  <2>2. HandlersQuiet
    BY <1>1, <1>2, ErrorIsQuiet, InterruptIsQuiet, Zenon DEF IInv
  <2> QED  BY <2>1, <2>2, UndisturbedKeeps, Zenon
<1>3. CASE journal' = {Entry(x)} /\ Goto(x, "publish")
  <2> DEFINE t == [h[x] EXCEPT !.pc = "publish"]
  <2>1. h[x] \in Tasks /\ h[x].w \in Workers
    BY <1>1, Zenon DEF IInv, TypeInv, ProcInv
  <2>2. t \in Tasks /\ t.pc = "publish" /\ t.w = h[x].w /\ t.lock = h[x].lock /\ t.id = h[x].id
    BY <2>1, Zenon DEF Tasks, Writing, Holding
  <2>3. h' = [h EXCEPT ![x] = t]
    BY <1>3, Zenon DEF IInv, TypeInv, Tasks, Goto
  <2> HIDE DEF t
  <2>4. h' \in [Handlers -> Tasks] /\ h'[x] = t /\ \A y \in Handlers : y # x => h'[y] = h[y]
    BY <2>2, <2>3, Zenon DEF IInv, TypeInv
  <2>5. Entry(x) \in Entries
    BY <2>1, Zenon DEF Entry, Entries, Tasks
  <2>6. TypeInv'
    BY <1>1, <1>3, <2>4, <2>5, Zenon DEF IInv, TypeInv, Fields
  <2>7. NamesInv'
    BY <1>1, Zenon DEF IInv, NamesInv
  <2>8. LockInv'
    <3>1. \A y \in Handlers : KeepsLock(y)
      BY <1>1, <2>2, <2>4, Zenon DEF KeepsLock, Holding
    <3> QED  BY <1>1, <3>1, LocksKept DEF IInv, NamesInv
  <2>9. ProcInv'
    BY <1>1, <2>2, <2>4 DEF IInv, ProcInv
  <2>10. Control'
    <3>1. Alone' = Alone
      BY <1>1, Zenon DEF Alone
    <3>2. Alone => target \notin Files /\ \A y \in Handlers : y # x => h[y].pc = "idle"
      BY <1>1, Zenon DEF IInv, Control, OwnerInv, Writing, Holding
    <3>3. Alone => \A w \in Workers : rec[w].pc = "idle"
      BY <1>1, <3>2, Zenon DEF IInv, Control, RecoveryInv, Begun
    <3>4. OwnerInv'
      BY <1>1, <2>2, <2>4, <3>1, <3>2, Zenon DEF IInv, Control, OwnerInv
    <3>5. JournalInv'
      <4>1. Entry(x)' = Entry(x)
        BY <2>2, <2>4, Zenon DEF Entry
      <4> QED  BY <1>1, <1>3, <2>2, <2>4, <3>1, <3>2, <4>1, Zenon DEF IInv, Control, JournalInv, Begun
    <3>6. ASSUME NEW w \in Workers
          PROVE  RecoveryInv(w)'
      BY <1>1, <3>1, <3>3, Zenon DEF IInv, Control, RecoveryInv
    <3> QED  BY <3>4, <3>5, <3>6, Zenon DEF Control
  <2>11. DataInv'
    <3>1. ~Displaced => /\ partial \in long => UNION plan \subseteq data[partial]
                        /\ target \in Files => data[target] = Segs
      BY Zenon DEF IInv, DataInv
    <3>2. TaskInv(x) => TaskInv(x)'
      BY <1>1, <2>2, <2>4, Zenon DEF TaskInv
    <3>3. Grows /\ files' \in Nat /\ files' >= files /\ h[x].pc \in Holding
      BY <1>1 DEF Grows, Holding, IInv, NamesInv
    <3> QED  BY <1>1, <2>4, <2>6, <3>1, <3>2, <3>3, HolderData, Zenon
  <2> QED  BY <2>6, <2>7, <2>8, <2>9, <2>10, <2>11, Zenon DEF IInv
<1> QED  BY <1>2, <1>3, Zenon DEF BeginPublish

(* publish: the file that is renamed is whole and is the one journaled.    *)
LEMMA PublishKeeps ==
  ASSUME IInv, NEW x \in Handlers, Publish(x)
  PROVE  IInv'
<1>1. /\ h[x].pc = "publish" /\ RowStays /\ plan' = plan
      /\ files' = files /\ data' = data /\ long' = long
  BY Zenon DEF Publish, RowStays, rows, task, bounds, Event
<1>2. CASE Error(x, "fail") /\ target' = target /\ partial' = partial
  <2>1. HandlersQuiet
    BY <1>1, <1>2, ErrorIsQuiet, Zenon DEF IInv
  <2>2. TypeInv' /\ RowQuiet /\ Grows
    BY <1>1, <2>1, RowStaysQuiet, Zenon DEF IInv, TypeInv, Fields, HandlersQuiet
  <2>3. DiskQuiet
    BY <1>1, <1>2, <2>2, Zenon DEF DiskQuiet
  <2> QED  BY <1>1, <2>1, <2>2, <2>3, QuietStep, Zenon DEF TypeInv, RowStays
<1>3. CASE /\ target = NoFile /\ partial # NoFile /\ target' = partial /\ partial' = NoFile
           /\ Goto(x, "finalize") \/ Error(x, "fail")
  <2>1. PICK t \in Tasks : /\ h' = [h EXCEPT ![x] = t] /\ t.pc \in {"finalize", "error"}
                           /\ t.w = h[x].w /\ t.lock \in {NoFile, h[x].lock}
    <3>1. CASE Goto(x, "finalize")
      <4> DEFINE t == [h[x] EXCEPT !.pc = "finalize"]
      <4>1. t \in Tasks /\ t.pc = "finalize" /\ t.w = h[x].w /\ t.lock = h[x].lock
        BY ZenonT(60) DEF IInv, TypeInv, Tasks
      <4>2. h' = [h EXCEPT ![x] = t]
        BY <3>1, Zenon DEF Goto, IInv, TypeInv, Tasks
      <4> QED  BY <4>1, <4>2, Zenon
    <3>2. CASE Error(x, "fail")
      <4> DEFINE t == [Idle EXCEPT !.pc = "error", !.err = "fail", !.w = h[x].w,
                                   !.tries = h[x].tries]
      <4>1. t \in Tasks /\ t.pc = "error" /\ t.w = h[x].w /\ t.lock = NoFile
        BY Zenon DEF IInv, TypeInv, Tasks, Idle, NoFile
      <4>2. h' = [h EXCEPT ![x] = t]
        BY <3>2, Zenon DEF Error
      <4> QED  BY <4>1, <4>2, Zenon
    <3> QED  BY <1>3, <3>1, <3>2, Zenon
  <2>2. h' \in [Handlers -> Tasks] /\ h'[x] = t /\ \A y \in Handlers : y # x => h'[y] = h[y]
    BY <2>1, Zenon DEF IInv, TypeInv
  <2>3. TypeInv' /\ RowQuiet /\ Grows
    BY <1>1, <2>2, RowStaysQuiet, Zenon DEF IInv, TypeInv, Fields
  <2>4. target' \in Files /\ target \notin Files /\ partial \in 1 .. files
    BY <1>3, NoFiles, DownloadAssumption DEF IInv, NamesInv, NoFile, Files
  <2>5. NamesInv'
    BY <1>1, <1>3, <2>4 DEF IInv, NamesInv, NoFile
  <2>6. LockInv'
    <3>1. \A y \in Handlers : KeepsLock(y)
      BY <2>1, <2>2, Zenon DEF KeepsLock, Holding
    <3> QED  BY <1>1, <3>1, LocksKept DEF IInv, NamesInv
  <2>7. ProcInv'
    BY <1>1, <2>1, <2>2, Zenon DEF IInv, ProcInv, RowStays
  <2>8. ~Displaced => partial = h[x].id /\ partial \in long /\ data[partial] = Segs
    BY <1>1, <1>3, Zenon DEF IInv, DataInv, TaskInv
  <2>9. Control'
    <3>1. Alone' = Alone /\ (Alone => ~Displaced)
      BY <1>1 DEF Alone, Displaced, RowStays
    <3>2. Alone => /\ \A y \in Handlers : y # x => h[y].pc = "idle"
                   /\ journal = {Entry(x)}
      BY <1>1, <2>4, Zenon DEF IInv, Control, OwnerInv, JournalInv
    <3>3. Entry(x) \in Entries /\ Entry(x).file = h[x].id
      BY <1>1, Zenon DEF Entry, Entries, Tasks, IInv, TypeInv, ProcInv
    <3>4. OwnerInv'
      BY <2>1, <2>2, <2>4, <3>1, <3>2, Zenon DEF OwnerInv, Writing, Holding
    <3>5. JournalInv'
      BY <1>1, <1>3, <2>4, <2>8, <3>1, <3>2, <3>3, Zenon DEF JournalInv, Identified, RowStays
    <3>6. ASSUME NEW w \in Workers
          PROVE  RecoveryInv(w)'
      <4>1. rec' = rec /\ RecoveryInv(w)
        BY <1>1, Zenon DEF RowStays, IInv, Control
      <4>2. Alone => rec[w].pc \notin {"partial", "conflict", "unpublished"}
        BY <1>1, <2>4, <4>1, Zenon DEF RecoveryInv
      <4>3. Alone /\ rec[w].pc = "target" => \A e \in rec[w].row : Identified(partial, e)
        BY <2>4, <2>8, <3>1, <3>2, <3>3, <4>1, Zenon DEF RecoveryInv, Identified
      <4> QED  BY <1>1, <1>3, <2>4, <3>1, <4>1, <4>2, <4>3, Zenon DEF RecoveryInv, Identified
    <3> QED  BY <3>4, <3>5, <3>6, Zenon DEF Control
  <2>10. DataInv'
    <3>1. TaskInv(x)'
      BY <2>1, <2>2, Zenon DEF TaskInv
    <3>2. partial' \notin long'
      BY <1>1, <1>3 DEF IInv, NamesInv, NoFile
    <3>3. files' \in Nat /\ files' >= files /\ h[x].pc \in Holding
      BY <1>1 DEF Holding, IInv, NamesInv
    <3> QED  BY <1>1, <1>3, <2>2, <2>3, <2>8, <3>1, <3>2, <3>3, HolderData, Zenon
  <2> QED  BY <2>3, <2>5, <2>6, <2>7, <2>9, <2>10, Zenon DEF IInv
<1> QED  BY <1>2, <1>3, Zenon DEF Publish

(* No name and no byte changes.                                            *)
LEMMA DiskStays ==
  ASSUME UNCHANGED disk, Grows
  PROVE  DiskQuiet /\ TargetStays /\ target' = target /\ long' = long /\ files' = files
BY Zenon DEF disk, names, DiskQuiet, TargetStays

(* A step that changes the row of the task but neither the files nor the   *)
(* work of a handler, other than that it may end.                          *)
LEMMA RowStep ==
  ASSUME IInv, Fields', rec' \in [Workers -> Recoveries], HandlersQuiet, UNCHANGED disk, Grows,
         UNION plan' \subseteq UNION plan, ProcInv', Control'
  PROVE  IInv'
<1>1. TypeInv'
  BY Zenon DEF TypeInv, HandlersQuiet
<1>2. DiskQuiet /\ files' = files
  BY DiskStays, Zenon
<1>3. NamesInv'
  BY <1>2, NamesKept, Zenon DEF IInv
<1>4. LockInv'
  BY <1>2, LocksKept DEF IInv, HandlersQuiet, NamesInv
<1>5. DataInv'
  BY <1>1, <1>2, DataKept, Zenon DEF IInv, HandlersQuiet
<1> QED  BY <1>1, <1>3, <1>4, <1>5, Zenon DEF IInv

(* finalize_publish follows the rename.                                    *)
LEMMA FinalizePublishKeeps ==
  ASSUME IInv, NEW x \in Handlers, FinalizePublish(x)
  PROVE  IInv'
<1>1. h[x].pc = "finalize" /\ UNCHANGED disk /\ rec' = rec /\ proc' = proc
  BY Zenon DEF FinalizePublish
<1>2. CASE Finalize(Entry(x)) /\ h' = [h EXCEPT ![x] = Idle] /\ UNCHANGED bounds
  <2>1. /\ status' = "completed" /\ owner' = Nobody /\ lease' = FALSE /\ control' = "none"
        /\ journal' = {} /\ plan' = {} /\ retries' = retries
        /\ stalls' = stalls /\ shared' = shared
    BY <1>2, Zenon DEF Finalize, Row, bounds
  <2>2. HandlersQuiet
    BY <1>1, <1>2, EndIsQuiet, Zenon DEF IInv
  <2>3. Fields' /\ rec' \in [Workers -> Recoveries]
    BY <1>1, <2>1, Zenon DEF IInv, TypeInv, Fields
  <2>4. Grows /\ RecoveriesQuiet
    BY <1>1, <2>1, Zenon DEF Grows, RecoveriesQuiet
  <2>5. ProcInv'
    BY <1>1, <2>1, <2>2, <2>4, ProcsKept, Zenon DEF IInv, HandlersQuiet
  <2>6. Control'
    <3>1. target \in Files
      BY <1>1, Zenon DEF IInv, Control, JournalInv
    <3>2. Alone' => Alone
      BY <2>1, Zenon DEF Alone
    <3> QED
      BY <1>1, <2>1, <2>2, <2>4, <3>1, <3>2, DiskStays, ControlFinalized, Zenon DEF IInv, HandlersQuiet
  <2>7. UNION plan' \subseteq UNION plan
    BY <2>1, Zenon
  <2> QED  BY <1>1, <2>2, <2>3, <2>4, <2>5, <2>6, <2>7, RowStep, Zenon
<1>3. CASE UNCHANGED rows /\ (UNCHANGED bounds \/ Event)
           /\ (h' = [h EXCEPT ![x] = Idle] \/ Error(x, "retry"))
  <2>1. Undisturbed
    BY <1>3, Zenon DEF Undisturbed, FinalizePublish
  <2>2. HandlersQuiet
    BY <1>1, <1>3, EndIsQuiet, ErrorIsQuiet, Zenon DEF IInv
  <2> QED  BY <2>1, <2>2, UndisturbedKeeps, Zenon
<1> QED  BY <1>2, <1>3, Zenon DEF FinalizePublish

(* The heartbeat, and the removal of the .part file of a cancelled task.   *)
LEMMA HeartbeatKeeps ==
  ASSUME IInv, NEW x \in Handlers, Heartbeat(x) \/ RemovePartial(x)
  PROVE  IInv'
<1>1. RowStays /\ plan' = plan
  BY Zenon DEF Heartbeat, RemovePartial, RowStays, rows, task, bounds
<1>2. HandlersQuiet
  <2>1. CASE Heartbeat(x)
    <3>1. h[x].pc # "idle"
      BY <2>1, Zenon DEF Heartbeat, Awaiting
    <3> QED  BY <2>1, <3>1, StillIsQuiet, ErrorIsQuiet, Zenon DEF Heartbeat, IInv
  <2>2. CASE RemovePartial(x)
    BY <2>2, GotoIsQuiet, Zenon DEF RemovePartial, IInv
  <2> QED  BY <2>1, <2>2, Zenon
<1>3. TypeInv' /\ RowQuiet /\ Grows
  BY <1>1, <1>2, RowStaysQuiet, Zenon DEF IInv, TypeInv, Fields, HandlersQuiet
<1>4. DiskQuiet
  <2>1. partial' \in {partial, NoFile} /\ UNCHANGED <<target, files, data, long>>
    BY Zenon DEF Heartbeat, RemovePartial, disk, names
  <2> QED  BY <1>3, <2>1, Zenon DEF DiskQuiet
<1> QED  BY <1>1, <1>2, <1>3, <1>4, QuietStep, Zenon DEF TypeInv, RowStays

(* fail_or_retry and finish_control: the handler gives the task up.        *)
LEMMA HandlerEndsKeeps ==
  ASSUME IInv, NEW x \in Handlers, FailOrRetry(x) \/ FinishControl(x)
  PROVE  IInv'
<1>1. /\ h[x].pc \in {"settle", "pause", "cancelled"} /\ h' = [h EXCEPT ![x] = Idle]
      /\ UNCHANGED disk /\ plan' = plan /\ journal' = journal /\ rec' = rec /\ proc' = proc
      /\ stalls' = stalls /\ shared' = shared
  BY Zenon DEF FailOrRetry, FinishControl, bounds
<1>2. retries' \in Nat
  <2>1. retries' \in {retries, retries + 1}
    BY Zenon DEF FailOrRetry, FinishControl, task
  <2> QED  BY <2>1 DEF IInv, TypeInv, Fields
<1>3. HandlersQuiet
  BY <1>1, EndIsQuiet, Zenon DEF IInv
<1>4. Grows /\ RecoveriesQuiet
  BY <1>1, Zenon DEF Grows, RecoveriesQuiet
<1>5. ProcInv'
  BY <1>1, <1>3, <1>4, ProcsKept, Zenon DEF IInv, HandlersQuiet
<1>6. CASE /\ status = "running" /\ owner = h[x].w
           /\ status' \in {"queued", "failed", "paused", "cancelled"}
           /\ owner' = Nobody /\ lease' = FALSE /\ control' = "none"
  <2>1. Fields' /\ rec' \in [Workers -> Recoveries]
    BY <1>1, <1>2, <1>6, Zenon DEF IInv, TypeInv, Fields
  <2>2. Control'
    <3>1. Alone' = Alone
      BY <1>1, Zenon DEF Alone
    <3>2. Alone' /\ target \notin Files => \A y \in Handlers : h'[y].pc = "idle"
      BY <1>1, <3>1, Zenon DEF IInv, Control, OwnerInv, TypeInv, Idle
    <3> QED
      BY <1>1, <1>3, <1>4, <1>6, <3>1, <3>2, DiskStays, ControlReleased, Zenon DEF IInv, HandlersQuiet
  <2> QED  BY <1>1, <1>3, <1>4, <1>5, <2>1, <2>2, RowStep, Zenon
<1>7. CASE UNCHANGED <<status, owner, lease, control>>
  <2>1. Fields' /\ rec' \in [Workers -> Recoveries]
    BY <1>1, <1>2, <1>7, Zenon DEF IInv, TypeInv, Fields
  <2>2. RowQuiet
    BY <1>1, <1>4, <1>7, Zenon DEF RowQuiet
  <2> QED  BY <1>1, <1>3, <1>4, <2>1, <2>2, DiskStays, QuietStep, Zenon
<1> QED  BY <1>6, <1>7, Zenon DEF FailOrRetry, FinishControl, Row, task

-----------------------------------------------------------------------------
(* The run loop: recover_expired and recover_publish_journals.             *)

(* The status a task that is taken away gets.                              *)
LEMMA ReleasedStatus == Released \in {"queued", "paused", "cancelled"}
BY Zenon DEF Released

(* A lease that ran out has no handler any more, as long as none ran out   *)
(* under one.                                                              *)
LEMMA RecoverExpiredKeeps ==
  ASSUME IInv, NEW w \in Workers, RecoverExpired(w)
  PROVE  IInv'
<1>1. /\ status = "running" /\ ~lease /\ status' = Released /\ owner' = Nobody
      /\ lease' = FALSE /\ control' = "none" /\ retries' = retries /\ plan' = plan
      /\ journal' = journal /\ UNCHANGED disk /\ h' = h /\ rec' = rec /\ proc' = proc
      /\ stalls' = stalls /\ shared' = shared
  BY Zenon DEF RecoverExpired, Release, Row, bounds
<1>2. HandlersQuiet
  BY <1>1, StillIsQuiet, Zenon DEF IInv
<1>3. Fields' /\ rec' \in [Workers -> Recoveries]
  BY <1>1, ReleasedStatus, Zenon DEF IInv, TypeInv, Fields
<1>4. Grows /\ RecoveriesQuiet
  BY <1>1, Zenon DEF Grows, RecoveriesQuiet
<1>5. ProcInv'
  BY <1>1, <1>2, <1>4, ProcsKept, Zenon DEF IInv, HandlersQuiet
<1>6. Control'
  <2>1. Alone' = Alone
    BY <1>1, Zenon DEF Alone
  <2>2. Alone' /\ target \notin Files => \A y \in Handlers : h'[y].pc = "idle"
    BY <1>1, <2>1, Zenon DEF IInv, Control, OwnerInv
  <2> QED  BY <1>1, <1>2, <1>4, <2>1, <2>2, ReleasedStatus, DiskStays, ControlReleased, Zenon
           DEF IInv, HandlersQuiet
<1> QED  BY <1>1, <1>2, <1>3, <1>4, <1>5, <1>6, RowStep, Zenon

(* A recovery reads: only what it has read has to be so.                   *)
LEMMA RecoveryReads ==
  ASSUME IInv, UNCHANGED <<rows, disk, h, proc, req, bounds>>, NEW w \in Workers,
         NEW r \in Recoveries, rec' = [rec EXCEPT ![w] = r], proc[w] = "up",
         rec'[w] = r => RecoveryInv(w)'
  PROVE  IInv'
<1>1. /\ status' = status /\ owner' = owner /\ lease' = lease /\ control' = control
      /\ retries' = retries /\ plan' = plan /\ journal' = journal /\ h' = h /\ proc' = proc
      /\ stalls' = stalls /\ shared' = shared /\ UNCHANGED disk
  BY Zenon DEF rows, task, bounds
<1>2. target' = target /\ long' = long
  BY Zenon DEF disk, names
<1>3. /\ rec' \in [Workers -> Recoveries] /\ rec'[w] = r
      /\ \A v \in Workers : v # w => rec'[v] = rec[v]
  BY Zenon DEF IInv, TypeInv
<1>4. Fields'
  BY <1>1, Zenon DEF IInv, TypeInv, Fields
<1>5. HandlersQuiet /\ Grows
  BY <1>1, StillIsQuiet, Zenon DEF IInv, Grows
<1>6. ProcInv'
  BY <1>1, <1>3, Zenon DEF IInv, ProcInv
<1>7. Control'
  <2>1. Alone' = Alone
    BY <1>1, Zenon DEF Alone
  <2>2. OwnerInv'
    BY <1>1, <1>2, <2>1, Zenon DEF IInv, Control, OwnerInv
  <2>3. JournalInv'
    BY <1>1, <1>2, <2>1, Zenon DEF IInv, Control, JournalInv, Entry, Identified
  <2>4. ASSUME NEW v \in Workers, v # w
        PROVE  RecoveryInv(v)'
    BY <1>1, <1>2, <1>3, <2>1, <2>4, Zenon DEF IInv, Control, RecoveryInv, Identified
  <2> QED  BY <1>3, <2>2, <2>3, <2>4, Zenon DEF Control
<1> QED  BY <1>1, <1>3, <1>4, <1>5, <1>6, <1>7, RowStep, Zenon

(* The journal row is read while its handler publishes, or is gone.        *)
LEMMA ReadJournalKeeps ==
  ASSUME IInv, NEW w \in Workers, ReadJournal(w)
  PROVE  IInv'
<1> DEFINE r == [Quiet EXCEPT !.pc = "target", !.row = journal,
                   !.live = (status = "running" /\ lease), !.cancel = (control = "cancel")]
<1>1. /\ proc[w] = "up" /\ journal # {} /\ rec' = [rec EXCEPT ![w] = r]
      /\ UNCHANGED <<rows, disk, h, proc, req, bounds>>
  BY Zenon DEF ReadJournal
<1>2. /\ r \in Recoveries /\ r.pc = "target" /\ r.row = journal
      /\ r.live = (status = "running" /\ lease)
  BY Zenon DEF Recoveries, Quiet, NoFile, IInv, TypeInv, Fields
<1> HIDE DEF r
<1>3. /\ journal' = journal /\ h' = h /\ stalls' = stalls /\ shared' = shared
      /\ target' = target /\ long' = long
  BY <1>1, Zenon DEF rows, bounds, disk, names
<1>4. ASSUME rec'[w] = r
      PROVE  RecoveryInv(w)'
  <2>1. Alone' = Alone
    BY <1>3, Zenon DEF Alone
  <2>2. Alone /\ target \notin Files => \A x \in Handlers :
          h[x].pc \notin Begun /\ (~r.live => h[x].pc = "idle")
    BY <1>1, <1>2, Zenon DEF IInv, Control, OwnerInv, JournalInv
  <2>3. Alone /\ target \in Files => \A e \in journal : Identified(target, e)
    BY <1>1 DEF IInv, Control, JournalInv
  <2> QED  BY <1>2, <1>3, <1>4, <2>1, <2>2, <2>3, Zenon DEF RecoveryInv, Identified
<1> QED  BY <1>1, <1>2, <1>4, RecoveryReads, Zenon

(* What recover_publish_journals finds at the two names.                   *)
LEMMA InspectKeeps ==
  ASSUME IInv, NEW w \in Workers, InspectTarget(w) \/ InspectPartial(w)
  PROVE  IInv'
<1>1. /\ rec[w].pc \in {"target", "partial"} /\ UNCHANGED <<rows, disk, h, proc, req, bounds>>
      /\ rec[w] \in Recoveries
  BY Zenon DEF InspectTarget, InspectPartial, IInv, TypeInv
<1>2. proc[w] = "up"
  BY <1>1, Zenon DEF IInv, ProcInv
<1>3. PICK r \in Recoveries :
        /\ rec' = [rec EXCEPT ![w] = r] /\ (r.pc # "idle" => r.live = rec[w].live)
        /\ \/ r.pc = "idle"
           \/ r.pc = "published" /\ \E e \in rec[w].row : Identified(target, e)
           \/ r.pc = "partial" /\ rec[w].pc = "target" /\ target = NoFile /\ ~rec[w].live
           \/ /\ r.pc = "conflict" /\ rec[w].pc = "target" /\ target # NoFile /\ ~rec[w].live
              /\ \E e \in rec[w].row : ~Identified(target, e)
           \/ r.pc \in {"conflict", "unpublished"} /\ rec[w].pc = "partial"
  <2>1. CASE RecDone(w)
    <3>1. Quiet \in Recoveries /\ Quiet.pc = "idle"
      BY Zenon DEF Quiet, Recoveries, NoFile
    <3> QED  BY <2>1, <3>1, Zenon DEF RecDone
  <2>2. ASSUME NEW pc \in {"published", "partial", "conflict"}, RecGoto(w, pc)
        PROVE  \E r \in Recoveries : rec' = [rec EXCEPT ![w] = r] /\ r.live = rec[w].live
                                     /\ r.pc = pc
    <3> DEFINE r == [rec[w] EXCEPT !.pc = pc]
    <3>1. r \in Recoveries /\ r.live = rec[w].live /\ r.pc = pc
      BY <1>1, Zenon DEF Recoveries
    <3>2. rec' = [rec EXCEPT ![w] = r]
      BY <1>1, <2>2, Zenon DEF RecGoto, IInv, TypeInv, Recoveries
    <3> QED  BY <3>1, <3>2, Zenon
  <2>3. ASSUME rec' = [rec EXCEPT ![w].pc = "unpublished", ![w].lock = partial]
        PROVE  \E r \in Recoveries : rec' = [rec EXCEPT ![w] = r] /\ r.live = rec[w].live
                                     /\ r.pc = "unpublished"
    <3> DEFINE r == [rec[w] EXCEPT !.pc = "unpublished", !.lock = partial]
    <3>0. partial \in Nat
      BY DEF IInv, NamesInv
    <3>1. r \in Recoveries /\ r.live = rec[w].live /\ r.pc = "unpublished"
      BY <1>1, <3>0, Zenon DEF Recoveries
    <3>2. rec' = [rec EXCEPT ![w] = r]
      BY <1>1, <2>3, Zenon DEF IInv, TypeInv, Recoveries
    <3> QED  BY <3>1, <3>2, Zenon
  <2>4. CASE InspectTarget(w)
    BY <2>1, <2>2, <2>4, Zenon DEF InspectTarget
  <2>5. CASE InspectPartial(w)
    BY <2>1, <2>2, <2>3, <2>5, Zenon DEF InspectPartial
  <2> QED  BY <2>4, <2>5, Zenon
<1>4. /\ journal' = journal /\ h' = h /\ stalls' = stalls /\ shared' = shared
      /\ target' = target /\ long' = long
  BY <1>1, Zenon DEF rows, bounds, disk, names
<1>5. ASSUME rec'[w] = r
      PROVE  RecoveryInv(w)'
  <2>1. Alone' = Alone /\ RecoveryInv(w)
    BY <1>4, Zenon DEF Alone, IInv, Control
  <2>2. r.pc = "published" => target \in Files
    <3>1. long \subseteq Files
      BY DownloadAssumption DEF IInv, NamesInv, Files
    <3> QED  BY <1>1, <1>3, <3>1, Zenon DEF Identified
  <2>3. r.pc \in {"partial", "conflict", "unpublished"} => ~r.live
    BY <1>3, <2>1, Zenon DEF RecoveryInv
  <2>4. Alone /\ r.pc \in {"partial", "conflict", "unpublished"} => target \notin Files
    BY <1>3, <2>1, NoFiles, Zenon DEF RecoveryInv
  <2> QED  BY <1>1, <1>3, <1>4, <1>5, <2>1, <2>2, <2>3, <2>4, Zenon DEF RecoveryInv
<1> QED  BY <1>1, <1>2, <1>3, <1>5, RecoveryReads, Zenon

(* A recovery goes on only to end.                                         *)
LEMMA RecoveryEnds ==
  ASSUME TypeInv, NEW w \in Workers, rec[w].pc # "idle",
         RecDone(w) \/ RecGoto(w, "exit") \/ RecGoto(w, "remove")
  PROVE  RecoveriesQuiet /\ rec' \in [Workers -> Recoveries]
<1>1. CASE RecDone(w)
  <2>1. Quiet \in Recoveries /\ Quiet.pc = "idle"
    BY Zenon DEF Quiet, Recoveries, NoFile
  <2> QED  BY <1>1, <2>1, Zenon DEF RecDone, TypeInv, RecoveriesQuiet
<1>2. ASSUME NEW pc \in {"exit", "remove"}, RecGoto(w, pc)
      PROVE  RecoveriesQuiet /\ rec' \in [Workers -> Recoveries]
  <2> DEFINE r == [rec[w] EXCEPT !.pc = pc]
  <2>1. r \in Recoveries /\ r.pc = pc
    BY Zenon DEF Recoveries, TypeInv
  <2>2. rec' = [rec EXCEPT ![w] = r]
    BY <1>2, Zenon DEF RecGoto, TypeInv, Recoveries
  <2> HIDE DEF r
  <2> QED  BY <2>1, <2>2, Zenon DEF TypeInv, RecoveriesQuiet
<1> QED  BY <1>1, <1>2, Zenon

(* A step of a recovery in which only the row of the task may change.      *)
LEMMA RecoveryStepKeeps ==
  ASSUME IInv, RecoveriesQuiet, rec' \in [Workers -> Recoveries], Fields',
         UNCHANGED <<disk, h, proc, req, bounds>>, UNION plan' \subseteq UNION plan, Control'
  PROVE  IInv'
<1>1. HandlersQuiet
  BY StillIsQuiet, Zenon DEF IInv
<1>2. Grows /\ shared' = shared
  BY Zenon DEF Grows, bounds
<1>3. ProcInv'
  BY <1>1, <1>2, ProcsKept, Zenon DEF IInv, HandlersQuiet
<1> QED  BY <1>1, <1>2, <1>3, RowStep, Zenon

(* In which the row does not change either.                                *)
LEMMA RecoveryStepQuiet ==
  ASSUME IInv, RecoveriesQuiet, rec' \in [Workers -> Recoveries],
         UNCHANGED <<rows, disk, h, proc, req, bounds>>
  PROVE  IInv'
<1>1. HandlersQuiet
  BY StillIsQuiet, Zenon DEF IInv
<1>2. /\ status' = status /\ owner' = owner /\ lease' = lease /\ control' = control
      /\ retries' = retries /\ plan' = plan /\ journal' = journal /\ proc' = proc
      /\ stalls' = stalls /\ shared' = shared /\ UNCHANGED disk
  BY Zenon DEF rows, task, bounds
<1>3. Fields' /\ Grows /\ RowQuiet
  BY <1>2, Zenon DEF IInv, TypeInv, Fields, RowQuiet, Grows
<1> QED  BY <1>1, <1>2, <1>3, DiskStays, QuietStep, Zenon

(* finalize_publish by a recovery that found the file at the target.       *)
LEMMA RecoverPublishedKeeps ==
  ASSUME IInv, NEW w \in Workers, RecoverPublished(w)
  PROVE  IInv'
<1>1. rec[w].pc = "published" /\ UNCHANGED <<disk, h, proc, req, bounds>>
  BY Zenon DEF RecoverPublished
<1>2. ASSUME NEW e, Finalize(e), RecDone(w)
      PROVE  IInv'
  <2>1. /\ status' = "completed" /\ owner' = Nobody /\ lease' = FALSE /\ control' = "none"
        /\ journal' = {} /\ plan' = {} /\ retries' = retries
        /\ stalls' = stalls /\ shared' = shared /\ proc' = proc
    BY <1>1, <1>2, Zenon DEF Finalize, Row, bounds
  <2>2. RecoveriesQuiet /\ rec' \in [Workers -> Recoveries]
    BY <1>1, <1>2, RecoveryEnds, Zenon DEF IInv
  <2>3. Fields' /\ UNION plan' \subseteq UNION plan
    BY <2>1, Zenon DEF IInv, TypeInv, Fields
  <2>4. Control'
    <3>1. target \in Files
      BY <1>1, Zenon DEF IInv, Control, RecoveryInv
    <3>2. (Alone' => Alone) /\ Grows
      BY <2>1, Zenon DEF Alone, Grows
    <3>3. \A y \in Handlers : KeepsTask(y)
      BY <1>1, StillIsQuiet, Zenon DEF IInv, HandlersQuiet
    <3> QED  BY <1>1, <2>1, <2>2, <3>1, <3>2, <3>3, DiskStays, ControlFinalized, Zenon DEF IInv
  <2> QED  BY <1>1, <2>2, <2>3, <2>4, RecoveryStepKeeps, Zenon
<1>3. ASSUME UNCHANGED rows, RecDone(w) \/ RecGoto(w, "exit")
      PROVE  IInv'
  BY <1>1, <1>3, RecoveryEnds, RecoveryStepQuiet, Zenon DEF IInv
<1> QED  BY <1>2, <1>3, Zenon DEF RecoverPublished

(* recover_unpublished and fail_recovery: the file was not renamed, and    *)
(* nobody works on it.                                                     *)
LEMMA RecoveryDropsKeeps ==
  ASSUME IInv, NEW w \in Workers, RecoverUnpublished(w) \/ FailRecovery(w)
  PROVE  IInv'
<1>1. rec[w].pc \in {"unpublished", "conflict"} /\ UNCHANGED <<disk, h, proc, req, bounds>>
  BY Zenon DEF RecoverUnpublished, FailRecovery
<1>2. RecoveriesQuiet /\ rec' \in [Workers -> Recoveries]
  <2>1. RecDone(w) \/ RecGoto(w, "remove")
    BY Zenon DEF RecoverUnpublished, FailRecovery
  <2> QED  BY <1>1, <2>1, RecoveryEnds, Zenon DEF IInv
<1>3. CASE UNCHANGED rows
  BY <1>1, <1>2, <1>3, RecoveryStepQuiet, Zenon
<1>4. CASE /\ journal' = {} /\ plan' = plan /\ retries' = retries
           /\ \/ UNCHANGED <<status, owner, lease, control>> /\ status = "deleted"
              \/ /\ status' \in {Released, "failed"} /\ owner' = Nobody /\ lease' = FALSE
                 /\ control' \in {"none", control}
  <2>1. stalls' = stalls /\ shared' = shared /\ proc' = proc
    BY <1>1, Zenon DEF bounds
  <2>2. Fields'
    BY <1>4, <2>1, ReleasedStatus, Zenon DEF IInv, TypeInv, Fields
  <2>3. Control'
    <3>1. Alone' = Alone /\ Grows
      BY <2>1, Zenon DEF Alone, Grows
    <3>2. Alone => target \notin Files /\ \A y \in Handlers : h[y].pc = "idle"
      BY <1>1, Zenon DEF IInv, Control, RecoveryInv
    <3>3. status' = "completed" => status = "completed"
      BY <1>4, ReleasedStatus, Zenon
    <3> QED  BY <1>1, <1>2, <1>4, <3>1, <3>2, <3>3, DiskStays, ControlDropped, Zenon DEF IInv
  <2> QED  BY <1>1, <1>2, <1>4, <2>2, <2>3, RecoveryStepKeeps, Zenon
<1> QED  BY <1>3, <1>4, Zenon DEF RecoverUnpublished, FailRecovery, Release, Row, task

(* The .part file is unlinked, by a recovery or by a request.              *)
LEMMA UnlinkKeeps ==
  ASSUME IInv, RecoveriesQuiet, rec' \in [Workers -> Recoveries], partial' \in {partial, NoFile},
         UNCHANGED <<rows, target, files, data, long, h, proc>>, UNCHANGED bounds \/ Event
  PROVE  IInv'
<1>1. HandlersQuiet
  BY StillIsQuiet, Zenon DEF IInv
<1>2. /\ status' = status /\ owner' = owner /\ lease' = lease /\ control' = control
      /\ retries' = retries /\ plan' = plan /\ journal' = journal /\ proc' = proc
      /\ stalls' = stalls /\ shared' = shared
  BY Zenon DEF rows, task, bounds, Event
<1>3. Fields' /\ Grows /\ RowQuiet
  BY <1>2, Zenon DEF IInv, TypeInv, Fields, RowQuiet, Grows
<1>4. DiskQuiet
  BY <1>3, Zenon DEF DiskQuiet
<1> QED  BY <1>1, <1>2, <1>3, <1>4, QuietStep, Zenon

(* The .part file of a cancelled task is removed.                          *)
LEMMA RecoverRemoveKeeps ==
  ASSUME IInv, NEW w \in Workers, RecoverRemove(w)
  PROVE  IInv'
<1>1. /\ rec[w].pc = "remove" /\ RecDone(w) /\ partial' = NoFile /\ UNCHANGED bounds
      /\ UNCHANGED <<rows, target, files, data, long, h, proc>>
  BY Zenon DEF RecoverRemove
<1> QED  BY <1>1, RecoveryEnds, UnlinkKeeps, Zenon DEF IInv

-----------------------------------------------------------------------------
(* Processes and the world around them.                                    *)

(* A process starts; shared records that another one runs.                 *)
LEMMA StartKeeps ==
  ASSUME IInv, NEW w \in Workers, Start(w)
  PROVE  IInv'
<1>1. /\ status' = status /\ owner' = owner /\ lease' = lease /\ control' = control
      /\ retries' = retries /\ plan' = plan /\ journal' = journal /\ rec' = rec /\ h' = h
      /\ stalls' = stalls /\ UNCHANGED disk
  BY Zenon DEF Start, rows, task
<1>2. /\ proc' = [proc EXCEPT ![w] = "up"]
      /\ shared' = (shared \/ \E v \in Workers : proc[v] \in {"up", "stopping"})
  BY Zenon DEF Start
<1>3. Fields'
  BY <1>1, <1>2, Zenon DEF IInv, TypeInv, Fields
<1>4. HandlersQuiet /\ Grows /\ RecoveriesQuiet
  <2>1. HandlersQuiet
    BY <1>1, StillIsQuiet, Zenon DEF IInv
  <2> QED  BY <1>1, <1>2, <2>1, Zenon DEF Grows, RecoveriesQuiet
<1>5. ProcInv'
  <2>1. \A v \in Workers : proc'[v] = IF v = w THEN "up" ELSE proc[v]
    BY <1>2, Zenon DEF IInv, TypeInv, Fields
  <2>2. ~shared' => ~shared /\ \A v \in Workers : proc[v] \notin {"up", "stopping"}
    BY <1>2, Zenon
  <2> QED  BY <1>1, <2>1, <2>2 DEF IInv, ProcInv
<1>6. Control'
  <2>1. RowQuiet
    BY <1>1, <1>4, Zenon DEF RowQuiet
  <2>2. Alone' => Alone
    BY <1>1, <1>2, Zenon DEF Alone
  <2> QED  BY <1>1, <1>4, <2>1, <2>2, DiskStays, ControlKept, Zenon DEF IInv, HandlersQuiet
<1> QED  BY <1>1, <1>3, <1>4, <1>5, <1>6, RowStep, Zenon DEF IInv, TypeInv

(* A process stops or dies, and its handlers and recoveries with it.       *)
LEMMA VanishKeeps ==
  ASSUME IInv, NEW w \in Workers, Shutdown(w) \/ Crash(w)
  PROVE  IInv'
<1>1. PICK st \in {"stopping", "gone"} : Vanish(w, st)
  BY Zenon DEF Shutdown, Crash
<1>2. proc[w] \in {"up", "stopping"}
  BY Zenon DEF Shutdown, Crash
<1>3. /\ status' = status /\ owner' = owner /\ lease' = lease /\ control' = control
      /\ retries' = retries /\ plan' = plan /\ journal' = journal
      /\ stalls' = stalls /\ shared' = shared /\ UNCHANGED disk
      /\ proc' = [proc EXCEPT ![w] = st] /\ rec' = [rec EXCEPT ![w] = Quiet]
      /\ h' = [x \in Handlers |-> IF h[x].w = w THEN Idle ELSE h[x]]
  BY <1>1, Zenon DEF Vanish, rows, task, Event
<1>4. /\ Idle \in Tasks /\ Idle.pc = "idle" /\ Idle.lock = NoFile
      /\ Quiet \in Recoveries /\ Quiet.pc = "idle"
  BY Zenon DEF Idle, Tasks, Quiet, Recoveries, NoFile
<1>5. Fields' /\ rec' \in [Workers -> Recoveries]
  BY <1>3, <1>4, Zenon DEF IInv, TypeInv, Fields
<1>6. HandlersQuiet
  <2>1. h' \in [Handlers -> Tasks] /\ \A y \in Handlers : h'[y] = h[y] \/ h'[y] = Idle
    BY <1>3, <1>4, Zenon DEF IInv, TypeInv
  <2>2. ASSUME NEW y \in Handlers
        PROVE  KeepsLock(y) /\ KeepsTask(y) /\ KeepsData(y)
    BY <1>4, <2>1, Zenon DEF KeepsLock, KeepsTask, KeepsData, Holding, Begun, Writing
  <2> QED  BY <2>1, <2>2, Zenon DEF HandlersQuiet
<1>7. Grows /\ RecoveriesQuiet
  BY <1>3, <1>4, Zenon DEF Grows, RecoveriesQuiet, IInv, TypeInv
<1>8. ProcInv'
  <2>1. \A v \in Workers : proc'[v] = IF v = w THEN st ELSE proc[v]
    BY <1>3, Zenon DEF IInv, TypeInv, Fields
  <2>2. \A x \in Handlers : h'[x].pc # "idle" => h[x].w # w /\ h'[x] = h[x]
    BY <1>3, <1>4, Zenon
  <2>3. \A v \in Workers : rec'[v].pc # "idle" => v # w /\ rec'[v] = rec[v]
    BY <1>3, <1>4, Zenon DEF IInv, TypeInv
  <2> QED  BY <1>2, <1>3, <2>1, <2>2, <2>3 DEF IInv, ProcInv
<1>9. Control'
  <2>1. RowQuiet
    BY <1>3, <1>7, Zenon DEF RowQuiet
  <2>2. Alone' => Alone
    BY <1>3, Zenon DEF Alone
  <2> QED  BY <1>3, <1>6, <1>7, <2>1, <2>2, DiskStays, ControlKept, Zenon DEF IInv, HandlersQuiet
<1> QED  BY <1>3, <1>5, <1>6, <1>7, <1>8, <1>9, RowStep, Zenon

(* requeue_owned: the process has no handler any more.                     *)
LEMMA RequeueOwnedKeeps ==
  ASSUME IInv, NEW w \in Workers, RequeueOwned(w)
  PROVE  IInv'
<1>1. /\ proc[w] = "stopping" /\ proc' = [proc EXCEPT ![w] = "gone"]
      /\ retries' = retries /\ plan' = plan /\ journal' = journal /\ rec' = rec /\ h' = h
      /\ stalls' = stalls /\ shared' = shared /\ UNCHANGED disk
  BY Zenon DEF RequeueOwned, bounds
<1>2. HandlersQuiet
  BY <1>1, StillIsQuiet, Zenon DEF IInv
<1>3. Grows /\ RecoveriesQuiet
  BY <1>1, Zenon DEF Grows, RecoveriesQuiet
<1>4. ProcInv'
  <2>1. \A v \in Workers : proc'[v] = IF v = w THEN "gone" ELSE proc[v]
    BY <1>1, Zenon DEF IInv, TypeInv, Fields
  <2> QED  BY <1>1, <2>1 DEF IInv, ProcInv
<1>5. Alone' = Alone
  BY <1>1, Zenon DEF Alone
<1>6. CASE /\ status = "running" /\ owner = w /\ status' = Released /\ owner' = Nobody
           /\ lease' = FALSE /\ control' = "none"
  <2>1. Fields' /\ rec' \in [Workers -> Recoveries]
    BY <1>1, <1>6, ReleasedStatus, Zenon DEF IInv, TypeInv, Fields
  <2>2. Alone' /\ target \notin Files => \A y \in Handlers : h'[y].pc = "idle"
    BY <1>1, <1>5, <1>6, Zenon DEF IInv, Control, OwnerInv, ProcInv
  <2>3. Control'
    BY <1>1, <1>2, <1>3, <1>5, <1>6, <2>2, ReleasedStatus, DiskStays, ControlReleased, Zenon
    DEF IInv, HandlersQuiet
  <2> QED  BY <1>1, <1>2, <1>3, <1>4, <2>1, <2>3, RowStep, Zenon
<1>7. CASE UNCHANGED <<status, owner, lease, control>>
  <2>1. Fields' /\ rec' \in [Workers -> Recoveries]
    BY <1>1, <1>7, Zenon DEF IInv, TypeInv, Fields
  <2>2. RowQuiet
    BY <1>1, <1>3, <1>7, Zenon DEF RowQuiet
  <2>3. Control'
    BY <1>1, <1>2, <1>3, <1>5, <2>2, DiskStays, ControlKept, Zenon DEF IInv, HandlersQuiet
  <2> QED  BY <1>1, <1>2, <1>3, <1>4, <2>1, <2>3, RowStep, Zenon
<1> QED  BY <1>6, <1>7, Zenon DEF RequeueOwned, Release, Row

(* A lease runs out: under a handler, which stalls counts, or under none.  *)
LEMMA LeaseExpiresKeeps ==
  ASSUME IInv, LeaseExpires
  PROVE  IInv'
<1>1. /\ status = "running" /\ lease' = FALSE /\ status' = status /\ owner' = owner
      /\ control' = control /\ retries' = retries /\ plan' = plan /\ journal' = journal
      /\ rec' = rec /\ proc' = proc /\ h' = h /\ shared' = shared /\ UNCHANGED disk
  BY Zenon DEF LeaseExpires, bounds
<1>2. stalls' = IF Working THEN stalls + 1 ELSE stalls
  BY Zenon DEF LeaseExpires, bounds
<1>3. Fields' /\ rec' \in [Workers -> Recoveries]
  <2>1. stalls' \in Nat
    BY <1>2 DEF IInv, TypeInv, Fields
  <2> QED  BY <1>1, <2>1, Zenon DEF IInv, TypeInv, Fields
<1>4. HandlersQuiet
  BY <1>1, StillIsQuiet, Zenon DEF IInv
<1>5. Grows /\ RecoveriesQuiet
  BY <1>1, <1>2, Zenon DEF Grows, RecoveriesQuiet
<1>6. ProcInv'
  BY <1>1, <1>4, <1>5, ProcsKept, Zenon DEF IInv, HandlersQuiet
<1>7. Control'
  <2>1. Alone' => Alone /\ ~Working
    BY <1>1, <1>2 DEF Alone, IInv, TypeInv, Fields
  <2>2. Alone' /\ target \notin Files => \A y \in Handlers : h'[y].pc = "idle"
    BY <1>1, <2>1, Zenon DEF IInv, Control, OwnerInv, Working
  <2> QED  BY <1>1, <1>4, <1>5, <2>1, <2>2, DiskStays, ControlReleased, Zenon DEF IInv, HandlersQuiet
<1> QED  BY <1>1, <1>3, <1>4, <1>5, <1>6, <1>7, RowStep, Zenon

(* Somebody takes the target's name.                                       *)
LEMMA UserPutsKeeps ==
  ASSUME IInv, UserPuts
  PROVE  IInv'
<1>1. /\ status' = status /\ owner' = owner /\ lease' = lease /\ control' = control
      /\ retries' = retries /\ plan' = plan /\ journal' = journal /\ proc' = proc /\ h' = h
      /\ rec' = rec /\ stalls' = stalls /\ shared' = shared
  BY Zenon DEF UserPuts, rows, task, Event
<1>2. HandlersQuiet
  BY <1>1, StillIsQuiet, Zenon DEF IInv
<1>3. Fields' /\ Grows /\ RowQuiet /\ rec' \in [Workers -> Recoveries]
  BY <1>1, Zenon DEF IInv, TypeInv, Fields, RowQuiet, RecoveriesQuiet, Grows
<1>4. DiskQuiet
  BY <1>3, Zenon DEF DiskQuiet, UserPuts
<1> QED  BY <1>1, <1>2, <1>3, <1>4, QuietStep, Zenon

-----------------------------------------------------------------------------
(* The API.                                                                *)

(* What a request does to the row: it stays, but for a request recorded,   *)
(* or it moves while nobody works on it, or it is deleted.                 *)
RequestRow ==
  /\ retries' \in {retries, 0} /\ plan' \in {plan, {}}
  /\ \/ /\ UNCHANGED <<status, owner, lease, journal>>
        /\ control' \in {"none", "pause", "cancel"}
     \/ /\ owner' = Nobody /\ lease' = FALSE /\ control' = "none" /\ journal' = journal
        /\ status \in {"queued", "paused", "failed", "cancelled"}
        /\ status' \in {"queued", "paused", "cancelled"}
     \/ /\ owner' = Nobody /\ lease' = FALSE /\ control' = "none" /\ journal' = {}
        /\ status \notin {"running", "deleted"} /\ status' = "deleted"

(* Such a request keeps the invariant.                                     *)
LEMMA RequestRowKeeps ==
  ASSUME IInv, RequestRow, UNCHANGED <<disk, h, rec, proc>>, UNCHANGED bounds \/ Event
  PROVE  IInv'
<1>1. stalls' = stalls /\ shared' = shared /\ h' = h /\ rec' = rec /\ proc' = proc
      /\ UNCHANGED disk
  BY Zenon DEF bounds, Event
<1>2. Fields' /\ UNION plan' \subseteq UNION plan
  <2>1. retries' \in Nat /\ plan' \subseteq SUBSET Segs /\ UNION plan' \subseteq UNION plan
    BY DEF RequestRow, IInv, TypeInv, Fields
  <2> QED  BY <1>1, <2>1, Zenon DEF RequestRow, IInv, TypeInv, Fields
<1>3. HandlersQuiet
  BY <1>1, StillIsQuiet, Zenon DEF IInv
<1>4. Grows /\ RecoveriesQuiet /\ rec' \in [Workers -> Recoveries]
  BY <1>1, Zenon DEF Grows, RecoveriesQuiet, IInv, TypeInv
<1>5. ProcInv'
  BY <1>1, <1>3, <1>4, ProcsKept, Zenon DEF IInv, HandlersQuiet
<1>6. Alone' = Alone /\ TargetStays /\ target' = target /\ long' = long
  <2>1. Alone' = Alone
    BY <1>1, Zenon DEF Alone
  <2> QED  BY <1>1, <1>4, <2>1, DiskStays, Zenon
<1>7. Control'
  <2>1. CASE UNCHANGED <<status, owner, lease, journal>>
    <3>1. RowQuiet
      BY <1>4, <2>1, Zenon DEF RowQuiet
    <3> QED  BY <1>3, <1>6, <3>1, ControlKept, Zenon DEF IInv, HandlersQuiet
  <2>2. status # "running" => (Alone' /\ target \notin Files => \A y \in Handlers : h[y].pc = "idle")
    BY <1>6, Zenon DEF IInv, Control, OwnerInv
  <2>3. CASE /\ journal' = journal /\ status \in {"queued", "paused", "failed", "cancelled"}
             /\ status' \in {"queued", "paused", "cancelled"}
    <3>1. \A y \in Handlers : Alone' /\ target \notin Files => h'[y].pc = "idle"
      BY <1>1, <2>2, <2>3, Zenon
    <3> QED  BY <1>3, <1>4, <1>6, <2>3, <3>1, ControlReleased, Zenon DEF IInv, HandlersQuiet
  <2>4. CASE status \notin {"running", "deleted"} /\ status' = "deleted" /\ journal' = {}
    BY <1>1, <1>4, <1>6, <2>2, <2>4, ControlDropped, Zenon DEF IInv
  <2> QED  BY <2>1, <2>3, <2>4, Zenon DEF RequestRow
<1> QED  BY <1>1, <1>2, <1>3, <1>4, <1>5, <1>7, RowStep, Zenon

(* Pause, resume, cancel, retry and delete begin.                          *)
LEMMA BeginKeeps ==
  ASSUME IInv, NEW r, NEW next, Begin(r, next),
         \/ UNCHANGED <<task, plan>>
         \/ \E c \in {"pause", "cancel"} : RequestControl(c)
         \/ /\ status \in {"queued", "paused", "failed", "cancelled"}
            /\ \E st \in {"queued", "paused", "cancelled"} : Transition(st)
  PROVE  IInv'
<1>1. UNCHANGED <<disk, h, rec, proc>> /\ journal' = journal /\ Event
  BY Zenon DEF Begin
<1>2. control \in {"none", "pause", "cancel"}
  BY Zenon DEF IInv, TypeInv, Fields
<1>3. RequestRow
  <2>1. CASE UNCHANGED <<task, plan>>
    BY <1>1, <1>2, <2>1, Zenon DEF RequestRow, task
  <2>2. ASSUME NEW c \in {"pause", "cancel"}, RequestControl(c)
        PROVE  RequestRow
    BY <1>1, <2>2, Zenon DEF RequestRow, RequestControl
  <2>3. ASSUME status \in {"queued", "paused", "failed", "cancelled"},
               NEW st \in {"queued", "paused", "cancelled"}, Transition(st)
        PROVE  RequestRow
    BY <1>1, <2>3, Zenon DEF RequestRow, Transition, Row
  <2> QED  BY <2>1, <2>2, <2>3, Zenon
<1> QED  BY <1>1, <1>3, RequestRowKeeps, Zenon

(* The requests.                                                           *)
LEMMA RequestKeeps ==
  ASSUME IInv, NEW r \in Requests, RequestStep(r)
  PROVE  IInv'
<1>1. CASE Pause(r) \/ Resume(r)
  BY <1>1, BeginKeeps, Zenon DEF Pause, Resume
<1>2. CASE Cancel(r)
  BY <1>2, BeginKeeps, Zenon DEF Cancel
<1>3. CASE Retry(r) \/ Delete(r)
  BY <1>3, BeginKeeps, Zenon DEF Retry, Delete
<1>4. CASE Unlink(r)
  <2>1. /\ partial' \in {partial, NoFile} /\ rec' = rec /\ (UNCHANGED bounds \/ Event)
        /\ UNCHANGED <<rows, target, files, data, long, h, proc>>
    BY <1>4, Zenon DEF Unlink
  <2>2. RecoveriesQuiet /\ rec' \in [Workers -> Recoveries]
    BY <2>1, Zenon DEF RecoveriesQuiet, IInv, TypeInv
  <2> QED  BY <2>1, <2>2, UnlinkKeeps, Zenon
<1>5. CASE Requeue(r) \/ ResetSegments(r) \/ DeleteTask(r)
  <2>1. UNCHANGED <<disk, h, rec, proc>> /\ UNCHANGED bounds
    BY <1>5, Zenon DEF Requeue, ResetSegments, DeleteTask
  <2>2. control \in {"none", "pause", "cancel"}
    BY Zenon DEF IInv, TypeInv, Fields
  <2>3. RequestRow
    BY <1>5, <2>2, Zenon DEF RequestRow, Requeue, ResetSegments, DeleteTask, Row, task
  <2> QED  BY <2>1, <2>3, RequestRowKeeps, Zenon
<1> QED  BY <1>1, <1>2, <1>3, <1>4, <1>5, Zenon DEF RequestStep

-----------------------------------------------------------------------------
(* The theorems.                                                           *)

(* A step of a handler keeps the invariant.                                *)
LEMMA HandlerKeeps ==
  ASSUME IInv, NEW x \in Handlers, HandlerStep(x)
  PROVE  IInv'
<1>1. CASE \E w \in Workers : Claim(x, w)
  BY <1>1, ClaimKeeps, Zenon
<1>2. CASE \E s \in Segs : WriteSegment(x, s) \/ CheckpointSegment(x, s)
  BY <1>2, WriteSegmentKeeps, CheckpointSegmentKeeps, Zenon
<1>3. CASE Probe(x) \/ LockPartial(x) \/ PlanSegments(x) \/ OpenTruncated(x) \/ TransferFails(x)
  BY <1>3, ReadersKeep, LockPartialKeeps, PlanSegmentsKeeps, OpenTruncatedKeeps, Zenon
<1>4. CASE SourceChanged(x) \/ RestartTransfer(x) \/ Verify(x) \/ Prepare(x)
  BY <1>4, SourceChangedKeeps, RestartTransferKeeps, VerifyKeeps, PrepareKeeps, Zenon
<1>5. CASE BeginPublish(x) \/ Publish(x) \/ FinalizePublish(x)
  BY <1>5, BeginPublishKeeps, PublishKeeps, FinalizePublishKeeps, Zenon
<1>6. CASE Heartbeat(x) \/ HandleError(x) \/ FailOrRetry(x) \/ RemovePartial(x) \/ FinishControl(x)
  BY <1>6, HeartbeatKeeps, ReadersKeep, HandlerEndsKeeps, Zenon
<1> QED  BY <1>1, <1>2, <1>3, <1>4, <1>5, <1>6, Zenon DEF HandlerStep

(* A step of a recovery or of a process keeps the invariant.               *)
LEMMA WorkerKeeps ==
  ASSUME IInv, NEW w \in Workers, RecoveryStep(w) \/ ProcessStep(w)
  PROVE  IInv'
<1>1. CASE RecoveryStep(w)
  BY <1>1, RecoverExpiredKeeps, ReadJournalKeeps, InspectKeeps, RecoverPublishedKeeps,
     RecoveryDropsKeeps, RecoverRemoveKeeps, Zenon DEF RecoveryStep
<1>2. CASE ProcessStep(w)
  BY <1>2, StartKeeps, VanishKeeps, RequeueOwnedKeeps, Zenon DEF ProcessStep
<1> QED  BY <1>1, <1>2, Zenon

(* A task that was just added satisfies the invariant.                     *)
LEMMA InitIsInvariant == Init => IInv
<1> SUFFICES ASSUME Init
             PROVE  IInv
  BY Zenon
<1>1. Idle \in Tasks /\ Idle.pc = "idle" /\ Idle.lock = NoFile
  BY Zenon DEF Idle, Tasks, NoFile
<1>2. Quiet \in Recoveries /\ Quiet.pc = "idle"
  BY Zenon DEF Quiet, Recoveries, NoFile
<1>3. /\ \A x \in Handlers : h[x] = Idle
      /\ \A w \in Workers : rec[w] = Quiet /\ proc[w] = "new"
  BY Zenon DEF Init
<1>4. TypeInv
  BY <1>1, <1>2, Zenon DEF Init, TypeInv, Fields
<1>5. NamesInv
  BY NoFiles, DownloadAssumption DEF Init, NamesInv, NoFile
<1>6. LockInv
  BY <1>1, <1>3, Zenon DEF LockInv, Holding
<1>7. ProcInv
  BY <1>1, <1>2, <1>3, Zenon DEF ProcInv
<1>8. Control
  <2>1. target \notin Files /\ status = "queued"
    BY NoFiles, Zenon DEF Init
  <2>2. OwnerInv /\ JournalInv
    BY <1>1, <1>3, <2>1, Zenon DEF OwnerInv, JournalInv, Begun
  <2>3. ASSUME NEW w \in Workers
        PROVE  RecoveryInv(w)
    BY <1>2, <1>3, Zenon DEF RecoveryInv
  <2> QED  BY <2>2, <2>3, Zenon DEF Control
<1>9. DataInv
  <2>1. target \notin Files /\ partial \notin long
    BY NoFiles, Zenon DEF Init
  <2>2. ASSUME NEW x \in Handlers
        PROVE  TaskInv(x)
    BY <1>1, <1>3, Zenon DEF TaskInv
  <2> QED  BY <2>1, <2>2, Zenon DEF DataInv
<1> QED  BY <1>4, <1>5, <1>6, <1>7, <1>8, <1>9, Zenon DEF IInv

(* The invariant holds in every state, whatever processes, handlers,       *)
(* requests and failures there are.                                        *)
THEOREM InductiveInvariant == Spec => []IInv
<1>1. Init => IInv
  BY InitIsInvariant, Zenon
<1>2. IInv /\ [Next]_vars => IInv'
  <2> SUFFICES ASSUME IInv, [Next]_vars
               PROVE  IInv'
    BY Zenon
  <2>1. CASE UNCHANGED vars
    <3>1. UNCHANGED <<rows, disk, rec, proc, req>> /\ UNCHANGED bounds /\ h' = h
      BY <2>1, Zenon DEF vars
    <3> QED  BY <3>1, StillIsQuiet, UndisturbedKeeps, Zenon DEF IInv, Undisturbed
  <2>2. CASE Next
    BY <2>2, HandlerKeeps, WorkerKeeps, RequestKeeps, LeaseExpiresKeeps, UserPutsKeeps, Zenon
    DEF Next
  <2> QED  BY <2>1, <2>2, Zenon
<1> QED  BY <1>1, <1>2, PTL DEF Spec

(* The file at the target of a download has every segment.                 *)
THEOREM PublishedIsWholeHolds == Spec => []PublishedIsWhole
<1>1. IInv => PublishedIsWhole
  BY Zenon DEF IInv, DataInv, PublishedIsWhole
<1> QED  BY <1>1, InductiveInvariant, PTL

(* A completed task has its file, a published file ends as a completed     *)
(* task, the recorded segments are in the .part file, and two handlers do  *)
(* not write into one file.                                                *)
THEOREM RowsTellTheFilesHolds == Spec => []RowsTellTheFiles
<1>1. IInv => CompletedIsPublished
  BY Zenon DEF IInv, Control, JournalInv, CompletedIsPublished
<1>2. IInv => PublishedEndsCompleted
  BY Zenon DEF IInv, Control, JournalInv, PublishedEndsCompleted, Alone
<1>3. IInv => PlanIsBacked
  BY Zenon DEF IInv, DataInv, PlanIsBacked
<1>4. IInv => OneWriter
  BY OneHolder, Zenon DEF OneWriter, Holding
<1>5. IInv => RowsTellTheFiles
  BY <1>1, <1>2, <1>3, <1>4, Zenon DEF RowsTellTheFiles
<1> QED  BY <1>5, InductiveInvariant, PTL

(* No step changes a file that is at the target: the rename and whoever    *)
(* puts a file there find the name free.                                   *)
THEOREM NeverOverwritesHolds == Spec => NeverOverwrites
<1>1. [Next]_vars => [target # NoFile => target' = target]_vars
  <2> SUFFICES ASSUME Next, target # NoFile
               PROVE  target' = target
    BY Zenon
  <2>1. ASSUME NEW x \in Handlers, HandlerStep(x)
        PROVE  target' = target
    <3>1. ASSUME NEW f, OpenPartial(f)
          PROVE  target' = target
      BY <3>1, Zenon DEF OpenPartial
    <3>2. CASE LockPartial(x) \/ OpenTruncated(x) \/ RestartTransfer(x) \/ Prepare(x)
      BY <3>1, <3>2, Zenon DEF LockPartial, OpenTruncated, RestartTransfer, Prepare, names
    <3>3. CASE Publish(x)
      BY <3>3, Zenon DEF Publish
    <3>4. CASE ~(LockPartial(x) \/ OpenTruncated(x) \/ RestartTransfer(x) \/ Prepare(x)
                 \/ Publish(x))
      BY <2>1, <3>4, Zenon
      DEF HandlerStep, Claim, Probe, PlanSegments, WriteSegment, CheckpointSegment,
          TransferFails, SourceChanged, Verify, BeginPublish, FinalizePublish, Heartbeat,
          HandleError, FailOrRetry, RemovePartial, FinishControl, disk, names
    <3> QED  BY <3>2, <3>3, <3>4, Zenon
  <2>2. ASSUME NEW w \in Workers, RecoveryStep(w) \/ ProcessStep(w)
        PROVE  target' = target
    BY <2>2, Zenon
    DEF RecoveryStep, RecoverExpired, ReadJournal, InspectTarget, RecoverPublished,
        InspectPartial, RecoverUnpublished, RecoverRemove, FailRecovery,
        ProcessStep, Start, Shutdown, RequeueOwned, Crash, Vanish, disk, names
  <2>3. ASSUME NEW r \in Requests, RequestStep(r)
        PROVE  target' = target
    BY <2>3, Zenon
    DEF RequestStep, Pause, Resume, Cancel, Retry, Delete, Unlink, Requeue, ResetSegments,
        DeleteTask, Begin, disk, names
  <2>4. CASE LeaseExpires \/ UserPuts
    BY <2>4, Zenon DEF LeaseExpires, UserPuts, disk, names
  <2> QED  BY <2>1, <2>2, <2>3, <2>4, Zenon DEF Next
<1> QED  BY <1>1, PTL DEF Spec, NeverOverwrites
=============================================================================
