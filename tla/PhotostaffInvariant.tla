------------------------- MODULE PhotostaffInvariant ------------------------
(***************************************************************************)
(* Proofs about Photostaff, for any processes, photos, jobs, identities    *)
(* and disturbances: a photo shown as ready has its derivative, a          *)
(* publication that was begun can be finished, and reserved space belongs  *)
(* to a job.                                                               *)
(*                                                                         *)
(* The inductive invariant IInv has two halves.  RowsInv is about the rows *)
(* of jobs, FilesInv about the renderings: every rendering has a number of *)
(* its own, which names its temporary files, and whoever still needs those *)
(* files (a task that renders, a journal) is the only one with the number. *)
(* Most steps only give something up, a task, a journal or files nobody    *)
(* needs; GivesUp says so and GivingUpKeeps covers them all.               *)
(***************************************************************************)
EXTENDS Photostaff, WellFoundedInduction, TLAPS

(* The tasks that have a rendering, and those whose journal is not written *)
(* yet.                                                                    *)
Made == {"rendering", "rendered", "journaled", "published"}
Unpublished == {"rendering", "rendered"}

(* The columns of the tables, a task and a process.                        *)
Records == [job : Jobs, path : Paths, ident : Idents, op : Nat, lib : Nat]
Rows == [status : {"none", "queued", "running", "retrying", "completed", "failed"},
         kind : {NONE, "full_scan", "path_refresh"}, lib : Nat, owner : Workers \cup {NONE},
         lease : {NONE, "live", "expired"}, retry : Nat]
Assets == [status : {"none", "ready", "failed"}, ident : Idents \cup {NONE}, lib : Nat, gen : Nat]
Tasks == [pc : {"none", "claimed", "current", "reserved"} \cup Made,
          ident : Idents \cup {NONE}, op : Nat]
Processes == [pc : {"off", "tick", "recover", "recovering", "discover", "process", "sweep", "gone"},
              job : Jobs \cup {0}, lost : BOOLEAN, todo : SUBSET Records,
              rec : Records \cup {NONE}]

Uploads == [path : Paths, ident : Idents, lib : Nat, done : BOOLEAN]

TypeOK ==
  /\ library \in Nat /\ ops \in Nat
  /\ disk \in [Paths -> Idents \cup {NONE}]
  /\ job \in [Jobs -> Rows]
  /\ asset \in [Paths -> Assets]
  /\ journal \subseteq Records /\ space \subseteq Jobs \X Paths
  /\ temps \subseteq Nat /\ cache \in [Idents -> Nat]
  /\ worker \in [Workers -> Processes]
  /\ task \in [Workers -> [Paths -> Tasks]]
  /\ requests \subseteq Uploads

(* A process that works has a job row, and no row is of a later library.   *)
Assigned(w) ==
  worker[w].pc \in {"discover", "process"} =>
    worker[w].job \in Jobs /\ job[worker[w].job].status # "none"
RowsInv ==
  /\ \A j \in Jobs : job[j].lib \in 0 .. library
  /\ \A w \in Workers : Assigned(w)
  /\ \A r \in requests : r.lib \in 0 .. library
  /\ ReservationsHaveJob

(* A task belongs to a process that processes entries, has the files of    *)
(* its rendering until they are journaled, and has published when it says  *)
(* so.                                                                     *)
TaskInv(w, p) ==
  /\ task[w][p].pc # "none" => worker[w].pc = "process"
  /\ task[w][p].pc \in Made \cup {"reserved"} => task[w][p].ident \in Idents
  /\ task[w][p].pc \in Made => task[w][p].op \in 1 .. ops
  /\ task[w][p].pc \in Unpublished => task[w][p].op \in temps
  /\ task[w][p].pc = "published" => cache[task[w][p].ident] # 0

(* No two tasks have the same rendering.                                   *)
OwnRendering ==
  \A w, v \in Workers, p, q \in Paths :
    task[w][p].pc \in Made /\ task[v][q].pc \in Made /\ task[w][p].op = task[v][q].op
      => w = v /\ p = q

(* A journal can be finished, no other journal has its rendering, and a    *)
(* task that has it is the one that wrote the journal.                     *)
JournalInv(r) ==
  /\ r.op \in 1 .. ops /\ Publishable(r)
  /\ job[r.job].status # "none" /\ r.lib = job[r.job].lib
  /\ \A q \in journal : q.op = r.op => q = r
  /\ \A w \in Workers, p \in Paths : task[w][p].pc \in Made /\ task[w][p].op = r.op =>
       /\ task[w][p].pc \notin Unpublished
       /\ r.job = worker[w].job /\ r.path = p /\ r.ident = task[w][p].ident

(* What a process has listed for recovery: the journal, if it is still     *)
(* there, and no rendering of a task that has not written its journal.     *)
TodoInv(w) ==
  /\ \A r \in worker[w].todo :
       /\ r.op \in 1 .. ops
       /\ \A q \in journal : q.op = r.op => q = r
       /\ \A v \in Workers, p \in Paths : task[v][p].pc \in Unpublished => task[v][p].op # r.op
  /\ worker[w].pc = "recovering" =>
       worker[w].rec \in worker[w].todo /\ cache[worker[w].rec.ident] # 0

(* An asset is ready with a content whose derivative is in the cache.      *)
ReadyInv ==
  \A p \in Paths : asset[p].status = "ready" =>
    asset[p].ident \in Idents /\ cache[asset[p].ident] # 0

FilesInv ==
  /\ \A w \in Workers, p \in Paths : TaskInv(w, p)
  /\ OwnRendering
  /\ \A r \in journal : JournalInv(r)
  /\ \A w \in Workers : TodoInv(w)
  /\ ReadyInv

IInv == TypeOK /\ RowsInv /\ FilesInv

-----------------------------------------------------------------------------
(* The parts of the invariant.                                             *)

(* A process has a row for the job it works on, and the rows and uploads   *)
(* are of libraries there have been.                                       *)
LEMMA RowsPart ==
  ASSUME IInv
  PROVE  /\ library \in Nat /\ \A j \in Jobs : job[j].lib \in 0 .. library
         /\ \A r \in requests : r.lib \in 0 .. library
         /\ \A w \in Workers : Assigned(w)
         /\ ReservationsHaveJob
  BY Zenon DEF IInv, TypeOK, RowsInv

(* A task has the files of its rendering.                                  *)
LEMMA TaskPart == IInv => \A w \in Workers, p \in Paths : TaskInv(w, p)
  BY Zenon DEF IInv, FilesInv

(* A rendering is one task's.                                              *)
LEMMA RenderingPart == IInv => OwnRendering
  BY Zenon DEF IInv, FilesInv

(* A journal can be finished.                                              *)
LEMMA JournalPart == IInv => \A r \in journal : JournalInv(r)
  BY Zenon DEF IInv, FilesInv

(* A list for recovery names no rendering under way.                       *)
LEMMA TodoPart == IInv => \A w \in Workers : TodoInv(w)
  BY Zenon DEF IInv, FilesInv

(* A photo that is ready has its derivative.                               *)
LEMMA ReadyPart == IInv => ReadyInv
  BY Zenon DEF IInv, FilesInv

-----------------------------------------------------------------------------
(* Lemmas about the operators of the model.                                *)

(* Min, with which claim_job and claim_entry take the first row, is a      *)
(* member of a set that has one.                                           *)
LEMMA MinIsMember ==
  ASSUME NEW S, S \subseteq Nat, S # {}
  PROVE  Min(S) \in S
<1>1. PICK x \in S : \A y \in S : ~(<<y, x>> \in OpToRel(<, Nat))
  BY NatLessThanWellFounded, WFMin, Zenon
<1>2. \A y \in S : x <= y
  <2> TAKE y \in S
  <2>1. ~(<<y, x>> \in {pair \in Nat \X Nat : pair[1] < pair[2]})
    BY <1>1, Zenon DEF OpToRel
  <2> QED
    BY <2>1
<1> QED BY <1>2, Zenon DEF Min

(* enqueuePhotostaffJob writes at most one row, one that was free.         *)
QueuesOne(rows, new, lib) ==
  /\ new \in [Jobs -> Rows]
  /\ \A j \in Jobs :
       \/ new[j] = rows[j]
       \/ rows[j].status = "none" /\ new[j].status = "queued" /\ new[j].lib = lib

(* It does, whatever the rows were.                                        *)
LEMMA Enqueued ==
  ASSUME NEW rows \in [Jobs -> Rows], NEW lib \in Nat, NEW kind \in {"full_scan", "path_refresh"}
  PROVE  QueuesOne(rows, Enqueue(rows, lib, kind, FALSE), lib)
<1> DEFINE free == {j \in Jobs : rows[j].status = "none"}
<1>1. free # {} => Min(free) \in free
  BY MinIsMember, PhotoAssumption DEF Jobs
<1>2. [NoJob EXCEPT !.status = "queued", !.kind = kind, !.lib = lib] \in Rows
  BY Zenon DEF NoJob, Rows
<1>3. [NoJob EXCEPT !.status = "queued", !.kind = kind, !.lib = lib].status = "queued"
      /\ [NoJob EXCEPT !.status = "queued", !.kind = kind, !.lib = lib].lib = lib
  BY Zenon DEF NoJob
<1> HIDE DEF free
<1>4. Enqueue(rows, lib, kind, FALSE) = rows \/
      (free # {} /\ Enqueue(rows, lib, kind, FALSE) =
         [rows EXCEPT ![Min(free)] = [NoJob EXCEPT !.status = "queued", !.kind = kind, !.lib = lib]])
  BY Zenon DEF Enqueue, free
<1> QED
  BY <1>1, <1>2, <1>3, <1>4, Zenon DEF free, QueuesOne

-----------------------------------------------------------------------------
(* What most steps do.                                                     *)

(* A row that was written stays, with its library; a free row may be       *)
(* queued.  No row and no upload is of a later library.                    *)
RowsStay ==
  /\ library <= library'
  /\ \A r \in requests' : r.lib \in 0 .. library'
  /\ \A j \in Jobs :
       \/ job'[j].lib = job[j].lib /\ (job[j].status # "none" => job'[j].status # "none")
       \/ job[j].status = "none" /\ job'[j].status # "none" /\ job'[j].lib \in 0 .. library'

(* A process is only given a job that runs, and space is only reserved for *)
(* a job that runs, waits or has ended with its library.                   *)
KeepsSpace ==
  /\ \A w \in Workers : worker'[w].pc \in {"discover", "process"} =>
       \/ worker[w].pc \in {"discover", "process"} /\ worker'[w].job = worker[w].job
       \/ worker'[w].job \in Jobs /\ job'[worker'[w].job].status = "running"
  /\ \A s \in space' : \/ job'[s[1]].status \in {"running", "queued"}
                       \/ job'[s[1]].lib < library'
                       \/ s \in space /\ job'[s[1]].status = job[s[1]].status

(* Renderings and journals are given up, with temporary files that nobody  *)
(* needs; no rendering is begun and nothing is listed for recovery.        *)
GivesUp ==
  /\ ops' = ops /\ cache' = cache /\ journal' \subseteq journal
  /\ \A o \in temps \ temps' :
       /\ \A r \in journal' : r.op # o
       /\ \A w \in Workers, p \in Paths : task'[w][p].pc \in Unpublished => task'[w][p].op # o
  /\ \A w \in Workers, p \in Paths :
       /\ \/ task'[w][p] = task[w][p]
          \/ /\ task[w][p].pc \in Unpublished /\ task'[w][p].pc \in Unpublished
             /\ task'[w][p].ident = task[w][p].ident /\ task'[w][p].op = task[w][p].op
          \/ task'[w][p].pc \notin Made \cup {"reserved"}
          \/ task'[w][p].pc = "reserved" /\ task'[w][p].ident \in Idents
       /\ task'[w][p].pc # "none" => worker'[w].pc = "process"
       /\ task'[w][p].pc \in Made => worker'[w].job = worker[w].job
  /\ \A w \in Workers : /\ worker'[w].todo \subseteq worker[w].todo
                        /\ worker'[w].pc = "recovering" => worker'[w] = worker[w]
  /\ \A p \in Paths : asset'[p].status = "ready" =>
       asset'[p].ident \in Idents /\ cache[asset'[p].ident] # 0

(* Such a step keeps the invariant of the rows.                            *)
LEMMA RowsInvKept ==
  ASSUME IInv, TypeOK', RowsStay, KeepsSpace
  PROVE  RowsInv'
<1>1. \A j \in Jobs : job'[j].lib \in 0 .. library'
  BY RowsPart DEF TypeOK, RowsStay
<1>2. \A w \in Workers : Assigned(w)'
  BY RowsPart, Zenon DEF RowsStay, KeepsSpace, Assigned
<1>3. ReservationsHaveJob'
  <2>1. \A s \in space' : s[1] \in Jobs
    BY Zenon DEF TypeOK
  <2>2. \A s \in space : job[s[1]].status \in {"running", "queued"} \/ job[s[1]].lib < library
    BY Zenon DEF IInv, RowsInv, ReservationsHaveJob
  <2>3. \A j \in Jobs : job[j].lib \in Nat /\ job'[j].lib \in Nat /\ library \in Nat /\ library' \in Nat
    BY Zenon DEF IInv, TypeOK, Rows
  <2>4. \A j \in Jobs : job[j].status # "none" \/ job'[j].status = job[j].status
          => job'[j].lib = job[j].lib
    BY Zenon DEF RowsStay
  <2> QED
    BY <2>1, <2>2, <2>3, <2>4 DEF RowsStay, KeepsSpace, ReservationsHaveJob
<1> QED
  BY <1>1, <1>2, <1>3, Zenon DEF RowsInv, RowsStay

(* Such a step keeps the invariant of the renderings.                      *)
LEMMA FilesInvKept ==
  ASSUME IInv, TypeOK', RowsStay, GivesUp
  PROVE  FilesInv'
<1> DEFINE Same(w, p) == /\ task[w][p].pc \in Made
                         /\ task[w][p].op = task'[w][p].op
                         /\ task[w][p].ident = task'[w][p].ident
                         /\ task[w][p].pc \in Unpublished <=> task'[w][p].pc \in Unpublished
                         /\ task'[w][p].pc = "published" => task[w][p].pc = "published"
                         /\ worker'[w].job = worker[w].job
<1>1. \A w \in Workers, p \in Paths : task'[w][p].pc \in Made => Same(w, p)
  BY ZenonT(60) DEF GivesUp, Made, Unpublished
<1>2. \A w \in Workers, p \in Paths : task'[w][p].pc \in Unpublished => task'[w][p].pc \in Made
  BY Zenon DEF Made, Unpublished
<1>3. \A w \in Workers, p \in Paths : TaskInv(w, p)'
  BY <1>1, <1>2, TaskPart DEF TaskInv, GivesUp, Made, Unpublished
<1>4. OwnRendering'
  BY <1>1, RenderingPart DEF OwnRendering
<1>5. \A r \in journal' : Publishable(r)'
  BY JournalPart, Zenon DEF JournalInv, Publishable, GivesUp
<1>6. \A r \in journal' : r \in journal /\ job'[r.job].status # "none" /\ r.lib = job'[r.job].lib
  <2>1. \A j \in Jobs : job[j].status # "none" =>
          job'[j].status # "none" /\ job'[j].lib = job[j].lib
    BY Zenon DEF RowsStay
  <2> QED
    BY <2>1, JournalPart DEF IInv, TypeOK, Records, JournalInv, GivesUp
<1>7. \A r \in journal' : JournalInv(r)'
  BY <1>1, <1>5, <1>6, JournalPart DEF JournalInv, GivesUp
<1>8. \A w \in Workers : TodoInv(w)'
  BY <1>1, <1>2, TodoPart DEF TodoInv, GivesUp
<1>9. ReadyInv'
  BY Zenon DEF GivesUp, ReadyInv
<1> QED
  BY <1>3, <1>4, <1>7, <1>8, <1>9, Zenon DEF FilesInv

(* A step that does no more than that keeps the whole invariant.           *)
LEMMA GivingUpKeeps ==
  ASSUME IInv, TypeOK', RowsStay, KeepsSpace, GivesUp
  PROVE  IInv'
  BY RowsInvKept, FilesInvKept, Zenon DEF IInv

(* A step that leaves the renderings and what is made of them alone.       *)
LEMMA FilesUntouched ==
  ASSUME IInv, UNCHANGED <<ops, cache, journal, temps, task, worker, asset>>
  PROVE  GivesUp
  BY TaskPart, ReadyPart, Zenon DEF TaskInv, GivesUp, ReadyInv

(* A step that takes no job back to another library or to a free row, and  *)
(* perhaps leaves the rows, processes and reservations alone.              *)
LEMMA RowsUntouched ==
  ASSUME IInv, UNCHANGED <<library, requests>>,
         \A j \in Jobs : job'[j].lib = job[j].lib /\ (job[j].status # "none" => job'[j].status # "none")
  PROVE  RowsStay /\ (UNCHANGED <<job, worker, space>> => KeepsSpace)
<1>1. RowsStay
  BY RowsPart DEF RowsStay
<1>2. UNCHANGED <<job, worker, space>> => KeepsSpace
  BY Zenon DEF KeepsSpace
<1> QED
  BY <1>1, <1>2, Zenon

-----------------------------------------------------------------------------
(* The API.                                                                *)

(* A step that may queue a job and leaves the other rows, the processes    *)
(* and the reservations alone.                                             *)
LEMMA QueuingKeeps ==
  ASSUME IInv, TypeOK', GivesUp, NEW lib \in 0 .. library, QueuesOne(job, job', lib),
         UNCHANGED <<library, worker, space>>, \A r \in requests' : r.lib \in 0 .. library
  PROVE  IInv'
<1>1. RowsStay
  BY DEF IInv, TypeOK, QueuesOne, RowsStay
<1>2. KeepsSpace
  BY Zenon DEF IInv, TypeOK, QueuesOne, KeepsSpace
<1> QED
  BY <1>1, <1>2, GivingUpKeeps, Zenon

(* savePhotostaffLibrarySettings ends every job of the old library and     *)
(* takes the assets off the timeline.                                      *)
LEMMA ChangeLibraryKeeps ==
  ASSUME IInv, ChangeLibrary
  PROVE  IInv'
<1> DEFINE ended == [j \in Jobs |-> IF job[j].status \in {"queued", "running", "retrying"}
                      THEN [job[j] EXCEPT !.status = "failed", !.owner = NONE, !.lease = NONE]
                      ELSE job[j]]
<1>1. /\ ended \in [Jobs -> Rows]
      /\ \A j \in Jobs : /\ ended[j].lib = job[j].lib
                         /\ ended[j].status # "none" <=> job[j].status # "none"
  BY ZenonT(60) DEF IInv, TypeOK, Rows
<1>2. /\ library' = library + 1 /\ job' = Enqueue(ended, library + 1, "full_scan", FALSE)
      /\ asset' = [p \in Paths |-> [status |-> "none", ident |-> NONE, lib |-> 0, gen |-> 0]]
      /\ UNCHANGED <<disk, journal, space, temps, cache, worker, task, ops, requests>>
  BY Zenon DEF ChangeLibrary, fsVars
<1> HIDE DEF ended
<1>3. library \in Nat /\ library' = library + 1 /\ library' \in Nat /\ library + 1 \in Nat
  BY <1>2 DEF IInv, TypeOK
<1>4. QueuesOne(ended, job', library')
  BY <1>1, <1>2, <1>3, Enqueued, Zenon
<1>5. TypeOK'
  BY <1>2, <1>3, <1>4, Zenon DEF IInv, TypeOK, QueuesOne, Assets
<1>6. \A j \in Jobs : \/ ended[j].status = "none" /\ job'[j].status = "queued" /\ job'[j].lib = library'
                      \/ job'[j].lib = job[j].lib /\ job'[j].lib < library' /\ job'[j] = ended[j]
  <2>1. \A j \in Jobs : job[j].lib \in 0 .. library
    BY RowsPart, Zenon
  <2> QED
    BY <1>1, <1>3, <1>4, <2>1 DEF QueuesOne
<1>7. RowsStay
  <2>1. \A r \in requests' : r.lib \in 0 .. library
    BY <1>2, RowsPart, Zenon
  <2> QED
    BY <1>1, <1>3, <1>6, <2>1 DEF RowsStay
<1>8. KeepsSpace
  BY <1>2, <1>6, Zenon DEF IInv, TypeOK, KeepsSpace
<1>9. GivesUp
  BY <1>2, TaskPart, Zenon DEF TaskInv, GivesUp
<1> QED
  BY <1>5, <1>7, <1>8, <1>9, GivingUpKeeps, Zenon

(* POST /api/photos/scans may queue a row.                                 *)
LEMMA RequestScanKeeps ==
  ASSUME IInv, RequestScan
  PROVE  IInv'
<1>1. /\ job' = Enqueue(job, library, "full_scan", FALSE)
      /\ UNCHANGED <<library, disk, asset, journal, space, temps, cache, worker, task, ops, requests>>
  BY Zenon DEF RequestScan, fsVars
<1>2. job \in [Jobs -> Rows] /\ library \in Nat /\ library \in 0 .. library
  BY DEF IInv, TypeOK
<1>3. QueuesOne(job, job', library)
  BY <1>1, <1>2, Enqueued, Zenon
<1>4. TypeOK' /\ \A r \in requests' : r.lib \in 0 .. library
  BY <1>1, <1>3, RowsPart, Zenon DEF IInv, TypeOK, QueuesOne
<1> QED
  BY <1>1, <1>2, <1>3, <1>4, FilesUntouched, QueuingKeeps, Zenon

(* PUT /api/photos/upload links its file and may queue a row.              *)
LEMMA LinkUploadKeeps ==
  ASSUME IInv, NEW r \in requests, LinkUpload(r)
  PROVE  IInv'
<1>1. /\ job' = Enqueue(job, r.lib, "path_refresh", FALSE) \/ job' = job
      /\ disk' = [disk EXCEPT ![r.path] = r.ident] \/ disk' = disk
      /\ requests' = (requests \ {r}) \cup {[r EXCEPT !.done = TRUE]}
      /\ UNCHANGED <<library, asset, journal, space, temps, cache, worker, task, ops>>
  BY Zenon DEF LinkUpload
<1>2. /\ job \in [Jobs -> Rows] /\ r.lib \in Nat /\ r.lib \in 0 .. library /\ r.ident \in Idents
      /\ [r EXCEPT !.done = TRUE] \in Uploads
      /\ [r EXCEPT !.done = TRUE].lib = r.lib
  BY RowsPart, Zenon DEF IInv, TypeOK, Uploads
<1>3. QueuesOne(job, job', r.lib)
  <2>1. QueuesOne(job, Enqueue(job, r.lib, "path_refresh", FALSE), r.lib)
    BY <1>2, Enqueued, Zenon
  <2> QED
    BY <1>1, <1>2, <2>1, Zenon DEF QueuesOne
<1>4. TypeOK' /\ \A q \in requests' : q.lib \in 0 .. library
  BY <1>1, <1>2, <1>3, RowsPart, Zenon DEF IInv, TypeOK, QueuesOne
<1> QED
  BY <1>1, <1>2, <1>3, <1>4, FilesUntouched, QueuingKeeps, Zenon

(* A reservation of an upload, an edit of a source file and a lease that   *)
(* runs out.                                                               *)
LEMMA OutsideKeeps ==
  ASSUME IInv,
         \/ \E p \in Paths, i \in Idents : ReserveUpload(p, i)
         \/ \E p \in Paths, i \in Idents \cup {NONE} : EditFile(p, i)
         \/ \E j \in Jobs : LeaseExpires(j)
  PROVE  IInv'
<1>1. /\ UNCHANGED <<library, asset, journal, space, temps, cache, worker, task, ops>>
      /\ \/ disk' = disk
         \/ \E p \in Paths, i \in Idents \cup {NONE} : disk' = [disk EXCEPT ![p] = i]
      /\ \/ requests' = requests
         \/ \E p \in Paths, i \in Idents :
              requests' = requests \cup {[path |-> p, ident |-> i, lib |-> library, done |-> FALSE]}
      /\ \/ job' = job
         \/ \E j \in Jobs : job' = [job EXCEPT ![j].lease = "expired"]
  BY Zenon DEF ReserveUpload, EditFile, LeaseExpires, fsVars, dbVars
<1>2. /\ requests' \subseteq Uploads
      /\ \A r \in requests' : r.lib \in 0 .. library
  <2>1. \A p \in Paths, i \in Idents :
          LET new == [path |-> p, ident |-> i, lib |-> library, done |-> FALSE]
          IN new \in Uploads /\ new.lib \in 0 .. library
    BY DEF IInv, TypeOK, Uploads
  <2> QED
    BY <1>1, <2>1, RowsPart, Zenon DEF IInv, TypeOK
<1>3. /\ job' \in [Jobs -> Rows]
      /\ \A j \in Jobs : job'[j].status = job[j].status /\ job'[j].lib = job[j].lib
  <2>1. \A j \in Jobs : LET new == [job[j] EXCEPT !.lease = "expired"]
                         IN new \in Rows /\ new.status = job[j].status /\ new.lib = job[j].lib
    BY Zenon DEF IInv, TypeOK, Rows
  <2> QED
    BY <1>1, <2>1, Zenon DEF IInv, TypeOK
<1>4. TypeOK'
  BY <1>1, <1>2, <1>3, Zenon DEF IInv, TypeOK
<1>5. RowsStay /\ KeepsSpace
  BY <1>1, <1>2, <1>3 DEF IInv, TypeOK, RowsStay, KeepsSpace
<1> QED
  BY <1>1, <1>4, <1>5, FilesUntouched, GivingUpKeeps, Zenon

-----------------------------------------------------------------------------
(* The life of a process.                                                  *)

(* A process that starts removes the temporary files no journal names,     *)
(* while nobody renders.                                                   *)
LEMMA StartKeeps ==
  ASSUME IInv, NEW w \in Workers, Start(w)
  PROVE  IInv'
<1>1. /\ worker' \in [Workers -> Processes]
      /\ worker[w].pc = "off" /\ worker'[w].pc = "tick" /\ worker'[w].todo = worker[w].todo
      /\ \A v \in Workers : v # w => worker'[v] = worker[v]
      /\ UNCHANGED <<library, job, asset, journal, space, disk, cache, task, ops, requests>>
      /\ temps' = {o \in temps : \E r \in journal : r.op = o}
      /\ \A v \in Workers, p \in Paths : task[v][p].pc \notin Unpublished
  BY ZenonT(60) DEF IInv, TypeOK, Processes, Start, NobodyShares, Sharing, Unpublished, dbVars
<1>2. TypeOK'
  BY <1>1, Zenon DEF IInv, TypeOK
<1>3. RowsStay /\ KeepsSpace
  BY <1>1, RowsUntouched, Zenon DEF KeepsSpace
<1>4. GivesUp
  BY <1>1, TaskPart, ReadyPart, ZenonT(60) DEF TaskInv, ReadyInv, GivesUp, Made
<1> QED
  BY <1>2, <1>3, <1>4, GivingUpKeeps, Zenon

(* The tasks of a process end where they are; the files of a rendering     *)
(* that was not finished may be removed.                                   *)
LEMMA DroppedTasks ==
  ASSUME IInv, NEW w \in Workers, NEW pc \in {"tick", "gone"},
         worker' = Released(w, pc), task' = AllIdle(w),
         temps' = temps \/ temps' = temps \ Dropped(w),
         UNCHANGED <<ops, cache, journal, asset>>
  PROVE  /\ GivesUp /\ worker' \in [Workers -> Processes] /\ task' \in [Workers -> [Paths -> Tasks]]
         /\ \A v \in Workers : worker'[v].pc \in {"discover", "process"} => worker'[v] = worker[v]
<1>1. /\ worker' \in [Workers -> Processes]
      /\ worker'[w].pc = pc /\ worker'[w].todo = {}
      /\ \A v \in Workers : v # w => worker'[v] = worker[v]
  BY Zenon DEF IInv, TypeOK, Processes, Released
<1>2. /\ task' \in [Workers -> [Paths -> Tasks]]
      /\ \A p \in Paths : task'[w][p].pc = "none"
      /\ \A v \in Workers : v # w => task'[v] = task[v]
  BY Zenon DEF IInv, TypeOK, Tasks, AllIdle, Idle
<1>3. \A o \in temps \ temps' : \E p \in Paths : task[w][p].pc = "rendering" /\ task[w][p].op = o
  BY Zenon DEF Dropped
<1>4. \A o \in temps \ temps' :
        /\ \A r \in journal' : r.op # o
        /\ \A v \in Workers, p \in Paths : task'[v][p].pc \in Unpublished => task'[v][p].op # o
  BY SMTT(30), <1>2, <1>3, RenderingPart, JournalPart DEF JournalInv, OwnRendering, Made, Unpublished
<1> QED
  <2>1. GivesUp
    BY <1>1, <1>2, <1>4, TaskPart, ReadyPart DEF TaskInv, ReadyInv, GivesUp, Made
  <2> QED
    BY <1>1, <1>2, <2>1, Zenon

(* release_worker gives the jobs of the process back to the queue.         *)
LEMMA StopKeeps ==
  ASSUME IInv, NEW w \in Workers, Stop(w)
  PROVE  IInv'
<1>1. worker' = Released(w, "gone") /\ task' = AllIdle(w)
      /\ temps' = temps \ Dropped(w) /\ UNCHANGED <<library, asset, journal, disk, cache, ops, requests>>
  BY Zenon DEF Stop, Released
<1>2. /\ GivesUp /\ worker' \in [Workers -> Processes] /\ task' \in [Workers -> [Paths -> Tasks]]
      /\ \A v \in Workers : worker'[v].pc \in {"discover", "process"} => worker'[v] = worker[v]
  BY <1>1, DroppedTasks, Zenon
<1>3. /\ job' \in [Jobs -> Rows] /\ space' \subseteq space
      /\ \A j \in Jobs : /\ job'[j].lib = job[j].lib
                         /\ job'[j].status = "queued" \/ job'[j].status = job[j].status
  <2>1. \A j \in Jobs :
          LET new == [job[j] EXCEPT !.status = "queued", !.owner = NONE, !.lease = NONE]
          IN new \in Rows /\ new.status = "queued" /\ new.lib = job[j].lib
    BY ZenonT(60) DEF IInv, TypeOK, Rows
  <2>2. /\ job' = [j \in Jobs |->
                     IF j \in {i \in Jobs : job[i].owner = w} /\ job[j].status = "running"
                     THEN [job[j] EXCEPT !.status = "queued", !.owner = NONE, !.lease = NONE]
                     ELSE job[j]]
        /\ space' \subseteq space
    BY Zenon DEF Stop
  <2> QED
    BY <2>1, <2>2, Zenon DEF IInv, TypeOK
<1>4. TypeOK'
  BY <1>1, <1>2, <1>3, Zenon DEF IInv, TypeOK
<1>5. RowsStay /\ KeepsSpace
  <2>1. \A j \in Jobs : job'[j].lib = job[j].lib /\ (job[j].status # "none" => job'[j].status # "none")
    BY <1>3
  <2>2. RowsStay
    BY <1>1, <2>1, RowsUntouched, Zenon
  <2>3. \A s \in space : s[1] \in Jobs
    BY Zenon DEF IInv, TypeOK
  <2>4. KeepsSpace
    BY SMTT(30), <1>1, <1>2, <1>3, <2>1, <2>3 DEF KeepsSpace
  <2> QED
    BY <2>2, <2>4, Zenon
<1> QED
  BY <1>2, <1>4, <1>5, GivingUpKeeps, Zenon

(* A process that is killed leaves rows and files as they are.             *)
LEMMA CrashKeeps ==
  ASSUME IInv, NEW w \in Workers, Crash(w)
  PROVE  IInv'
<1>1. worker' = Released(w, "gone") /\ task' = AllIdle(w)
      /\ UNCHANGED <<temps, library, job, space, asset, journal, disk, cache, ops, requests>>
  BY Zenon DEF Crash, Released, dbVars, fsVars
<1>2. /\ GivesUp /\ worker' \in [Workers -> Processes] /\ task' \in [Workers -> [Paths -> Tasks]]
      /\ \A v \in Workers : worker'[v].pc \in {"discover", "process"} => worker'[v] = worker[v]
  BY <1>1, DroppedTasks, Zenon
<1>3. TypeOK'
  BY <1>1, <1>2, Zenon DEF IInv, TypeOK
<1>4. RowsStay /\ KeepsSpace
  BY <1>1, <1>2, RowsUntouched, Zenon DEF KeepsSpace
<1> QED
  BY <1>2, <1>3, <1>4, GivingUpKeeps, Zenon

(* The end of run_job with an error gives up the job, if it is still this  *)
(* process's, with the space reserved for it.                              *)
LEMMA JobFailsKeeps ==
  ASSUME IInv, NEW w \in Workers, worker[w].pc \in {"discover", "process"}, NEW error,
         JobFails(w, error), UNCHANGED <<library, asset, journal, disk, cache, ops, requests>>
  PROVE  IInv'
<1>1. worker' = Released(w, "tick") /\ task' = AllIdle(w) /\ temps' = temps \ Dropped(w)
  BY Zenon DEF JobFails
<1>2. /\ GivesUp /\ worker' \in [Workers -> Processes] /\ task' \in [Workers -> [Paths -> Tasks]]
      /\ \A v \in Workers : worker'[v].pc \in {"discover", "process"} => worker'[v] = worker[v]
  BY <1>1, DroppedTasks, Zenon
<1>3. worker[w].job \in Jobs /\ job[worker[w].job].status # "none"
  BY RowsPart, Zenon DEF Assigned
<1>4. /\ job' \in [Jobs -> Rows] /\ space' \subseteq space
      /\ \A j \in Jobs : /\ job'[j].lib = job[j].lib
                         /\ job[j].status # "none" => job'[j].status # "none"
      /\ \A s \in space' : job'[s[1]].status = job[s[1]].status
  <2> DEFINE Ended(j, status) ==
               [job[j] EXCEPT !.status = status, !.owner = NONE, !.lease = NONE, !.retry = @ + 1]
             last == IF error = "storage" \/ (error = "database" /\ job[worker[w].job].retry < MaxRetries)
                     THEN "retrying" ELSE "failed"
  <2>1. ASSUME NEW j \in Jobs, NEW status \in {"retrying", "failed"}
        PROVE  /\ Ended(j, status) \in Rows
               /\ Ended(j, status).status = status /\ Ended(j, status).lib = job[j].lib
    <3>1. job[j] \in Rows
      BY Zenon DEF IInv, TypeOK
    <3>2. job[j].retry \in Nat /\ job[j].retry + 1 \in Nat
      BY <3>1 DEF Rows
    <3>3. \A n \in Nat : LET new == [job[j] EXCEPT !.status = status, !.owner = NONE,
                                                   !.lease = NONE, !.retry = n]
                         IN new \in Rows /\ new.status = status /\ new.lib = job[j].lib
      BY <3>1, Zenon DEF Rows
    <3> QED
      BY <3>2, <3>3, Zenon
  <2>2. \/ UNCHANGED <<job, space>>
        \/ /\ job' = [job EXCEPT ![worker[w].job] = Ended(worker[w].job, last)]
           /\ space' = {s \in space : s[1] # worker[w].job}
    BY Zenon DEF JobFails
  <2>3. last \in {"retrying", "failed"}
    BY Zenon
  <2> HIDE DEF Ended, last
  <2> QED
    <3>1. job \in [Jobs -> Rows] /\ space \subseteq Jobs \X Paths
      BY Zenon DEF IInv, TypeOK
    <3> DEFINE k == worker[w].job
    <3>2. Ended(k, last) \in Rows /\ Ended(k, last).status = last /\ Ended(k, last).lib = job[k].lib
      BY <1>3, <2>1, <2>3, Zenon
    <3> QED
      BY <1>3, <2>2, <2>3, <3>1, <3>2, Zenon
<1>5. TypeOK'
  BY <1>1, <1>2, <1>4, Zenon DEF IInv, TypeOK
<1>6. RowsStay /\ KeepsSpace
  BY <1>1, <1>2, <1>4, RowsUntouched, Zenon DEF KeepsSpace
<1> QED
  BY <1>2, <1>5, <1>6, GivingUpKeeps, Zenon

(* The lease task of run_job.                                              *)
LEMMA RenewLeaseKeeps ==
  ASSUME IInv, NEW w \in Workers, RenewLease(w)
  PROVE  IInv'
<1>1. worker[w].job \in Jobs
  BY RowsPart, Zenon DEF Assigned, RenewLease
<1>2. /\ job' \in [Jobs -> Rows] /\ worker' \in [Workers -> Processes]
      /\ \A j \in Jobs : job'[j].lib = job[j].lib /\ job'[j].status = job[j].status
      /\ \A v \in Workers : /\ worker'[v].pc = worker[v].pc /\ worker'[v].job = worker[v].job
                            /\ worker'[v].todo = worker[v].todo
                            /\ worker[v].pc = "recovering" => worker'[v] = worker[v]
      /\ UNCHANGED <<library, entry, asset, journal, space, disk, temps, cache, task, ops, requests>>
  <2>1. /\ UNCHANGED <<library, entry, asset, journal, space, disk, temps, cache, task, ops, requests>>
        /\ \/ job' = [job EXCEPT ![worker[w].job].lease = "live"] /\ worker' = worker
           \/ worker' = [worker EXCEPT ![w].lost = TRUE] /\ job' = job
        /\ worker[w].pc # "recovering"
    BY Zenon DEF RenewLease, fsVars
  <2>2. /\ job' \in [Jobs -> Rows]
        /\ \A j \in Jobs : job'[j].lib = job[j].lib /\ job'[j].status = job[j].status
    <3>1. \A j \in Jobs : LET new == [job[j] EXCEPT !.lease = "live"]
                          IN new \in Rows /\ new.lib = job[j].lib /\ new.status = job[j].status
      BY ZenonT(60) DEF IInv, TypeOK, Rows
    <3> QED
      BY <1>1, <2>1, <3>1, Zenon DEF IInv, TypeOK
  <2>3. /\ worker' \in [Workers -> Processes]
        /\ \A v \in Workers : /\ worker'[v].pc = worker[v].pc /\ worker'[v].job = worker[v].job
                              /\ worker'[v].todo = worker[v].todo
                              /\ worker[v].pc = "recovering" => worker'[v] = worker[v]
    <3>1. \A v \in Workers : LET new == [worker[v] EXCEPT !.lost = TRUE]
                             IN /\ new \in Processes /\ new.pc = worker[v].pc
                                /\ new.job = worker[v].job /\ new.todo = worker[v].todo
      BY ZenonT(60) DEF IInv, TypeOK, Processes
    <3> QED
      BY <2>1, <3>1, Zenon DEF IInv, TypeOK
  <2> QED
    BY <2>1, <2>2, <2>3, Zenon
<1>3. TypeOK'
  BY <1>2, Zenon DEF IInv, TypeOK
<1>4. RowsStay /\ KeepsSpace
  <2>1. \A j \in Jobs : job'[j].lib = job[j].lib /\ (job[j].status # "none" => job'[j].status # "none")
    BY <1>2, Zenon
  <2>2. RowsStay
    BY <1>2, <2>1, RowsUntouched, Zenon
  <2>3. \A s \in space : s[1] \in Jobs
    BY Zenon DEF IInv, TypeOK
  <2>4. KeepsSpace
    BY SMTT(30), <1>2, <2>1, <2>3 DEF KeepsSpace
  <2> QED
    BY <2>2, <2>4, Zenon
<1>5. GivesUp
  BY <1>2, TaskPart, ReadyPart DEF TaskInv, ReadyInv, GivesUp
<1> QED
  BY <1>3, <1>4, <1>5, GivingUpKeeps, Zenon

(* claim_job takes the first job that is ready and clears its space.       *)
LEMMA ClaimJobKeeps ==
  ASSUME IInv, NEW w \in Workers, NEW periodic \in BOOLEAN, NEW due \in SUBSET Jobs,
         ClaimJob(w, periodic, due)
  PROVE  IInv'
<1> DEFINE pending == \E j \in Jobs : job[j].lib = library /\ job[j].status \in {"queued", "running", "retrying"}
           listed == IF periodic /\ ~pending THEN Enqueue(job, library, "full_scan", FALSE) ELSE job
           open == [j \in Jobs |-> IF listed[j].status = "running" /\ listed[j].lease # "live"
                      THEN [listed[j] EXCEPT !.status = "queued", !.owner = NONE, !.lease = NONE]
                      ELSE listed[j]]
           ready == {j \in Jobs : open[j].status = "queued"} \cup due
<1>1. QueuesOne(job, listed, library)
  <2>1. job \in [Jobs -> Rows] /\ library \in Nat
    BY Zenon DEF IInv, TypeOK
  <2>2. QueuesOne(job, Enqueue(job, library, "full_scan", FALSE), library)
    BY <2>1, Enqueued, Zenon
  <2>3. QueuesOne(job, job, library)
    BY <2>1, Zenon DEF QueuesOne
  <2> QED
    BY <2>2, <2>3, Zenon
<1> HIDE DEF listed
<1>2. /\ open \in [Jobs -> Rows]
      /\ \A j \in Jobs : /\ open[j].lib = listed[j].lib
                         /\ open[j].status = listed[j].status \/ open[j].status = "queued"
  <2>1. \A j \in Jobs :
          LET new == [listed[j] EXCEPT !.status = "queued", !.owner = NONE, !.lease = NONE]
          IN new \in Rows /\ new.status = "queued" /\ new.lib = listed[j].lib
    <3>1. \A j \in Jobs : listed[j] \in Rows
      BY <1>1, Zenon DEF QueuesOne
    <3> QED
      BY <3>1, Zenon DEF Rows
  <2> QED
    BY <1>1, <2>1, Zenon DEF QueuesOne
<1>3. /\ due \subseteq {j \in Jobs : job[j].status = "retrying"} /\ worker[w].pc = "recover"
      /\ UNCHANGED <<library, asset, journal, disk, temps, cache, task, ops, requests>>
      /\ \/ job' = open /\ worker' = Released(w, "tick") /\ space' = space
         \/ /\ ready # {}
            /\ job' = [open EXCEPT ![Min(ready)] =
                         [@ EXCEPT !.status = "running", !.owner = w, !.lease = "live"]]
            /\ space' = {s \in space : s[1] # Min(ready)}
            /\ worker' = [Released(w, "discover") EXCEPT ![w].job = Min(ready)]
  BY Zenon DEF ClaimJob, listed, fsVars
<1> HIDE DEF open
<1>4. ready \subseteq Jobs /\ \A j \in ready : open[j].status # "none"
  BY <1>1, <1>2, <1>3, Zenon DEF QueuesOne
<1>5. ready # {} => Min(ready) \in ready
  BY <1>4, MinIsMember, PhotoAssumption DEF Jobs
<1> HIDE DEF ready
<1>6. /\ job' \in [Jobs -> Rows] /\ space' \subseteq space
      /\ \A j \in Jobs : /\ job'[j].lib = listed[j].lib
                         /\ job'[j].status \in {listed[j].status, "queued", "running"}
  <2>1. \A j \in Jobs :
          LET new == [open[j] EXCEPT !.status = "running", !.owner = w, !.lease = "live"]
          IN new \in Rows /\ new.status = "running" /\ new.lib = open[j].lib
    BY <1>2, ZenonT(60) DEF Rows
  <2>2. job' = open \/ \E j \in Jobs : job' = [open EXCEPT ![j] =
                         [open[j] EXCEPT !.status = "running", !.owner = w, !.lease = "live"]]
    BY <1>3, <1>4, <1>5, Zenon
  <2>3. space' \subseteq space
    BY <1>3, Zenon
  <2>4. CASE job' = open
    BY <1>2, <2>3, <2>4, Zenon
  <2>5. ASSUME NEW k \in Jobs,
               job' = [open EXCEPT ![k] =
                         [open[k] EXCEPT !.status = "running", !.owner = w, !.lease = "live"]]
        PROVE  /\ job' \in [Jobs -> Rows]
               /\ \A j \in Jobs : /\ job'[j].lib = open[j].lib
                                  /\ job'[j].status = open[j].status \/ job'[j].status = "running"
    BY <1>2, <2>1, <2>5, Zenon
  <2> QED
    BY <1>2, <2>2, <2>3, <2>4, <2>5, Zenon
<1>7. /\ worker' \in [Workers -> Processes]
      /\ worker'[w].pc \in {"tick", "discover"} /\ worker'[w].todo = {}
      /\ \A v \in Workers : v # w => worker'[v] = worker[v]
      /\ worker'[w].pc = "discover" =>
           worker'[w].job \in Jobs /\ job'[worker'[w].job].status = "running"
  <2> DEFINE free(pc) == [pc |-> pc, job |-> 0, lost |-> FALSE, todo |-> {}, rec |-> NONE]
             given(j) == [free("discover") EXCEPT !.job = j]
  <2>1. /\ free("tick") \in Processes /\ free("tick").pc = "tick" /\ free("tick").todo = {}
        /\ \A j \in Jobs : /\ given(j) \in Processes /\ given(j).pc = "discover"
                           /\ given(j).todo = {} /\ given(j).job = j
    BY Zenon DEF Processes
  <2>2. \A j \in Jobs : [Released(w, "discover") EXCEPT ![w].job = j] = [worker EXCEPT ![w] = given(j)]
    <3>1. worker \in [Workers -> Processes]
      BY Zenon DEF IInv, TypeOK
    <3>2. Released(w, "discover") = [worker EXCEPT ![w] = free("discover")]
      BY Zenon DEF Released
    <3> HIDE DEF free
    <3> QED
      BY <3>1, <3>2, Zenon
  <2>3. Released(w, "tick") = [worker EXCEPT ![w] = free("tick")]
    BY Zenon DEF Released
  <2>4. \/ worker' = [worker EXCEPT ![w] = free("tick")]
        \/ \E j \in Jobs : /\ worker' = [worker EXCEPT ![w] = given(j)]
                           /\ job'[j].status = "running"
    <3>1. ASSUME NEW j \in Jobs
          PROVE  [open EXCEPT ![j] = [@ EXCEPT !.status = "running", !.owner = w, !.lease = "live"]][j].status
                   = "running"
      <4>1. open[j] \in Rows /\ open \in [Jobs -> Rows]
        BY <1>2, Zenon
      <4> QED
        BY <4>1, Zenon DEF Rows
    <3> HIDE DEF free, given
    <3>2. CASE ready = {}
      BY <1>3, <2>3, <3>2, Zenon
    <3>3. CASE ready # {}
      <4>1. Min(ready) \in Jobs
        BY <1>4, <1>5, <3>3, Zenon
      <4> QED
        BY <1>3, <4>1, <2>2, <2>3, <3>1, ZenonT(60)
    <3> QED
      BY <3>2, <3>3, Zenon
  <2> HIDE DEF free, given
  <2> QED
    BY <2>1, <2>4 DEF IInv, TypeOK
<1>8. TypeOK'
  BY <1>3, <1>6, <1>7, Zenon DEF IInv, TypeOK
<1>9. RowsStay
  BY <1>1, <1>3, <1>6, RowsPart DEF QueuesOne, RowsStay
<1>10. KeepsSpace
  <2>1. \A s \in space' : s \in space /\ s[1] \in Jobs
    BY <1>6, Zenon DEF IInv, TypeOK
  <2> QED
    BY <1>1, <1>6, <1>7, <2>1 DEF QueuesOne, KeepsSpace
<1>11. GivesUp
  BY <1>3, <1>7, TaskPart, ReadyPart DEF TaskInv, ReadyInv, GivesUp, Made
<1> QED
  BY <1>8, <1>9, <1>10, <1>11, GivingUpKeeps, Zenon

-----------------------------------------------------------------------------
(* Publication and its recovery.                                           *)

(* publish_derivatives fills an empty place in the cache and leaves every  *)
(* other one; it takes away no files that another rendering or journal     *)
(* needs.                                                                  *)
LEMMA PublishedDerivatives ==
  ASSUME IInv, NEW r \in Records, r.op \in 1 .. ops, \A q \in journal : q.op = r.op => q = r,
         PublishDerivatives(r)
  PROVE  /\ temps' \subseteq temps /\ cache' \in [Idents -> Nat]
         /\ cache'[r.ident] # 0
         /\ \A i \in Idents : cache[i] # 0 => cache'[i] = cache[i]
         /\ \A o \in temps \ temps' : o = r.op
         /\ \A q \in journal : q.op \in temps' \/ cache'[q.ident] = q.op
<1>1. /\ temps' \subseteq temps /\ cache' \in [Idents -> Nat]
      /\ cache'[r.ident] # 0
      /\ \A i \in Idents : cache[i] # 0 => cache'[i] = cache[i]
      /\ \A o \in temps \ temps' : o = r.op /\ cache'[r.ident] = r.op
  BY DEF IInv, TypeOK, Records, PublishDerivatives
<1>2. \A q \in journal : q.op \in temps' \/ cache'[q.ident] = q.op
  BY <1>1, JournalPart DEF IInv, TypeOK, Records, JournalInv, Publishable
<1> QED
  BY <1>1, <1>2, Zenon

(* The same for the whole step, when the task or the process that          *)
(* publishes notes it and everybody else stays.                            *)
LEMMA PublicationKeepsFiles ==
  ASSUME IInv, NEW r \in Records, r.op \in 1 .. ops, \A q \in journal : q.op = r.op => q = r,
         \A w \in Workers, p \in Paths : task[w][p].pc \in Unpublished => task[w][p].op # r.op,
         PublishDerivatives(r), UNCHANGED <<job, journal, ops, asset>>,
         \A w \in Workers, p \in Paths :
           \/ task'[w][p] = task[w][p]
           \/ /\ task[w][p].pc = "journaled" /\ task'[w][p].pc = "published"
              /\ task'[w][p].op = task[w][p].op /\ task'[w][p].ident = task[w][p].ident
              /\ task[w][p].ident = r.ident,
         \A w \in Workers :
           \/ worker'[w] = worker[w]
           \/ /\ worker[w].pc = "recover" /\ worker'[w].pc = "recovering"
              /\ worker'[w].todo = worker[w].todo /\ worker'[w].job = worker[w].job
              /\ worker'[w].rec = r /\ r \in worker[w].todo
  PROVE  FilesInv'
<1>1. /\ temps' \subseteq temps
      /\ cache'[r.ident] # 0
      /\ \A i \in Idents : cache[i] # 0 => cache'[i] = cache[i]
      /\ \A o \in temps \ temps' : o = r.op
      /\ \A q \in journal : q.op \in temps' \/ cache'[q.ident] = q.op
  BY PublishedDerivatives, Zenon
<1>2. \A w \in Workers, p \in Paths : TaskInv(w, p)'
  BY SMTT(30), <1>1, TaskPart DEF TaskInv, Made, Unpublished
<1>3. OwnRendering'
  BY SMTT(30), RenderingPart DEF OwnRendering, Made
<1>4. \A q \in journal' : JournalInv(q)'
  <2>1. \A w \in Workers, p \in Paths :
          /\ task'[w][p].pc \in Made => task[w][p].pc \in Made
          /\ task'[w][p].pc \in Unpublished => task[w][p].pc \in Unpublished
          /\ task'[w][p].op = task[w][p].op /\ task'[w][p].ident = task[w][p].ident
          /\ worker'[w].job = worker[w].job
    BY Zenon DEF Made, Unpublished
  <2>2. \A q \in journal' : Publishable(q)'
    BY <1>1, Zenon DEF Publishable
  <2> QED
    BY <2>1, <2>2, JournalPart DEF JournalInv
<1>5. \A w \in Workers : TodoInv(w)'
  <2>1. \A w \in Workers : worker[w].pc = "recovering" =>
          cache[worker[w].rec.ident] # 0 /\ worker[w].rec.ident \in Idents
    BY SMTT(30), TodoPart DEF IInv, TypeOK, Processes, Records, TodoInv
  <2>2. \A w \in Workers : worker'[w].pc = "recovering" =>
          worker'[w].rec \in worker'[w].todo /\ cache'[worker'[w].rec.ident] # 0
    BY <1>1, <2>1, TodoPart DEF TodoInv
  <2>3. \A w \in Workers, p \in Paths :
          /\ task'[w][p].pc \in Unpublished => task[w][p].pc \in Unpublished
          /\ task'[w][p].op = task[w][p].op
    BY Zenon DEF Unpublished
  <2> QED
    BY SMTT(30), <2>2, <2>3, TodoPart DEF TodoInv
<1>6. ReadyInv'
  BY <1>1, ReadyPart DEF IInv, TypeOK, Assets, ReadyInv
<1> QED
  BY <1>2, <1>3, <1>4, <1>5, <1>6, Zenon DEF FilesInv

(* recover_journals lists the journals of jobs that nobody works on.       *)
LEMMA RecoverListKeeps ==
  ASSUME IInv, NEW w \in Workers, RecoverList(w)
  PROVE  IInv'
<1>1. /\ worker' \in [Workers -> Processes]
      /\ worker[w].pc = "tick" /\ worker'[w].pc = "recover" /\ worker'[w].todo \subseteq journal
      /\ worker'[w].job = worker[w].job
      /\ \A v \in Workers : v # w => worker'[v] = worker[v]
      /\ UNCHANGED <<library, job, asset, journal, space, disk, temps, cache, task, ops, requests>>
  BY ZenonT(60) DEF IInv, TypeOK, Processes, RecoverList, dbVars, fsVars
<1>2. TypeOK'
  BY <1>1, Zenon DEF IInv, TypeOK
<1>3. RowsStay /\ KeepsSpace
  BY <1>1, RowsUntouched, Zenon DEF KeepsSpace
<1>4. \A v \in Workers, p \in Paths : TaskInv(v, p)'
  BY <1>1, TaskPart, ZenonT(60) DEF TaskInv
<1>5. (\A v \in Workers : TodoInv(v)') /\ (\A r \in journal' : JournalInv(r)')
  BY <1>1, JournalPart, TodoPart DEF TodoInv, JournalInv, Publishable, Made, Unpublished
<1>6. OwnRendering' /\ ReadyInv'
  BY <1>1, RenderingPart, ReadyPart DEF OwnRendering, ReadyInv
<1> QED
  BY <1>2, <1>3, <1>4, <1>5, <1>6, RowsInvKept, Zenon DEF IInv, FilesInv

(* recover_journals, up to the renames.                                    *)
LEMMA RecoverOpenKeeps ==
  ASSUME IInv, NEW w \in Workers, NEW r \in worker[w].todo, RecoverOpen(w, r)
  PROVE  IInv'
<1>1. /\ r \in Records /\ r.op \in 1 .. ops /\ \A q \in journal : q.op = r.op => q = r
      /\ \A v \in Workers, p \in Paths : task[v][p].pc \in Unpublished => task[v][p].op # r.op
  BY TodoPart, Zenon DEF IInv, TypeOK, Processes, TodoInv
<1>2. /\ worker[w].pc = "recover"
      /\ UNCHANGED <<library, job, asset, space, disk, task, ops, requests>>
      /\ \/ /\ worker' = [worker EXCEPT ![w].todo = @ \ {r}] /\ UNCHANGED <<temps, cache>>
            /\ journal' = journal \/ journal' = journal \ {r}
         \/ /\ worker' = [worker EXCEPT ![w].pc = "recovering", ![w].rec = r]
            /\ PublishDerivatives(r) /\ journal' = journal
         \/ worker' = Released(w, "tick") /\ UNCHANGED <<temps, cache, journal>>
  BY Zenon DEF RecoverOpen, AbortJournal
<1>3. /\ worker' \in [Workers -> Processes] /\ journal' \subseteq journal
      /\ \A v \in Workers : v # w => worker'[v] = worker[v]
      /\ worker'[w].todo \subseteq worker[w].todo
      /\ \/ /\ worker'[w].pc = "recovering" /\ worker'[w].rec = r /\ worker'[w].job = worker[w].job
            /\ worker'[w].todo = worker[w].todo /\ PublishDerivatives(r) /\ journal' = journal
         \/ worker'[w].pc \in {"recover", "tick"} /\ UNCHANGED <<temps, cache>>
  <2>1. worker \in [Workers -> Processes] /\ worker[w] \in Processes
    BY Zenon DEF IInv, TypeOK
  <2>2. LET new == [worker[w] EXCEPT !.todo = @ \ {r}]
        IN new \in Processes /\ new.pc = worker[w].pc /\ new.todo \subseteq worker[w].todo
    BY <2>1, Zenon DEF Processes
  <2>3. LET new == [worker[w] EXCEPT !.pc = "recovering", !.rec = r]
        IN /\ new \in Processes /\ new.pc = "recovering" /\ new.rec = r
           /\ new.job = worker[w].job /\ new.todo = worker[w].todo
    BY <1>1, <2>1, Zenon DEF Processes
  <2>4. Released(w, "tick") \in [Workers -> Processes] /\ Released(w, "tick")[w].pc = "tick"
        /\ Released(w, "tick")[w].todo = {}
        /\ \A v \in Workers : v # w => Released(w, "tick")[v] = worker[v]
    BY <2>1, Zenon DEF Processes, Released
  <2>5. CASE worker' = [worker EXCEPT ![w].todo = @ \ {r}] /\ UNCHANGED <<temps, cache>>
             /\ (journal' = journal \/ journal' = journal \ {r})
    BY <1>2, <2>1, <2>2, <2>5, Zenon
  <2>6. CASE worker' = [worker EXCEPT ![w].pc = "recovering", ![w].rec = r]
             /\ PublishDerivatives(r) /\ journal' = journal
    BY <2>1, <2>3, <2>6, Zenon
  <2>7. CASE worker' = Released(w, "tick") /\ UNCHANGED <<temps, cache, journal>>
    BY <2>1, <2>4, <2>7, Zenon
  <2> QED
    BY <1>2, <2>5, <2>6, <2>7, Zenon
<1>4. temps' \subseteq temps /\ cache' \in [Idents -> Nat]
  BY <1>1, <1>3, PublishedDerivatives, Zenon DEF IInv, TypeOK
<1>5. TypeOK'
  BY <1>2, <1>3, <1>4, Zenon DEF IInv, TypeOK
<1>6. RowsStay /\ KeepsSpace
  BY <1>2, <1>3, RowsUntouched, Zenon DEF KeepsSpace
<1>7. worker'[w].pc # "recovering" => GivesUp
  <2>1. \A p \in Paths : task[w][p].pc = "none"
    BY <1>2, TaskPart, Zenon DEF TaskInv
  <2> QED
    BY <1>2, <1>3, <2>1, TaskPart, ReadyPart, ZenonT(60) DEF TaskInv, ReadyInv, GivesUp, Made
<1>8. worker'[w].pc = "recovering" => FilesInv'
  BY <1>1, <1>2, <1>3, PublicationKeepsFiles, Zenon
<1> QED
  BY <1>5, <1>6, <1>7, <1>8, GivingUpKeeps, RowsInvKept, Zenon DEF IInv

(* recover_journals, from the second look at the source: the publication   *)
(* is completed, or its journal is given up.                               *)
LEMMA RecoverFinishKeeps ==
  ASSUME IInv, NEW w \in Workers, RecoverFinish(w)
  PROVE  IInv'
<1> DEFINE r == worker[w].rec
<1>1. /\ worker[w].pc = "recovering" /\ r \in worker[w].todo /\ r \in Records
      /\ cache[r.ident] # 0 /\ \A q \in journal : q.op = r.op => q = r
      /\ \A v \in Workers, p \in Paths : task[v][p].pc \in Unpublished => task[v][p].op # r.op
  BY TodoPart, Zenon DEF IInv, TypeOK, Processes, TodoInv, RecoverFinish
<1> HIDE DEF r
<1>2. /\ UNCHANGED <<library, job, space, disk, cache, task, ops, requests>>
      /\ \/ worker' = Released(w, "tick")
         \/ worker' = [worker EXCEPT ![w].pc = "recover", ![w].rec = NONE, ![w].todo = @ \ {r}]
      /\ \/ /\ UNCHANGED <<asset, temps>>
            /\ journal' = journal \/ journal' = journal \ {r}
         \/ CompletePublish(r) /\ temps' = temps \ {r.op}
  BY Zenon DEF RecoverFinish, AbortJournal, r
<1>3. /\ worker' \in [Workers -> Processes]
      /\ \A v \in Workers : v # w => worker'[v] = worker[v]
      /\ worker'[w].todo \subseteq worker[w].todo
      /\ worker'[w].pc \in {"recover", "tick"}
  <2>1. worker \in [Workers -> Processes] /\ worker[w] \in Processes
    BY Zenon DEF IInv, TypeOK
  <2>2. LET new == [worker[w] EXCEPT !.pc = "recover", !.rec = NONE, !.todo = @ \ {r}]
        IN new \in Processes /\ new.pc = "recover" /\ new.todo \subseteq worker[w].todo
    BY <2>1, Zenon DEF Processes
  <2>3. CASE worker' = Released(w, "tick")
    BY <2>1, <2>3, Zenon DEF Processes, Released
  <2>4. CASE worker' = [worker EXCEPT ![w].pc = "recover", ![w].rec = NONE, ![w].todo = @ \ {r}]
    BY <2>1, <2>2, <2>4, Zenon
  <2> QED
    BY <1>2, <2>3, <2>4, Zenon
<1>4. /\ asset' \in [Paths -> Assets] /\ journal' \subseteq journal /\ temps' \subseteq temps
      /\ \A p \in Paths : asset'[p] = asset[p] \/ asset'[p].ident = r.ident
      /\ \A o \in temps \ temps' : o = r.op /\ r \notin journal'
  <2>1. LET new == [status |-> "ready", ident |-> r.ident, lib |-> r.lib, gen |-> r.job]
        IN new \in Assets /\ new.ident = r.ident
    BY <1>1, PhotoAssumption DEF Records, Assets, Jobs
  <2>2. r.path \in Paths /\ asset \in [Paths -> Assets]
    BY <1>1, Zenon DEF Records, IInv, TypeOK
  <2>3. \/ UNCHANGED <<asset, temps>> /\ journal' \subseteq journal
        \/ /\ asset' = [asset EXCEPT ![r.path] =
                          [status |-> "ready", ident |-> r.ident, lib |-> r.lib, gen |-> r.job]]
           /\ journal' = journal \ {r} /\ temps' = temps \ {r.op}
    BY <1>2, Zenon DEF CompletePublish
  <2> QED
    BY <2>1, <2>2, <2>3, Zenon
<1>5. TypeOK'
  BY <1>2, <1>3, <1>4, Zenon DEF IInv, TypeOK
<1>6. RowsStay /\ KeepsSpace
  BY <1>2, <1>3, RowsUntouched, Zenon DEF KeepsSpace
<1>7. GivesUp
  <2>1. \A p \in Paths : task[w][p].pc = "none"
    BY <1>1, TaskPart, Zenon DEF TaskInv
  <2>2. r.ident \in Idents
    BY <1>1, Zenon DEF Records
  <2> QED
    BY SMTT(30), <1>1, <1>2, <1>3, <1>4, <2>1, <2>2, TaskPart, ReadyPart
       DEF TaskInv, ReadyInv, GivesUp, Made
<1> QED
  BY <1>5, <1>6, <1>7, GivingUpKeeps, Zenon
=============================================================================
