---------------------------- MODULE PhotoLibrary ----------------------------
(***************************************************************************)
(* The API's side of the photo library: choosing the library folder,       *)
(* asking for scans, uploading a photo or an XMP sidecar, proposing to     *)
(* move or trash photos, and exporting a selection as an archive.          *)
(*                                                                         *)
(* Every choice of the folder opens a new library version (its updatedAt), *)
(* to which assets, jobs, reservations and exports belong.  An upload      *)
(* reads the settings, streams into a hidden temporary file, reserves the  *)
(* content's hash and the path in one immediate transaction, and publishes *)
(* with link(2); other requests run between those awaits.                  *)
(*                                                                         *)
(* The worker that scans the folder is the subject of module Photostaff;   *)
(* here a scan reads the folder when it starts and writes the assets of    *)
(* its library version when it ends; a full scan also drops the others.    *)
(***************************************************************************)
EXTENDS Naturals, FiniteSets, TLAPS

CONSTANTS
  Uploads,     \* upload requests
  Photos,      \* names of photos
  SidecarOf,   \* the name of a photo's XMP sidecar, or NONE
  Contents,    \* what a file may hold (its SHA-256)
  Dirs,        \* folders that may be chosen as the library
  MaxVersions, \* how often the library is chosen
  MaxTrouble,  \* how many failures and restarts of the API happen
  NONE

VARIABLES
  settings,     \* the chosen folder and version, or NONE
  version,      \* the last updatedAt that was given out
  files,        \* files[d][n]: what the file n of folder d holds, or NONE
  assets,       \* ready rows of photostaff_assets
  reservations, \* rows of photostaff_upload_reservations
  jobs,         \* rows of photostaff_jobs
  upload,       \* upload[u]: where the request stands
  proposal,     \* the photo operation that waits for approval, or NONE
  export,       \* the export token that may still be fetched, or NONE
  trouble

vars == <<settings, version, files, assets, reservations, jobs, upload,
          proposal, export, trouble>>

Names == Photos \union ({SidecarOf[p] : p \in Photos} \ {NONE})
IsSidecar(n) == n \notin Photos
Idle == [pc |-> "idle", lib |-> NONE, name |-> NONE, content |-> NONE,
         reserved |-> FALSE]

TypeOK ==
  /\ settings # NONE => settings.dir \in Dirs /\ settings.at \in 1..MaxVersions
  /\ version \in 0..MaxVersions
  /\ files \in [Dirs -> [Names -> Contents \union {NONE}]]
  /\ \A u \in Uploads :
       upload[u].pc \in {"idle", "streaming", "linking", "published", "done",
                         "duplicate", "exists", "failed"}
  /\ trouble \in 0..MaxTrouble

Init ==
  /\ settings = NONE /\ version = 0
  /\ files = [d \in Dirs |-> [n \in Names |-> NONE]]
  /\ assets = {} /\ reservations = {} /\ jobs = {}
  /\ upload = [u \in Uploads |-> Idle]
  /\ proposal = NONE /\ export = NONE /\ trouble = 0

-----------------------------------------------------------------------------
(* The job table.                                                          *)

Job(kind, lib, status, saw) ==
  [kind |-> kind, lib |-> lib, status |-> status, saw |-> saw]

\* A job is not queued again while one of its kind waits or, unless the
\* caller insists on a fresh one, runs.
enqueuePhotostaffJob(rows, kind, lib, queueAfterRunning) ==
  IF \E j \in rows :
       /\ j.kind = kind /\ j.lib = lib
       /\ j.status = "queued" \/ (j.status = "running" /\ ~queueAfterRunning)
    THEN rows
    ELSE rows \union {Job(kind, lib, "queued", {})}

hasCompletedPhotostaffScan(lib) ==
  \E j \in jobs : j.kind = "full_scan" /\ j.lib = lib /\ j.status = "completed"

-----------------------------------------------------------------------------
(* Choosing the library and asking for a scan.                             *)

\* Choosing the folder that is already the library changes nothing; another
\* one drops all assets and reservations and fails the unfinished jobs.
savePhotostaffLibrarySettings(d) ==
  /\ version < MaxVersions
  /\ version' = version + 1
  /\ settings' = [dir |-> d, at |-> version + 1]
  /\ assets' = {} /\ reservations' = {}
  /\ jobs' = enqueuePhotostaffJob({}, "full_scan", settings', FALSE)

ChooseLibrary(d) ==
  /\ settings # NONE => settings.dir # d
  /\ savePhotostaffLibrarySettings(d)
  /\ UNCHANGED <<files, upload, proposal, export, trouble>>

\* Choosing the same folder again only asks for a scan, as POST /scans does.
StartScan ==
  /\ settings # NONE
  /\ jobs' = enqueuePhotostaffJob(jobs, "full_scan", settings, FALSE)
  /\ UNCHANGED <<settings, version, files, assets, reservations, upload,
                 proposal, export, trouble>>

-----------------------------------------------------------------------------
(* The worker, as the API sees it.                                         *)

Seen(d) == {[name |-> n, content |-> files[d][n]] :
              n \in {p \in Photos : files[d][p] # NONE}}

WorkerClaims(j) ==
  /\ j.status = "queued" /\ ~\E k \in jobs : k.status = "running"
  /\ jobs' = (jobs \ {j}) \union {Job(j.kind, j.lib, "running", Seen(j.lib.dir))}
  /\ UNCHANGED <<settings, version, files, assets, reservations, upload,
                 proposal, export, trouble>>

WorkerFinishes(j) ==
  /\ j.status = "running"
  /\ assets' = {a \in assets :
                  /\ a.lib = j.lib.at => j.kind = "path_refresh"
                  /\ a.lib = j.lib.at => \A s \in j.saw : s.name # a.name} \union
       {[lib |-> j.lib.at, name |-> s.name, content |-> s.content] : s \in j.saw}
  /\ jobs' = (jobs \ {j}) \union {Job(j.kind, j.lib, "completed", {})}
  /\ UNCHANGED <<settings, version, files, reservations, upload, proposal,
                 export, trouble>>

-----------------------------------------------------------------------------
(* PUT /api/photos/upload.                                                 *)

Goes(u, pc) == upload' = [upload EXCEPT ![u].pc = pc]

Release(u) == reservations' = {r \in reservations : r.by # u}

\* The checks before the stream: a library whose first scan has ended and a
\* target that does not exist.
UploadOpens(u, n, c) ==
  /\ upload[u].pc = "idle"
  /\ settings # NONE /\ hasCompletedPhotostaffScan(settings)
  /\ files[settings.dir][n] = NONE
  /\ upload' = [upload EXCEPT ![u] = [pc |-> "streaming", lib |-> settings,
                  name |-> n, content |-> c, reserved |-> FALSE]]
  /\ UNCHANGED <<settings, version, files, assets, reservations, jobs,
                 proposal, export, trouble>>

\* The rows that forbid a reservation: a ready asset or a reservation with the
\* same content, or a reservation of the same path, in the same version.
findPhotostaffAssetByHash(at, c) == {a \in assets : a.lib = at /\ a.content = c}
\* Mutant: only the path is unique among the reservations.
reservation_by_path(at, n, c) ==
  {r \in reservations : r.lib = at /\ r.name = n}
getPhotostaffUploadReservation(at, n, c) ==
  {r \in reservations : r.lib = at /\ (r.content = c \/ r.name = n)}

reservePhotostaffUpload(u) ==
  LET o == upload[u] IN
  /\ o.pc = "streaming" /\ ~IsSidecar(o.name)
  /\ \/ /\ settings.at # o.lib.at
        /\ Goes(u, "failed") /\ UNCHANGED reservations
     \/ /\ settings.at = o.lib.at
        /\ \/ findPhotostaffAssetByHash(o.lib.at, o.content) # {}
           \/ \E r \in getPhotostaffUploadReservation(o.lib.at, o.name, o.content) :
                r.content = o.content
        /\ Goes(u, "duplicate") /\ UNCHANGED reservations
     \/ /\ settings.at = o.lib.at
        /\ findPhotostaffAssetByHash(o.lib.at, o.content) = {}
        /\ getPhotostaffUploadReservation(o.lib.at, o.name, o.content) # {}
        /\ \A r \in getPhotostaffUploadReservation(o.lib.at, o.name, o.content) :
             r.content # o.content
        /\ Goes(u, "exists") /\ UNCHANGED reservations
     \/ /\ settings.at = o.lib.at
        /\ findPhotostaffAssetByHash(o.lib.at, o.content) = {}
        /\ getPhotostaffUploadReservation(o.lib.at, o.name, o.content) = {}
        /\ reservations' = reservations \union
             {[lib |-> o.lib.at, content |-> o.content, name |-> o.name, by |-> u]}
        /\ upload' = [upload EXCEPT ![u].pc = "linking", ![u].reserved = TRUE]
  /\ UNCHANGED <<settings, version, files, assets, jobs, proposal, export, trouble>>

SidecarStreamed(u) ==
  /\ upload[u].pc = "streaming" /\ IsSidecar(upload[u].name)
  /\ Goes(u, "linking")
  /\ UNCHANGED <<settings, version, files, assets, reservations, jobs,
                 proposal, export, trouble>>

\* link(2) publishes the temporary file unless the name has been taken.
UploadLinks(u) ==
  LET o == upload[u] IN
  /\ o.pc = "linking"
  /\ \/ /\ files[o.lib.dir][o.name] = NONE
        /\ files' = [files EXCEPT ![o.lib.dir][o.name] = o.content]
        /\ Goes(u, "published") /\ UNCHANGED reservations
     \/ /\ files[o.lib.dir][o.name] # NONE
        /\ Goes(u, "exists") /\ Release(u) /\ UNCHANGED files
  /\ UNCHANGED <<settings, version, assets, jobs, proposal, export, trouble>>

\* Mutant: the reservation is given back as soon as the photo is published.
UploadFinishes_releases(u) ==
  LET o == upload[u] IN
  /\ o.pc = "published"
  /\ jobs' = enqueuePhotostaffJob(jobs, "path_refresh", o.lib, IsSidecar(o.name))
  /\ Goes(u, "done") /\ Release(u)
  /\ UNCHANGED <<settings, version, files, assets, proposal, export, trouble>>

UploadFinishes(u) ==
  LET o == upload[u] IN
  /\ o.pc = "published"
  /\ jobs' = enqueuePhotostaffJob(jobs, "path_refresh", o.lib, IsSidecar(o.name))
  /\ Goes(u, "done")
  /\ UNCHANGED <<settings, version, files, assets, reservations, proposal,
                 export, trouble>>

\* The stream breaks off or link fails: the temporary file is removed and a
\* reservation that was not yet used is released.
UploadFails(u) ==
  /\ trouble < MaxTrouble /\ trouble' = trouble + 1
  /\ upload[u].pc \in {"streaming", "linking"}
  /\ Goes(u, "failed") /\ Release(u)
  /\ UNCHANGED <<settings, version, files, assets, jobs, proposal, export>>

ApiRestarts ==
  /\ trouble < MaxTrouble /\ trouble' = trouble + 1
  /\ upload' = [u \in Uploads |-> CASE upload[u].pc \in {"streaming", "linking"} ->
                                         [upload[u] EXCEPT !.pc = "failed"]
                                    [] upload[u].pc = "published" ->
                                         [upload[u] EXCEPT !.pc = "done"]
                                    [] OTHER -> upload[u]]
  /\ export' = NONE
  /\ UNCHANGED <<settings, version, files, assets, reservations, jobs, proposal>>

-----------------------------------------------------------------------------
(* Moving and trashing photos, and exports.                                *)

\* A photo that the current library version knows and whose file is there.
resolveCurrentAsset(p) ==
  /\ settings # NONE
  /\ \E a \in assets : a.lib = settings.at /\ a.name = p
  /\ files[settings.dir][p] # NONE

\* A photo and, when there is one, its XMP sidecar.
filesWithAssociatedSidecars(p) ==
  {n \in {p, SidecarOf[p]} \ {NONE} : files[settings.dir][n] # NONE}

\* POST /api/photos/proposals, for a trash and for a move to another folder.
ProposePhotos(p, target) ==
  /\ proposal = NONE /\ resolveCurrentAsset(p)
  /\ target # settings.dir
  /\ target # NONE => \A n \in filesWithAssociatedSidecars(p) : files[target][n] = NONE
  /\ proposal' = [dir |-> settings.dir, target |-> target,
                  names |-> filesWithAssociatedSidecars(p)]
  /\ UNCHANGED <<settings, version, files, assets, reservations, jobs, upload,
                 export, trouble>>

\* POST /api/approvals/:id/apply: the files that are still there and whose
\* targets are still free go; a change inside the library asks for a scan.
ApplyPhotos ==
  /\ proposal # NONE
  /\ LET gone == {n \in proposal.names :
                    /\ files[proposal.dir][n] # NONE
                    /\ proposal.target # NONE => files[proposal.target][n] = NONE} IN
     /\ files' = [d \in Dirs |-> [n \in Names |->
          CASE n \in gone /\ d = proposal.dir -> NONE
            [] n \in gone /\ d = proposal.target -> files[proposal.dir][n]
            [] OTHER -> files[d][n]]]
     /\ jobs' = IF gone # {} /\ settings.dir \in {proposal.dir, proposal.target}
                  THEN enqueuePhotostaffJob(jobs, "full_scan", settings, FALSE)
                  ELSE jobs
  /\ proposal' = NONE
  /\ UNCHANGED <<settings, version, assets, reservations, upload, export, trouble>>

\* POST /api/photos/exports: a token for a selection of this version.
CreateExport(p) ==
  /\ resolveCurrentAsset(p)
  /\ export' = [lib |-> settings.at, names |-> {p}]
  /\ UNCHANGED <<settings, version, files, assets, reservations, jobs, upload,
                 proposal, trouble>>

\* GET /api/photos/exports/:token: served once, and only from the version it
\* was made for; pruneExports forgets it after five minutes.
GetExport ==
  /\ export # NONE
  /\ export' = NONE
  /\ UNCHANGED <<settings, version, files, assets, reservations, jobs, upload,
                 proposal, trouble>>

-----------------------------------------------------------------------------
Next ==
  \/ \E d \in Dirs : ChooseLibrary(d)
  \/ StartScan
  \/ \E j \in jobs : WorkerClaims(j) \/ WorkerFinishes(j)
  \/ \E u \in Uploads :
       \/ \E n \in Names, c \in Contents : UploadOpens(u, n, c)
       \/ reservePhotostaffUpload(u)
       \/ SidecarStreamed(u)
       \/ UploadLinks(u)
       \/ UploadFinishes(u)
       \/ UploadFails(u)
  \/ ApiRestarts
  \/ \E p \in Photos, t \in Dirs \union {NONE} : ProposePhotos(p, t)
  \/ ApplyPhotos
  \/ \E p \in Photos : CreateExport(p)
  \/ GetExport

Spec == Init /\ [][Next]_vars

-----------------------------------------------------------------------------
(* What must hold.                                                         *)

\* Two uploads never both publish the same photo into one library version,
\* whatever happens between the hash check and the link: the reservation made
\* in routes/photos.ts stands until the library changes.
PhotoPublishedOnce ==
  \A u, v \in Uploads :
    (/\ u # v
     /\ upload[u].pc \in {"published", "done"}
     /\ upload[v].pc \in {"published", "done"}
     /\ upload[u].lib = upload[v].lib
     /\ ~IsSidecar(upload[u].name) /\ ~IsSidecar(upload[v].name))
    => upload[u].content # upload[v].content

\* The API documentation says an upload is refused as a duplicate when the
\* content is in the current library: then the content is in some file of the
\* library or in another upload that is about to publish it.
\* The code does not keep this in every case: README.md says when.
RefusedOnlyIfPresent ==
  [][\A u \in Uploads :
       (upload'[u].pc = "duplicate" /\ upload[u].pc # "duplicate") =>
         \/ \E n \in Names : files[settings.dir][n] = upload[u].content
         \/ \E v \in Uploads \ {u} :
              upload[v].pc = "linking" /\ upload[v].content = upload[u].content]_vars

-----------------------------------------------------------------------------
(* Proofs.                                                                 *)

Libraries == [dir : Dirs, at : Nat]

\* The values of the variables an upload depends on.
UploadTypes ==
  /\ settings \in Libraries \union {NONE}
  /\ version \in Nat
  /\ upload \in [Uploads -> [
       pc : {"idle", "streaming", "linking", "published", "done", "duplicate",
             "exists", "failed"},
       lib : Libraries \union {NONE}, name : Names \union {NONE},
       content : Contents \union {NONE}, reserved : BOOLEAN]]
  /\ reservations \subseteq [lib : Nat, content : Contents \union {NONE},
                             name : Names \union {NONE}, by : Uploads]

\* A photo that holds its content in its library version, up to the failure of
\* its link and for good once it is published.
Claimed(u) ==
  upload[u].pc \in {"linking", "published", "done"} /\ ~IsSidecar(upload[u].name)

\* The last version given out is the current library's, and an upload belongs
\* to that library or to an earlier version.
VersionInv ==
  /\ version = 0 => settings = NONE
  /\ version > 0 => settings \in Libraries /\ settings.at = version
  /\ \A u \in Uploads : upload[u].pc # "idle" =>
       /\ version > 0 /\ upload[u].lib \in Libraries
       /\ upload[u].lib.at <= version
       /\ upload[u].lib.at = version => upload[u].lib = settings

\* A claim in the current library has its reservation. Those of earlier versions
\* are gone, so their claims must exclude each other by themselves.
ClaimInv ==
  /\ \A u \in Uploads : Claimed(u) /\ upload[u].lib = settings =>
       \E r \in reservations :
         r.lib = settings.at /\ r.content = upload[u].content /\ r.by = u
  /\ \A u, v \in Uploads :
       u # v /\ Claimed(u) /\ Claimed(v) /\ upload[u].lib = upload[v].lib
         => upload[u].content # upload[v].content

IInv == UploadTypes /\ VersionInv /\ ClaimInv

\* Every step of the API, of the scanning worker and a restart keeps IInv.
LEMMA IInvStep ==
  ASSUME IInv, [Next]_vars
  PROVE  IInv'
<1> USE DEF IInv
<1>1. ASSUME NEW d \in Dirs, ChooseLibrary(d)  PROVE IInv'
  <2>1. UploadTypes' /\ VersionInv'
    BY <1>1 DEF UploadTypes, VersionInv, Libraries, ChooseLibrary, savePhotostaffLibrarySettings
  <2>2. \A u \in Uploads : Claimed(u)' => upload'[u].lib # settings'
    BY <1>1 DEF UploadTypes, VersionInv, Libraries, Claimed, ChooseLibrary, savePhotostaffLibrarySettings
  <2> QED
    BY <1>1, <2>1, <2>2 DEF ClaimInv, Claimed, ChooseLibrary
<1>2. CASE UNCHANGED <<settings, version, reservations, upload>>
  BY <1>2 DEF UploadTypes, VersionInv, ClaimInv, Claimed
<1>3. ASSUME NEW u \in Uploads, NEW n \in Names, NEW c \in Contents, UploadOpens(u, n, c)
      PROVE  IInv'
  BY <1>3 DEF UploadOpens, UploadTypes, VersionInv, ClaimInv, Claimed, IsSidecar
<1>4. ASSUME NEW u \in Uploads, reservePhotostaffUpload(u)  PROVE IInv'
  <2> DEFINE o == upload[u]
             row == [lib |-> o.lib.at, content |-> o.content, name |-> o.name, by |-> u]
  <2>1. CASE reservations' = reservations /\ \E pc \in {"failed", "duplicate", "exists"} : Goes(u, pc)
    BY <1>4, <2>1 DEF reservePhotostaffUpload, Goes, UploadTypes, VersionInv, ClaimInv, Claimed
  <2>2. CASE /\ settings.at = o.lib.at
             /\ getPhotostaffUploadReservation(o.lib.at, o.name, o.content) = {}
             /\ reservations' = reservations \union {row}
             /\ upload' = [upload EXCEPT ![u].pc = "linking", ![u].reserved = TRUE]
    <3>1. UNCHANGED <<settings, version>> /\ o.pc = "streaming"
      BY <1>4 DEF reservePhotostaffUpload
    <3>2. o.lib \in Libraries /\ o.lib = settings
      BY <2>2, <3>1 DEF VersionInv
    <3>3. UploadTypes'
      <4>1. upload' \in [Uploads -> [
              pc : {"idle", "streaming", "linking", "published", "done", "duplicate",
                    "exists", "failed"},
              lib : Libraries \union {NONE}, name : Names \union {NONE},
              content : Contents \union {NONE}, reserved : BOOLEAN]]
        BY ZenonT(60), <2>2 DEF UploadTypes
      <4>2. row \in [lib : Nat, content : Contents \union {NONE},
                    name : Names \union {NONE}, by : Uploads]
        BY <3>2 DEF UploadTypes, Libraries
      <4> QED
        BY <2>2, <3>1, <4>1, <4>2 DEF UploadTypes
    <3>4. ASSUME NEW v \in Uploads, v # u, Claimed(v), upload[v].lib = o.lib
          PROVE  upload[v].content # o.content
      BY <2>2, <3>2, <3>4 DEF ClaimInv, getPhotostaffUploadReservation
    <3>5. \A v \in Uploads : /\ v # u => upload'[v] = upload[v]
                             /\ upload'[v].lib = upload[v].lib
                             /\ upload'[v].content = upload[v].content
      BY <2>2 DEF UploadTypes
    <3>6. VersionInv'
      BY <3>1, <3>5 DEF VersionInv
    <3>7. ASSUME NEW v \in Uploads, Claimed(v)', upload'[v].lib = settings'
          PROVE  \E q \in reservations' :
                   q.lib = settings'.at /\ q.content = upload'[v].content /\ q.by = v
      <4>1. CASE v = u
        <5>1. row.lib = settings'.at /\ row.content = upload'[v].content /\ row.by = v
          BY <3>1, <3>2, <3>5, <4>1
        <5> QED
          BY Zenon, <2>2, <5>1
      <4>2. CASE v # u
        <5>1. Claimed(v) /\ upload[v].lib = settings
          BY <3>1, <3>5, <3>7, <4>2 DEF Claimed
        <5>2. PICK q \in reservations :
                q.lib = settings.at /\ q.content = upload[v].content /\ q.by = v
          BY <5>1 DEF ClaimInv
        <5>3. q \in reservations'
          BY <2>2
        <5> QED
          BY <3>1, <3>5, <5>2, <5>3
      <4> QED
        BY <4>1, <4>2
    <3>8. ASSUME NEW v \in Uploads, NEW w \in Uploads, v # w, Claimed(v)', Claimed(w)',
                 upload'[v].lib = upload'[w].lib
          PROVE  upload'[v].content # upload'[w].content
      BY <3>4, <3>5, <3>8 DEF ClaimInv, Claimed
    <3> QED
      BY <3>3, <3>6, <3>7, <3>8 DEF ClaimInv
  <2> QED
    BY <1>4, <2>1, <2>2 DEF reservePhotostaffUpload
<1>5. ASSUME NEW u \in Uploads, SidecarStreamed(u)  PROVE IInv'
  BY <1>5 DEF SidecarStreamed, Goes, UploadTypes, VersionInv, ClaimInv, Claimed
<1>6. ASSUME NEW u \in Uploads, UNCHANGED <<settings, version>>,
             upload[u].pc # "idle", Release(u), Goes(u, "exists") \/ Goes(u, "failed")
      PROVE  IInv'
  <2>1. UploadTypes' /\ VersionInv'
    BY <1>6 DEF Release, Goes, UploadTypes, VersionInv
  <2>2. \A v \in Uploads : Claimed(v)' => Claimed(v) /\ v # u /\ upload'[v] = upload[v]
    BY <1>6 DEF Goes, UploadTypes, Claimed
  <2> QED
    BY <1>6, <2>1, <2>2 DEF ClaimInv, Release
<1>7. ASSUME NEW u \in Uploads, UNCHANGED <<settings, version, reservations>>,
             \/ upload[u].pc = "linking" /\ Goes(u, "published")
             \/ upload[u].pc = "published" /\ Goes(u, "done")
      PROVE  IInv'
  <2>1. UploadTypes' /\ VersionInv'
    BY <1>7 DEF Goes, UploadTypes, VersionInv
  <2>2. \A v \in Uploads :
          /\ Claimed(v)' => Claimed(v)
          /\ upload'[v].lib = upload[v].lib /\ upload'[v].content = upload[v].content
    BY <1>7 DEF Goes, UploadTypes, Claimed
  <2> QED
    BY <1>7, <2>1, <2>2 DEF ClaimInv
<1>8. ASSUME NEW u \in Uploads, UploadLinks(u) \/ UploadFinishes(u) \/ UploadFails(u)
      PROVE  IInv'
  BY <1>6, <1>7, <1>8 DEF UploadLinks, UploadFinishes, UploadFails
<1>9. CASE ApiRestarts
  <2>1. \A u \in Uploads :
          /\ upload'[u].lib = upload[u].lib /\ upload'[u].content = upload[u].content
          /\ upload'[u].name = upload[u].name /\ (Claimed(u)' => Claimed(u))
          /\ upload'[u].pc # "idle" <=> upload[u].pc # "idle"
    BY <1>9 DEF ApiRestarts, UploadTypes, Claimed
  <2>2. UploadTypes'
    BY <1>9 DEF ApiRestarts, UploadTypes
  <2> QED
    BY <1>9, <2>1, <2>2 DEF ApiRestarts, VersionInv, ClaimInv
<1> QED
  BY Zenon, <1>1, <1>2, <1>3, <1>4, <1>5, <1>8, <1>9
  DEF Next, vars, StartScan, WorkerClaims, WorkerFinishes, ProposePhotos, ApplyPhotos,
      CreateExport, GetExport

\* For any uploads, photos, folders and failures: two uploads never both publish
\* the same photo into one library version (reservePhotostaffUpload, link(2)).
THEOREM PhotoPublishedOnceHolds == Spec => []PhotoPublishedOnce
<1>1. Init => IInv
  BY DEF Init, Idle, IInv, UploadTypes, VersionInv, ClaimInv, Claimed, Libraries
<1>2. IInv /\ [Next]_vars => IInv'
  BY IInvStep
<1>3. IInv => PhotoPublishedOnce
  BY DEF IInv, ClaimInv, Claimed, PhotoPublishedOnce
<1> QED
  BY <1>1, <1>2, <1>3, PTL DEF Spec
=============================================================================
