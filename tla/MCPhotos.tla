------------------------------ MODULE MCPhotos ------------------------------
(*****************************************************************************)
(* The photo library for TLC: the daemon's jobs, the routes that change the  *)
(* library and take uploads, the pages a query returns, and the offline map. *)
(* A behaviour is about one of them: `part' says which, and the others stay  *)
(* as they began.                                                            *)
(*****************************************************************************)
EXTENDS PhotostaffInvariant, Integers, Sequences, FiniteSets, TLC

(* The processes are alike.                                                   *)
Alike == Permutations(Workers)

(* One of the two photos has a sidecar.                                       *)
Sidecar == [p \in {"a", "b"} |-> IF p = "a" THEN "a.xmp" ELSE NONE]

(* Two photos were taken at the same moment.                                  *)
Captured == [i \in 1 .. 3 |-> IF i = 3 THEN 1 ELSE 0]

(* Bounds that cross the antimeridian and that do not, and two circles.       *)
Locations ==
  {[west |-> 1, east |-> -2], [west |-> -2, east |-> 0],
   [at |-> -2, radius |-> 1], [at |-> 0, radius |-> 2]}

VARIABLE part     \* the component this behaviour is about

VARIABLES
  l_settings, l_version, l_files, l_assets, l_reservations, l_jobs, l_upload,
  l_proposal, l_export, l_trouble

VARIABLES
  q_asset, q_geo, q_walk, q_changes

VARIABLES
  m_archive, m_partial, m_settings, m_lastError, m_inspected, m_inspection,
  m_request, m_download, m_active, m_trouble

Library == INSTANCE PhotoLibrary WITH
  settings <- l_settings, version <- l_version, files <- l_files,
  assets <- l_assets, reservations <- l_reservations, jobs <- l_jobs,
  upload <- l_upload, proposal <- l_proposal, export <- l_export,
  trouble <- l_trouble, Uploads <- {1, 2}, Photos <- {"a", "b"},
  SidecarOf <- Sidecar, Contents <- {"x"}, Dirs <- {"d", "e"},
  MaxVersions <- 2, MaxTrouble <- 1

View == INSTANCE PhotoViews WITH
  asset <- q_asset, geo <- q_geo, walk <- q_walk, changes <- q_changes,
  archive <- m_archive, partial <- m_partial, settings <- m_settings,
  lastError <- m_lastError, inspected <- m_inspected,
  inspection <- m_inspection, request <- m_request, download <- m_download,
  active <- m_active, trouble <- m_trouble, Ids <- 1 .. 3,
  Captured <- Captured, Ratings <- {1}, Half <- 2, Longitudes <- {-2, 1},
  Locations <- Locations, MaxChanges <- 1, Reqs <- {1, 2}, MaxTrouble <- 2

jobsVars ==
  <<library, disk, job, entry, asset, journal, space, upload, temps, cache,
    worker, task, ops, requests, trouble>>

libraryVars ==
  <<l_settings, l_version, l_files, l_assets, l_reservations, l_jobs,
    l_upload, l_proposal, l_export, l_trouble>>

queriesVars ==
  <<q_asset, q_geo, q_walk, q_changes>>

mapVars ==
  <<m_archive, m_partial, m_settings, m_lastError, m_inspected, m_inspection,
    m_request, m_download, m_active, m_trouble>>

mcVars ==
  <<part, jobsVars, libraryVars, queriesVars, mapVars>>

MCInit ==
  /\ part \in {"jobs", "library", "queries", "map"}
  /\ Init
  /\ part # "jobs" => \A p \in Paths : disk[p] = 1
  /\ Library!Init
  /\ View!QueryInit
  /\ part # "queries" => \A i \in 1 .. 3 : ~q_asset[i].current
  /\ View!MapInit
  /\ part # "map" => m_archive = NONE /\ m_partial = NONE

OnlyJob ==
  /\ part = "jobs"
  /\ UNCHANGED <<part, libraryVars, queriesVars, mapVars>>

OnlyLibrary ==
  /\ part = "library"
  /\ UNCHANGED <<part, jobsVars, queriesVars, mapVars>>

OnlyQuery ==
  /\ part = "queries"
  /\ UNCHANGED <<part, jobsVars, libraryVars, mapVars>>

OnlyMap ==
  /\ part = "map"
  /\ UNCHANGED <<part, jobsVars, libraryVars, queriesVars>>

MCNext ==
  \/ OnlyJob /\ Next
  \/ OnlyLibrary /\ Library!Next
  \/ OnlyQuery /\ View!QueryNext
  \/ OnlyMap /\ View!MapNext

MCSpec == MCInit /\ [][MCNext]_mcVars

-----------------------------------------------------------------------------
\* See PhotoLibrary: equal content is published once, however uploads, deletions
\* and changes of the library interleave.
PhotoPublishedOnce == Library!PhotoPublishedOnce

\* Every component keeps the types of its variables, or the inductive invariant
\* its proofs rest on.
Typed ==
  /\ part = "jobs" => IInv
  /\ part = "library" => Library!TypeOK /\ Library!IInv
  /\ part = "queries" => View!QueryTypeOK
  /\ part = "map" => View!MapTypeOK

=============================================================================
