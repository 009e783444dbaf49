----------------------------- MODULE PhotoViews -----------------------------
(***************************************************************************)
(* What the photo library shows: the pages of a query and the offline map. *)
(***************************************************************************)
EXTENDS Integers, FiniteSets

-----------------------------------------------------------------------------
(***************************************************************************)
(* Paging through the photo library (POST /api/photos/query and the        *)
(* timeline GET /api/photos).  Each page is one SQL query over the assets  *)
(* of the library version, their metadata and the geographic index; the    *)
(* answer carries a cursor made of the last row's sort value and id, bound *)
(* to the filters and the sort by a fingerprint.  Between two pages the    *)
(* worker adds, removes and re-indexes photos.                             *)
(*                                                                         *)
(* A photo has a rating (or none), a longitude (or none) on the equator, a *)
(* capture time fixed by its id, and metadata of the current schema or of  *)
(* an older one.  Longitudes are the integers -Half .. Half-1 of a circle  *)
(* of 2*Half steps; the distance of the haversine formula is the distance  *)
(* on that circle.                                                         *)
(***************************************************************************)
CONSTANTS
  Ids,         \* photos; they are compared as the ids of the rows are
  Captured,    \* Captured[i]: when photo i was taken
  Ratings,     \* ratings that occur
  Half,        \* half of the circle of longitudes
  Longitudes,  \* longitudes that occur
  Locations,   \* location filters: [west, east] or [at, radius], or NONE
  MaxChanges,  \* how often the library changes
  NONE

VARIABLES
  asset,   \* asset[i]: the row of the photo with its metadata, or NONE
  geo,     \* geo[i]: the longitude under which the index has it, or NONE
  walk,    \* a client's walk through the pages of one query
  changes

queryVars == <<asset, geo, walk, changes>>

Fields == {"captured_at", "rating", "distance"}
Rows == [rating : Ratings \union {NONE}, lon : Longitudes \union {NONE},
         current : BOOLEAN]

\* A query: where, the sort, and whether it asks for rated photos only.
Queries == {q \in [location : Locations \union {NONE}, rated : BOOLEAN,
                   field : Fields, asc : BOOLEAN] :
              q.field = "distance" => q.location # NONE /\ "at" \in DOMAIN q.location}

Start == [q |-> NONE, cursor |-> NONE, state |-> "new",
          seen |-> [i \in Ids |-> 0], steady |-> {}]

QueryTypeOK ==
  /\ asset \in [Ids -> Rows \union {NONE}]
  /\ geo \in [Ids -> Longitudes \union {NONE}]
  /\ walk.state \in {"new", "walking", "done"}
  /\ changes \in 0..MaxChanges

QueryInit ==
  /\ asset \in [Ids -> {r \in Rows : r.current \/ r = [rating |-> NONE, lon |-> NONE, current |-> FALSE]}]
  /\ geo = [i \in Ids |-> asset[i].lon]
  /\ walk = Start /\ changes = 0

-----------------------------------------------------------------------------
(* Places on the circle.                                                   *)

normalizeLongitude(v) == ((v + Half) % (2 * Half)) - Half

\* From -Half to +Half when the radius covers the circle.
nearBounds(at, radius) ==
  IF radius >= Half
    THEN [west |-> -Half, east |-> Half]
    ELSE [west |-> normalizeLongitude(at - radius),
          east |-> normalizeLongitude(at + radius)]

\* Both the index and the columns must lie within the bounds, which wrap
\* around the antimeridian when west is greater than east.
InBounds(lon, b) ==
  IF b.west <= b.east THEN b.west <= lon /\ lon <= b.east
                      ELSE lon >= b.west \/ lon <= b.east

\* Mutant: the bounds are never taken to wrap around.
bounds_never_wrap(i, b) ==
  /\ geo[i] # NONE /\ asset[i].lon # NONE
  /\ b.west <= geo[i] /\ geo[i] <= b.east

addBoundsFilter(i, b) ==
  /\ geo[i] # NONE /\ asset[i].lon # NONE
  /\ InBounds(geo[i], b) /\ InBounds(asset[i].lon, b)

Distance(a, b) ==
  LET d == (a - b) % (2 * Half) IN IF d <= Half THEN d ELSE 2 * Half - d

-----------------------------------------------------------------------------
(* The query.                                                              *)

requiresMetadata(q) == q.rated \/ q.location # NONE

\* The rows of the WITH clause and its conditions.
buildQuery(q) ==
  {i \in Ids :
     /\ asset[i] # NONE
     /\ requiresMetadata(q) => asset[i].current
     /\ q.rated => asset[i].rating # NONE
     /\ q.location # NONE =>
          IF "at" \in DOMAIN q.location
            THEN /\ addBoundsFilter(i, nearBounds(q.location.at, q.location.radius))
                 /\ Distance(asset[i].lon, q.location.at) <= q.location.radius
            ELSE addBoundsFilter(i, q.location)}

\* The sort value of a row, which the cursor repeats (photoSortValue).
photoSortValue(i, q) ==
  CASE q.field = "captured_at" -> Captured[i]
    [] q.field = "rating" -> asset[i].rating
    [] q.field = "distance" -> Distance(asset[i].lon, q.location.at)

Beyond(a, b, asc) == IF asc THEN a > b ELSE a < b

\* ORDER BY (sort_value IS NULL) ASC, sort_value, id.
Before(i, j, q) ==
  LET a == photoSortValue(i, q)
      b == photoSortValue(j, q)
  IN CASE a = NONE /\ b = NONE -> Beyond(j, i, q.asc)
       [] a # NONE /\ b = NONE -> TRUE
       [] a = NONE /\ b # NONE -> FALSE
       [] OTHER -> Beyond(b, a, q.asc) \/ (a = b /\ Beyond(j, i, q.asc))

\* Mutant: rows without a sort value are not beyond a cursor that has one.
cursor_skips_null(i, q, cursor) ==
  LET a == photoSortValue(i, q) IN
  cursor = NONE \/
  IF cursor.value = NONE THEN a = NONE /\ Beyond(i, cursor.id, q.asc)
  ELSE a # NONE /\ (Beyond(a, cursor.value, q.asc)
                    \/ (a = cursor.value /\ Beyond(i, cursor.id, q.asc)))

buildCursorSql(i, q, cursor) ==
  LET a == photoSortValue(i, q) IN
  CASE cursor = NONE -> TRUE
    [] cursor # NONE /\ cursor.value = NONE -> a = NONE /\ Beyond(i, cursor.id, q.asc)
    [] OTHER -> \/ a = NONE
                \/ Beyond(a, cursor.value, q.asc)
                \/ a = cursor.value /\ Beyond(i, cursor.id, q.asc)

\* The first rows after the cursor, and whether there are more.
queryPhotostaffAssets(q, cursor, limit) ==
  LET rows == {i \in buildQuery(q) : buildCursorSql(i, q, cursor)}
      page == {i \in rows : Cardinality({j \in rows : Before(j, i, q)}) < limit}
  IN [page |-> page, hasMore |-> Cardinality(rows) > limit]

-----------------------------------------------------------------------------
(* The client and the worker.                                              *)

\* A first page, or the next one with the cursor of the page before; a cursor
\* of another query is refused (the fingerprint covers filters and sort).
Answer(q, limit) ==
  LET r == queryPhotostaffAssets(q, walk.cursor, limit)
      last == CHOOSE i \in r.page : \A j \in r.page : j = i \/ Before(j, i, q)
  IN walk' = [walk EXCEPT
       !.q = q,
       !.steady = IF walk.state = "new" THEN Ids ELSE @,
       !.seen = [i \in Ids |-> @[i] + (IF i \in r.page THEN 1 ELSE 0)],
       !.state = IF r.hasMore THEN "walking" ELSE "done",
       !.cursor = IF r.hasMore THEN [value |-> photoSortValue(last, q), id |-> last]
                               ELSE NONE]

FirstPage(q, limit) ==
  /\ walk.state = "new"
  /\ Answer(q, limit)
  /\ UNCHANGED <<asset, geo, changes>>

NextPage(q, limit) ==
  /\ walk.state = "walking" /\ q = walk.q
  /\ Answer(q, limit)
  /\ UNCHANGED <<asset, geo, changes>>

Changes(i) ==
  /\ changes < MaxChanges /\ changes' = changes + 1
  /\ walk.state # "done"
  /\ walk' = [walk EXCEPT !.steady = @ \ {i}]

\* Mutant: the photo's entry in the geographic index is left as it was.
complete_publish_keeps_geo(i, r) ==
  /\ Changes(i) /\ r.current
  /\ asset' = [asset EXCEPT ![i] = r] /\ UNCHANGED geo

\* The worker publishes a photo: its row, its metadata and its entry in the
\* index change in one transaction.
complete_publish_transaction(i, r) ==
  /\ Changes(i) /\ r.current
  /\ asset' = [asset EXCEPT ![i] = r]
  /\ geo' = [geo EXCEPT ![i] = r.lon]

\* A full scan removes the row; the trigger removes its index entry.
RemoveAsset(i) ==
  /\ Changes(i) /\ asset[i] # NONE
  /\ asset' = [asset EXCEPT ![i] = NONE]
  /\ geo' = [geo EXCEPT ![i] = NONE]

QueryNext ==
  \/ \E q \in Queries, limit \in 1..2 : FirstPage(q, limit) \/ NextPage(q, limit)
  \/ \E i \in Ids :
       (\E r \in Rows : complete_publish_transaction(i, r)) \/ RemoveAsset(i)

QuerySpec == QueryInit /\ [][QueryNext]_queryVars

-----------------------------------------------------------------------------
(* What must hold.                                                         *)

\* Whether a photo lies on the arc from west eastwards to east, or within the
\* radius of the place, whatever the numbers of the longitudes.
OnArc(lon, l) ==
  IF "at" \in DOMAIN l
    THEN \E d \in -l.radius..l.radius : normalizeLongitude(l.at + d) = lon
    ELSE \E d \in 0..(2 * Half - 1) :
           /\ normalizeLongitude(l.west + d) = lon
           /\ d <= (l.east - l.west) % (2 * Half)

Wanted(i, q) ==
  /\ asset[i] # NONE
  /\ (q.rated \/ q.location # NONE) => asset[i].current
  /\ q.rated => asset[i].rating # NONE
  /\ q.location # NONE => asset[i].lon # NONE
  /\ (q.location # NONE /\ asset[i].lon # NONE) => OnArc(asset[i].lon, q.location)

\* A client that follows the cursors of POST /api/photos/query to the end gets
\* every photo that did not change meanwhile exactly once if it answers the
\* query and never otherwise, whatever else was added, removed or re-indexed
\* between the pages ("a page in a stable order", api.md).
PagesAreExact ==
  walk.state = "done" =>
    \A i \in walk.steady : walk.seen[i] = IF Wanted(i, walk.q) THEN 1 ELSE 0

-----------------------------------------------------------------------------
(***************************************************************************)
(* The offline base map of the photo library: one archive of known size    *)
(* and SHA-256, inspected on the first question after the API starts,      *)
(* downloaded on request into a hidden partial file, verified and renamed. *)
(* The manager's fields live in the API process; requests interleave with  *)
(* the inspection and with the download at every await.                    *)
(***************************************************************************)
CONSTANTS
  Reqs,         \* requests to POST /api/photos/map/download
  MaxTrouble    \* how many failed downloads and restarts happen

VARIABLES
  archive,    \* the published file: NONE, "whole" or "broken"
  partial,    \* what a download left or is writing
  settings,   \* the manager has settings, i.e. a verified archive
  lastError,  \* the manager has an error to show
  inspected,  \* the archive was looked at since the API started
  inspection, \* an inspection runs
  request,    \* request[r]: "idle", or "waiting" for the status
  download,   \* download[r]: the step of the download r started, or NONE
  active,     \* the request whose download is this.active, or NONE
  trouble

mapVars == <<archive, partial, settings, lastError, inspected, inspection,
          request, download, active, trouble>>

MapTypeOK ==
  /\ archive \in {NONE, "whole", "broken"}
  /\ partial \in {NONE, "part", "whole", "broken"}
  /\ settings \in BOOLEAN /\ lastError \in BOOLEAN
  /\ inspected \in BOOLEAN /\ inspection \in BOOLEAN
  /\ request \in [Reqs -> {"idle", "waiting"}]
  /\ download \in [Reqs -> {NONE, "clean", "fetch", "verify", "rename", "settle"}]
  /\ active \in Reqs \union {NONE}
  /\ trouble \in 0..MaxTrouble

MapInit ==
  /\ archive \in {NONE, "whole", "broken"}
  /\ partial \in {NONE, "part"}
  /\ settings = FALSE /\ lastError = FALSE
  /\ inspected = FALSE /\ inspection = FALSE
  /\ request = [r \in Reqs |-> "idle"]
  /\ download = [r \in Reqs |-> NONE]
  /\ active = NONE /\ trouble = 0

snapshot == CASE active # NONE -> "downloading"
              [] active = NONE /\ settings -> "ready"
              [] active = NONE /\ ~settings /\ lastError -> "failed"
              [] OTHER -> "not_downloaded"

-----------------------------------------------------------------------------
(* Status and inspection.                                                  *)

\* The first question after a start inspects the archive; later ones share
\* the inspection that runs.
getStatus ==
  /\ ~inspected /\ active = NONE /\ ~inspection
  /\ inspection' = TRUE
  /\ UNCHANGED <<archive, partial, settings, lastError, inspected, request,
                 download, active, trouble>>

\* Size, SHA-256 and header decide; a missing archive is no error.
inspectExistingArchive ==
  /\ inspection
  /\ settings' = (archive = "whole")
  /\ lastError' = (archive = "broken")
  /\ inspected' = TRUE /\ inspection' = FALSE
  /\ UNCHANGED <<archive, partial, request, download, active, trouble>>

-----------------------------------------------------------------------------
(* The download.                                                           *)

AskDownload(r) ==
  /\ request[r] = "idle"
  /\ request' = [request EXCEPT ![r] = "waiting"]
  /\ inspection' = (inspection \/ (~inspected /\ active = NONE))
  /\ UNCHANGED <<archive, partial, settings, lastError, inspected, download,
                 active, trouble>>

\* Mutant: whether a download runs is not asked again after the wait.
start_unchecked(r) ==
  /\ request[r] = "waiting" /\ (inspected \/ active # NONE) /\ ~inspection
  /\ request' = [request EXCEPT ![r] = "idle"]
  /\ IF (settings /\ active = NONE) \/ download[r] # NONE
       THEN UNCHANGED <<settings, lastError, download, active>>
       ELSE /\ settings' = FALSE /\ lastError' = FALSE
            /\ download' = [download EXCEPT ![r] = "clean"]
            /\ active' = r
  /\ UNCHANGED <<archive, partial, inspected, inspection, trouble>>

startDownload(r) ==
  /\ request[r] = "waiting" /\ (inspected \/ active # NONE) /\ ~inspection
  /\ request' = [request EXCEPT ![r] = "idle"]
  /\ IF settings \/ active # NONE
       THEN UNCHANGED <<settings, lastError, download, active>>
       ELSE /\ settings' = FALSE /\ lastError' = FALSE
            /\ download' = [download EXCEPT ![r] = "clean"]
            /\ active' = r
  /\ UNCHANGED <<archive, partial, inspected, inspection, trouble>>

\* Both files go before anything is fetched; too little space is a failure.
DownloadCleans(r) ==
  /\ download[r] = "clean"
  /\ partial' = NONE /\ archive' = NONE
  /\ download' = [download EXCEPT ![r] = "fetch"]
  /\ UNCHANGED <<settings, lastError, inspected, inspection, request, active,
                 trouble>>

\* The body is streamed into the new partial file and may be the wrong one.
DownloadStreams(r) ==
  /\ download[r] = "fetch" /\ partial = NONE
  /\ partial' \in {"whole", "broken"}
  /\ download' = [download EXCEPT ![r] = "verify"]
  /\ UNCHANGED <<archive, settings, lastError, inspected, inspection, request,
                 active, trouble>>


DownloadVerifies(r) ==
  /\ download[r] = "verify" /\ partial = "whole"
  /\ download' = [download EXCEPT ![r] = "rename"]
  /\ UNCHANGED <<archive, partial, settings, lastError, inspected, inspection,
                 request, active, trouble>>

DownloadRenames(r) ==
  /\ download[r] = "rename" /\ partial # NONE
  /\ archive' = partial /\ partial' = NONE
  /\ download' = [download EXCEPT ![r] = "settle"]
  /\ UNCHANGED <<settings, lastError, inspected, inspection, request, active,
                 trouble>>

DownloadSettles(r) ==
  /\ download[r] = "settle" /\ archive # NONE
  /\ settings' = TRUE /\ lastError' = FALSE
  /\ download' = [download EXCEPT ![r] = NONE] /\ active' = NONE
  /\ UNCHANGED <<archive, partial, inspected, inspection, request, trouble>>

\* Too little space, a refused or broken stream, a timeout, a wrong size or
\* checksum, a vanished file: the partial file is removed and the error kept.
DownloadFails(r) ==
  /\ download[r] \in {"fetch", "verify", "rename", "settle"}
  /\ \/ download[r] = "verify" /\ partial # "whole" /\ UNCHANGED trouble
     \/ trouble < MaxTrouble /\ trouble' = trouble + 1
  /\ partial' = NONE
  /\ settings' = FALSE /\ lastError' = TRUE
  /\ download' = [download EXCEPT ![r] = NONE] /\ active' = NONE
  /\ UNCHANGED <<archive, inspected, inspection, request>>

\* The API is restarted; close() aborts the download, a crash leaves its
\* partial file, of which any part may have been written.
ApiRestarts ==
  /\ trouble < MaxTrouble /\ trouble' = trouble + 1
  /\ \/ partial' = NONE /\ UNCHANGED archive
     \/ UNCHANGED <<partial, archive>>
     \/ /\ \E r \in Reqs : download[r] = "fetch" /\ partial = NONE
        /\ partial' = "part" /\ UNCHANGED archive
  /\ settings' = FALSE /\ lastError' = FALSE
  /\ inspected' = FALSE /\ inspection' = FALSE
  /\ request' = [r \in Reqs |-> "idle"]
  /\ download' = [r \in Reqs |-> NONE] /\ active' = NONE

MapNext ==
  \/ getStatus \/ inspectExistingArchive \/ ApiRestarts
  \/ \E r \in Reqs :
       \/ AskDownload(r) \/ startDownload(r)
       \/ DownloadCleans(r) \/ DownloadStreams(r) \/ DownloadVerifies(r)
       \/ DownloadRenames(r) \/ DownloadSettles(r) \/ DownloadFails(r)

MapSpec == MapInit /\ [][MapNext]_mapVars

-----------------------------------------------------------------------------
\* The map is shown as ready, and getArchive serves it, only while the archive
\* on disk is the whole managed file: no broken or interrupted download, no
\* second request and no restart of the API in lib/photostaff-map.ts makes a
\* missing or damaged archive look ready.
ReadyMapIsWhole == snapshot = "ready" => archive = "whole"
=============================================================================
