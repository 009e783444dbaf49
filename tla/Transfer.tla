------------------------------ MODULE Transfer ------------------------------
(***************************************************************************)
(* The bytes of a download, and the space its pool has for them.           *)
(***************************************************************************)
EXTENDS Integers, Sequences, FiniteSets, FiniteSetsExt, SequencesExt

-----------------------------------------------------------------------------
(***************************************************************************)
(* The bytes of one HTTP download: apps/downloader/src/download.rs from    *)
(* probe_source to the last byte of the .part file, over as many runs of   *)
(* run_task as pauses, failures and stops of the process make necessary.   *)
(*                                                                         *)
(* The source is one of several versions of a file.  A byte is modelled by *)
(* the version it was read from (0: a hole), an ETag or Last-Modified by   *)
(* the version it names, so that a .part file shows which versions it was  *)
(* put together from.  Who owns the task, and its publication, is the      *)
(* subject of Downloader.                                                  *)
(***************************************************************************)
CONSTANTS LenOf,      \* the length of every version of the source
          Servers,    \* what the server can do: [ranges, validator, ifRange, length]
          Chunk,      \* bytes of a segment
          Minimum,    \* segmented_download_min_bytes
          MaxSize,    \* max_file_size_bytes
          MaxTrouble, \* bound on failures, stops, pauses and settings changes
          NONE

VARIABLES server,    \* how the server answers
          source,    \* the version it serves now
          parallel,  \* the settings allow more than one request per task
          row,       \* download_tasks and download_segments of the task
          part,      \* the .part file: NONE or the version of every byte
          run,       \* run_task: NONE when it does not run
          done,      \* the bytes run_task hands to publication, or NONE
          carried,   \* a plan was used after the source or the settings changed
          trouble

transferVars == <<server, source, parallel, row, part, run, done, carried, trouble>>

Versions == DOMAIN LenOf
NoPlan == <<>>
NewRow == [status |-> "queued", received |-> 0, tag |-> NONE, segs |-> NoPlan]

TransferInit ==
  /\ server \in Servers /\ source = 1 /\ parallel \in BOOLEAN
  /\ row = NewRow /\ part = NONE /\ run = NONE /\ done = NONE
  /\ carried = FALSE /\ trouble = 0

Trouble == trouble < MaxTrouble /\ trouble' = trouble + 1
Size(p) == IF p = NONE THEN 0 ELSE Len(p)
Holes(n) == [i \in 1 .. n |-> 0]

(* File::set_len cuts the file or fills it up with a hole.                 *)
set_len(p, n) == [i \in 1 .. n |-> IF i <= Size(p) THEN p[i] ELSE 0]

-----------------------------------------------------------------------------
(* The answers of the server.                                              *)

(* The errors of network.rs, and what handle_task makes of each: the task  *)
(* is queued again, or it has failed.                                      *)
validate_url == [scheme |-> "failed", credentials |-> "failed", host |-> "failed"]
resolve_public_addresses ==
  [timeout |-> "queued", lookup |-> "queued", address |-> "failed"]
classify_reqwest_error == [timeout |-> "queued", connect |-> "queued", certificate |-> "failed"]
send_once ==
  Range(resolve_public_addresses) \cup {"queued"} \cup Range(classify_reqwest_error)
request_errors ==
  send_once \cup Range(validate_url)
    \cup {"failed"}   \* a redirect that goes nowhere, too far or back to HTTP
    \cup {"queued"}   \* 408, 425, 429, 500, 502, 503, 504

(* What the headers of an answer name the file by.                         *)
tag_of(v) == IF server.validator THEN v ELSE NONE

(* GET with an optional range and If-Range.  206 when the range is         *)
(* honoured, 200 with the whole file when it is not, 416 past the end.     *)
get(start, ifRange) ==
  LET v == source
      partial == /\ start # NONE /\ server.ranges
                 /\ ifRange # NONE /\ server.ifRange => ifRange = tag_of(v)
  IN  [status |-> IF ~partial THEN 200 ELSE IF start < LenOf[v] THEN 206 ELSE 416,
       v |-> v, tag |-> tag_of(v), length |-> server.length,
       total |-> IF partial \/ server.length THEN LenOf[v] ELSE NONE]

(* response_validator_conflicts and response_validators_match.             *)
conflicts(res, probe) == probe.tag # NONE /\ res.tag # NONE /\ res.tag # probe.tag
matches(res, probe) == probe.tag # NONE /\ res.tag = probe.tag

valid_range_response(res, total) == res.status = 206 /\ (total # NONE => res.total = total)

(* The probe asks for the first byte.                                      *)
probe_source ==
  LET res == get(0, NONE)
  IN  [total |-> res.total, tag |-> res.tag,
       segmented |-> /\ res.status = 206 /\ res.total >= Minimum
                     /\ parallel /\ res.tag # NONE]

-----------------------------------------------------------------------------
(* The row.  Every update of the worker is refused once a pause was asked  *)
(* for.                                                                    *)
Owned == row.status = "running"
Reset(r) == [r EXCEPT !.received = 0, !.tag = NONE, !.segs = NoPlan]

(* progress keeps the old validator when the probe had none.               *)
progress(r, received, probe) ==
  [r EXCEPT !.received = received, !.tag = IF probe.tag = NONE THEN @ ELSE probe.tag]

Received(segs) == FoldSeq(LAMBDA s, n : n + (s.next - s.start), 0, segs)

(* The run ends: it is tried again, fails, or was paused.                  *)
Ends(status) ==
  /\ run' = NONE
  /\ row' = [row EXCEPT !.status = IF Owned THEN status ELSE "paused"]

(* handle_task: claim, StorageTarget::resolve and probe_source.  run.task  *)
(* is the row as it was claimed, which run_task never reads again.         *)
Claim ==
  /\ run = NONE /\ row.status = "queued" /\ done = NONE
  /\ row' = [row EXCEPT !.status = "running"]
  /\ part' = IF part = NONE THEN <<>> ELSE part
  /\ run' = [pc |-> "begin", task |-> row, probe |-> probe_source, again |-> FALSE,
             start |-> 0, offset |-> 0, body |-> NONE, streams |-> <<>>]
  /\ UNCHANGED <<server, source, parallel, done, carried, trouble>>

(* enforce_size, after every probe and of the answer that is transferred.  *)
Fits(total) == total # NONE => total <= MaxSize

TooLarge ==
  /\ run # NONE /\ run.pc = "begin" /\ ~Fits(run.probe.total)
  /\ Ends("failed")
  /\ UNCHANGED <<server, source, parallel, part, done, carried, trouble>>

(* SourceChanged: once, reset_transfer, empty the file and probe again.    *)
SourceChanged ==
  IF run.again \/ ~Owned
  THEN Ends("failed") /\ UNCHANGED part
  ELSE /\ row' = Reset(row) /\ part' = <<>>
       /\ run' = [run EXCEPT !.pc = "begin", !.again = TRUE, !.probe = probe_source,
                             !.body = NONE, !.streams = <<>>]

-----------------------------------------------------------------------------
(* One stream.                                                             *)

validators_match(task, probe) == probe.tag # NONE /\ task.tag = probe.tag

(* Mutant: the stream is resumed whatever the validator of the file says.  *)
resume_any(task, probe) ==
  /\ task.received > 0 /\ Size(part) >= task.received
  /\ probe.total # NONE => task.received <= probe.total

can_resume(task, probe) ==
  /\ task.received > 0 /\ Size(part) >= task.received
  /\ validators_match(task, probe)
  /\ probe.total # NONE => task.received <= probe.total

(* download_single up to the first byte of the body.  The rows are reset   *)
(* when bytes are thrown away; a range that is not honoured is asked for   *)
(* again as the whole file.                                                *)
SingleBegins ==
  /\ run # NONE /\ run.pc = "begin" /\ ~run.probe.segmented /\ Fits(run.probe.total)
  /\ carried' = (carried \/ (row.segs # NoPlan /\ can_resume(run.task, run.probe)))
  /\ LET probe == run.probe
         resumes == can_resume(run.task, probe)
         from == IF resumes THEN run.task.received ELSE 0
         ranged == IF from > 0 THEN get(from, probe.tag) ELSE get(NONE, NONE)
         whole == from = 0 \/ ~valid_range_response(ranged, probe.total)
         res == IF whole THEN get(NONE, NONE) ELSE ranged
         start == IF whole THEN 0 ELSE from
         loses == (~resumes /\ Size(part) > 0) \/ (whole /\ from > 0)
     IN  IF loses /\ ~Owned
         THEN Ends("failed") /\ UNCHANGED <<part, done>>
         ELSE IF resumes /\ probe.total = from
         THEN /\ part' = set_len(part, from) /\ done' = part'
              /\ run' = NONE /\ UNCHANGED row
         ELSE IF conflicts(res, probe)
                 \/ (start = 0 /\ probe.total # NONE /\ res.total # NONE
                      /\ res.total # probe.total)
         THEN SourceChanged /\ UNCHANGED done
         ELSE IF ~Fits(res.total)
         THEN Ends("failed") /\ part' = set_len(part, start) /\ UNCHANGED done
         ELSE /\ part' = set_len(part, start)
              /\ row' = IF loses THEN Reset(row) ELSE row
              /\ run' = [run EXCEPT !.pc = "single", !.start = start, !.offset = start,
                                    !.body = res]
              /\ UNCHANGED done
  /\ UNCHANGED <<server, source, parallel, trouble>>

(* A chunk of the body is written behind the bytes that are there.         *)
SingleChunk ==
  /\ run # NONE /\ run.pc = "single" /\ run.offset < LenOf[run.body.v]
  /\ IF run.offset + 1 > MaxSize
     THEN Ends("failed") /\ UNCHANGED part
     ELSE /\ part' = [set_len(part, Max({Size(part), run.offset + 1}))
                        EXCEPT ![run.offset + 1] = run.body.v]
          /\ run' = [run EXCEPT !.offset = @ + 1] /\ UNCHANGED row
  /\ UNCHANGED <<server, source, parallel, done, carried, trouble>>

(* The checkpoint of every five seconds.                                   *)
SingleCheckpoint ==
  /\ run # NONE /\ run.pc = "single"
  /\ run.offset # row.received \/ ~Owned
  /\ IF Owned THEN row' = progress(row, run.offset, run.probe) /\ UNCHANGED run
     ELSE Ends("failed")
  /\ UNCHANGED <<server, source, parallel, part, done, carried, trouble>>

(* The body has ended: the lengths agree, and the row says so.             *)
SingleEnds ==
  /\ run # NONE /\ run.pc = "single" /\ run.offset = LenOf[run.body.v]
  /\ IF ~Owned THEN Ends("failed") /\ UNCHANGED <<part, done>>
     ELSE /\ part' = set_len(part, run.offset) /\ done' = part'
          /\ row' = progress(row, run.offset, run.probe) /\ run' = NONE
  /\ UNCHANGED <<server, source, parallel, carried, trouble>>

-----------------------------------------------------------------------------
(* Segments.                                                               *)

(* The bytes already there are a finished segment of their own.            *)
plan_segments(total, prefix) ==
  LET first == IF prefix > 0 THEN <<[start |-> 0, end |-> prefix, next |-> prefix]>> ELSE <<>>
      count == (total - prefix + Chunk - 1) \div Chunk
  IN  first \o [k \in 1 .. count |->
                  [start |-> prefix + (k - 1) * Chunk,
                   end |-> Min({prefix + k * Chunk, total}),
                   next |-> prefix + (k - 1) * Chunk]]

segments_cover_total(segs, total) ==
  /\ \A k \in DOMAIN segs :
       /\ segs[k].start = IF k = 1 THEN 0 ELSE segs[k - 1].end
       /\ segs[k].next \in segs[k].start .. segs[k].end
  /\ segs # <<>> => Last(segs).end = total

(* Mutant: the bytes at hand are taken for a prefix whatever they are.     *)
prefix_unchecked(total, probe, lost) ==
  IF lost \/ Size(part) > total THEN 0 ELSE Size(part)

(* What of the .part file becomes the first segment of a new plan.         *)
prefix_of(total, probe, lost) ==
  IF ~lost /\ validators_match(run.task, probe) /\ run.task.received = Size(part)
       /\ Size(part) <= total
  THEN Size(part) ELSE 0

(* download_segmented up to the first request.  A recorded plan is         *)
(* resumed when the file has the full length; the validator it was made    *)
(* with is not looked at.                                                  *)
SegmentedBegins ==
  /\ run # NONE /\ run.pc = "begin" /\ run.probe.segmented /\ Fits(run.probe.total)
  /\ LET probe == run.probe
         total == probe.total
         keeps == /\ row.segs # NoPlan /\ Size(part) = total
                  /\ segments_cover_total(row.segs, total)
         lost == row.segs # NoPlan /\ ~keeps
         prefix == prefix_of(total, probe, lost)
         segs == IF keeps THEN row.segs ELSE plan_segments(total, prefix)
         resets == ~keeps /\ (lost \/ (Size(part) > 0 /\ prefix = 0))
     IN  IF ~Owned
         THEN Ends("failed") /\ UNCHANGED <<part, carried>>
         ELSE /\ carried' = (carried \/ (keeps /\ row.tag # probe.tag))
              /\ part' = IF keeps \/ prefix > 0 THEN set_len(part, total) ELSE Holes(total)
              /\ row' = [progress(IF resets THEN Reset(row) ELSE row, Received(segs), probe)
                           EXCEPT !.segs = segs]
              /\ run' = [run EXCEPT !.pc = "segments",
                                    !.streams = [k \in DOMAIN segs |->
                                                   [v |-> NONE, offset |-> segs[k].next]]]
  /\ UNCHANGED <<server, source, parallel, done, trouble>>

(* The segments that buffer_unordered still works on.                      *)
Open(k) == run.streams[k].offset < row.segs[k].end \/ row.segs[k].next < row.segs[k].end

(* Mutant: an answer to a range is taken without its validator.            *)
segment_unchecked(k) ==
  LET res == get(run.streams[k].offset, run.probe.tag)
  IN  IF valid_range_response(res, run.probe.total)
      THEN run' = [run EXCEPT !.streams[k].v = res.v] /\ UNCHANGED <<row, part>>
      ELSE IF conflicts(res, run.probe) THEN SourceChanged
      ELSE Ends("failed") /\ UNCHANGED part

(* download_segment asks for its range under If-Range.                     *)
segment_request(k) ==
  LET res == get(run.streams[k].offset, run.probe.tag)
  IN  IF valid_range_response(res, run.probe.total) /\ matches(res, run.probe)
      THEN run' = [run EXCEPT !.streams[k].v = res.v] /\ UNCHANGED <<row, part>>
      ELSE IF valid_range_response(res, run.probe.total) \/ conflicts(res, run.probe)
      THEN SourceChanged
      ELSE Ends("failed") /\ UNCHANGED part

SegmentRequest(k) ==
  /\ run # NONE /\ run.pc = "segments" /\ k \in DOMAIN run.streams
  /\ Open(k) /\ run.streams[k].v = NONE
  /\ segment_request(k)
  /\ UNCHANGED <<server, source, parallel, done, carried, trouble>>

SegmentChunk(k) ==
  /\ run # NONE /\ run.pc = "segments" /\ k \in DOMAIN run.streams
  /\ run.streams[k].v # NONE /\ run.streams[k].offset < row.segs[k].end
  /\ part' = [part EXCEPT ![run.streams[k].offset + 1] = run.streams[k].v]
  /\ run' = [run EXCEPT !.streams[k].offset = @ + 1]
  /\ UNCHANGED <<server, source, parallel, row, done, carried, trouble>>

(* checkpoint_segment, every five seconds and at the end of the segment:   *)
(* received_bytes becomes the sum over all segments.                       *)
SegmentCheckpoint(k) ==
  /\ run # NONE /\ run.pc = "segments" /\ k \in DOMAIN run.streams
  /\ row.segs[k].next < run.streams[k].offset
  /\ IF Owned
     THEN LET segs == [row.segs EXCEPT ![k].next = run.streams[k].offset]
          IN  row' = [row EXCEPT !.segs = segs, !.received = Received(segs)] /\ UNCHANGED run
     ELSE Ends("failed")
  /\ UNCHANGED <<server, source, parallel, part, done, carried, trouble>>

(* All segments are collected: the length is compared with the file.       *)
SegmentsEnd ==
  /\ run # NONE /\ run.pc = "segments" /\ \A k \in DOMAIN run.streams : ~Open(k)
  /\ IF Owned THEN done' = part /\ run' = NONE /\ UNCHANGED row
     ELSE Ends("failed") /\ UNCHANGED done
  /\ UNCHANGED <<server, source, parallel, part, carried, trouble>>

-----------------------------------------------------------------------------
(* What disturbs a transfer.                                               *)

(* A request fails, or the body breaks off or the disk is full: handle_task *)
(* queues the task again or fails it.                                      *)
TransferFails ==
  /\ run # NONE /\ Trouble /\ \E error \in request_errors : Ends(error)
  /\ UNCHANGED <<server, source, parallel, part, done, carried>>

(* The process stops and its task is queued again.                         *)
Stops ==
  /\ run # NONE /\ Trouble
  /\ run' = NONE /\ row' = [row EXCEPT !.status = IF Owned THEN "queued" ELSE "paused"]
  /\ UNCHANGED <<server, source, parallel, part, done, carried>>

(* A request to pause is written into the row.                             *)
Pause ==
  /\ Owned /\ Trouble /\ row' = [row EXCEPT !.status = "pausing"]
  /\ UNCHANGED <<server, source, parallel, part, run, done, carried>>

(* Resume of a paused task, retry of a failed one: nothing is reset.       *)
Requeue ==
  /\ run = NONE /\ row.status \in {"paused", "failed"}
  /\ row' = [row EXCEPT !.status = "queued"]
  /\ UNCHANGED <<server, source, parallel, part, run, done, carried, trouble>>

(* PATCH /api/settings/downloads: read at the next probe.                  *)
SettingsChange ==
  /\ Trouble /\ done = NONE /\ parallel' = ~parallel
  /\ UNCHANGED <<server, source, row, part, run, done, carried>>

SourceReplaced ==
  /\ source + 1 \in Versions /\ done = NONE /\ source' = source + 1
  /\ UNCHANGED <<server, parallel, row, part, run, done, carried, trouble>>

TransferNext ==
  \/ Claim \/ TooLarge \/ SingleBegins \/ SingleChunk \/ SingleCheckpoint \/ SingleEnds
  \/ SegmentedBegins \/ SegmentsEnd
  \/ \E k \in 1 .. MaxSize : SegmentRequest(k) \/ SegmentChunk(k) \/ SegmentCheckpoint(k)
  \/ TransferFails \/ Stops \/ Pause \/ Requeue \/ SettingsChange \/ SourceReplaced

TransferSpec == TransferInit /\ [][TransferNext]_transferVars

-----------------------------------------------------------------------------
TransferTypeOK ==
  /\ server \in Servers /\ source \in Versions /\ parallel \in BOOLEAN
  /\ row.status \in {"queued", "running", "pausing", "paused", "failed"}
  /\ row.received \in 0 .. MaxSize /\ row.tag \in Versions \cup {NONE}
  /\ carried \in BOOLEAN /\ trouble \in 0 .. MaxTrouble

(* The bytes are those of one version of the source, all of them.          *)
IsWhole(bytes) == \E v \in Versions : bytes = [i \in 1 .. LenOf[v] |-> v]

(* Whatever interrupted it and however often the source changed, a         *)
(* transfer that hands a file to publication hands over every byte of one  *)
(* version.  Excepted are plans of segments that outlived a change of the  *)
(* source or of the settings, which FinishedIsWhole is about.              *)
ResumedIsWhole == done # NONE /\ ~carried => IsWhole(done)

(* The same of every transfer, as the tests expect of a file downloaded    *)
(* in segments and of a source whose validator has changed.                *)
FinishedIsWhole == done # NONE => IsWhole(done)

-----------------------------------------------------------------------------
(***************************************************************************)
(* Several downloads share the free space of one pool.  The downloader     *)
(* claims as many tasks as the settings allow, reserves the bytes a task   *)
(* still needs before its first byte, and looks at the free space again    *)
(* before every chunk it writes (apps/downloader/src/download.rs, db.rs).  *)
(* A chunk is one unit of space.  The free space is read outside the       *)
(* transaction that reserves, and before the chunk is written.             *)
(***************************************************************************)
CONSTANTS
  Tasks,
  Sizes,        \* lengths a source may have
  Pool,         \* free space at the beginning
  MinFree,      \* min_free_space_bytes
  MaxFaults     \* bound on failures and settings changes

VARIABLES free,        \* free space of the pool
          concurrency, \* setting: tasks that may run at once (1 .. 3)
          reserved,    \* download_space_reservations
          t,           \* the tasks
          faults

spaceVars == <<free, concurrency, reserved, t, faults>>

MaxConcurrency == 3
Running == {i \in Tasks : t[i].pc \notin {"queued", "completed", "failed"}}
SpaceFault == faults < MaxFaults /\ faults' = faults + 1

SpaceInit ==
  /\ free = Pool /\ concurrency = 2 /\ faults = 0
  /\ reserved = [i \in Tasks |-> 0]
  /\ t \in [Tasks -> {[pc |-> "queued", size |-> s, known |-> k, got |-> 0, seen |-> 0] :
                        s \in Sizes, k \in BOOLEAN}]

Goto(i, pc) == t' = [t EXCEPT ![i].pc = pc]

(* poll: concurrency minus running_count tasks are claimed.                *)
Admit(i) ==
  /\ t[i].pc = "queued" /\ Cardinality(Running) < concurrency
  /\ Goto(i, "sized") /\ UNCHANGED <<free, concurrency, reserved, faults>>

(* available_bytes, when the answer told the length of the file.           *)
ReadAvailable(i) ==
  /\ t[i].pc = "sized"
  /\ t' = [t EXCEPT ![i].pc = IF t[i].known THEN "reserve" ELSE "look", ![i].seen = free]
  /\ UNCHANGED <<free, concurrency, reserved, faults>>

(* reserve_space: the reservations of the other tasks are added up.        *)
reserve_space(i) ==
  LET others == FoldSet(LAMBDA j, n : n + reserved[j], 0, Tasks \ {i})
      required == t[i].size - t[i].got
  IN  /\ t[i].pc = "reserve"
      /\ IF required + MinFree + others > t[i].seen
         THEN Goto(i, "failed") /\ reserved' = [reserved EXCEPT ![i] = 0]
         ELSE Goto(i, "look") /\ reserved' = [reserved EXCEPT ![i] = required]
      /\ UNCHANGED <<free, concurrency, faults>>


(* Before a chunk: the space kept free must stay free behind it.           *)
LookAtFree(i) ==
  /\ t[i].pc = "look" /\ t[i].got < t[i].size
  /\ IF free < MinFree + 1
     THEN Goto(i, "failed") /\ reserved' = [reserved EXCEPT ![i] = 0]
     ELSE Goto(i, "write") /\ UNCHANGED reserved
  /\ UNCHANGED <<free, concurrency, faults>>

WriteChunk(i) ==
  /\ t[i].pc = "write"
  /\ free' = free - 1
  /\ t' = [t EXCEPT ![i].pc = "look", ![i].got = @ + 1]
  /\ UNCHANGED <<concurrency, reserved, faults>>

(* checkpoint_segment gives the bytes that are on disk back.               *)
Checkpoint(i) ==
  /\ t[i].pc = "look" /\ reserved[i] > t[i].size - t[i].got
  /\ reserved' = [reserved EXCEPT ![i] = t[i].size - t[i].got]
  /\ UNCHANGED <<free, concurrency, t, faults>>

(* finalize_publish deletes the reservation with the segments.             *)
Completes(i) ==
  /\ t[i].pc = "look" /\ t[i].got = t[i].size
  /\ Goto(i, "completed") /\ reserved' = [reserved EXCEPT ![i] = 0]
  /\ UNCHANGED <<free, concurrency, faults>>

(* fail_or_retry queues the task again, with the bytes it has.             *)
Retries(i) ==
  /\ i \in Running /\ SpaceFault
  /\ Goto(i, "queued") /\ reserved' = [reserved EXCEPT ![i] = 0]
  /\ UNCHANGED <<free, concurrency>>

(* PATCH /api/settings/downloads.                                          *)
ConcurrencyChange ==
  /\ SpaceFault /\ \E n \in 1 .. MaxConcurrency : n # concurrency /\ concurrency' = n
  /\ UNCHANGED <<free, reserved, t>>

SpaceNext ==
  \/ ConcurrencyChange
  \/ \E i \in Tasks :
       \/ Admit(i) \/ ReadAvailable(i) \/ reserve_space(i) \/ LookAtFree(i)
       \/ WriteChunk(i) \/ Checkpoint(i) \/ Completes(i) \/ Retries(i)

SpaceSpec == SpaceInit /\ [][SpaceNext]_spaceVars

-----------------------------------------------------------------------------
SpaceTypeOK ==
  /\ free \in 0 .. Pool /\ concurrency \in 1 .. MaxConcurrency
  /\ reserved \in [Tasks -> Nat] /\ faults \in 0 .. MaxFaults

=============================================================================
