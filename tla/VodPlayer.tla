----------------------------- MODULE VodPlayer -----------------------------
(***************************************************************************)
(* The HDMI player daemon (apps/vod-player): one controller task that      *)
(* owns the wanted session, an mpv child process and the session file,     *)
(* and handles one command or one tick at a time.  Positions, volumes and  *)
(* retry delays only carry data and are left out; what is kept is which    *)
(* session is wanted, which one is saved, and whether a player runs.       *)
(***************************************************************************)
EXTENDS Naturals, Sequences, SequencesExt

CONSTANTS Media,        \* videos on the storage pool
          MaxSessions,  \* bound: Play commands
          MaxQueue,     \* bound: requests that wait for the controller
          MaxEvents,    \* bound: events between two ticks
          MaxTrouble,   \* bound: faults and changes of the environment
          NONE

VARIABLES c,        \* the Controller with its session file (saved)
          pc,       \* "idle", or how far attempt_start has come
          queue,    \* the commands accepted from the socket
          events,   \* what mpv reported and the next tick will drain
          env,      \* the devices, the pool and the videos
          sessions, \* Play commands so far
          trouble   \* faults so far

vars == <<c, pc, queue, events, env, sessions, trouble>>

(***************************************************************************)
(* The session struct the controller wants to play; its identity is known  *)
(* once the file was opened.                                               *)
(***************************************************************************)
DesiredSession(s, m) == [session |-> s, media |-> m, identity |-> NONE, paused |-> FALSE]

empty_status(saved) == [up |-> FALSE, state |-> "idle", session |-> NONE,
                        desired |-> NONE, mpv |-> NONE, retry_at |-> FALSE, saved |-> saved]

Init ==
    /\ c = empty_status(NONE)
    /\ pc = "down"
    /\ queue = <<>>
    /\ events = <<>>
    /\ env = [outputs |-> "ok", mounted |-> TRUE, disk |-> "ok",
              file |-> [m \in Media |-> 0]]
    /\ sessions = 0
    /\ trouble = 0

-----------------------------------------------------------------------------
(* Helpers of the controller: each takes the controller and returns it.    *)

session_persist(k, d) == [k EXCEPT !.saved = IF env.disk = "ok" THEN d ELSE @]

\* Nothing is written for a session whose file has not been opened yet.
persist_current(k) ==
    IF k.desired = NONE \/ k.desired.identity = NONE THEN k ELSE session_persist(k, k.desired)

PersistFails(k) == k.desired.identity # NONE /\ env.disk # "ok"

session_clear(k) == [k EXCEPT !.saved = NONE]

stop_mpv(k) == [k EXCEPT !.mpv = NONE]

schedule_recovery(k) ==
    IF k.desired = NONE THEN k
    ELSE persist_current([k EXCEPT !.retry_at = TRUE, !.state = "recovering"])

set_terminal_error(k) == session_clear([k EXCEPT !.state = "error", !.retry_at = FALSE])

Failed(k, retryable) == IF retryable THEN schedule_recovery(k) ELSE set_terminal_error(k)

-----------------------------------------------------------------------------
(* Requests: the API builds a command, the daemon parses it and queues it  *)
(* for the controller.                                                     *)

\* The API resolves the path before it asks for a video to be played; the
\* daemon opens it much later.
buildCommand(cmd) ==
    cmd[1] = "play" => env.mounted /\ env.file[cmd[2]] # NONE

Commands == ({"play"} \X Media)
            \cup ({"pause", "resume", "stop", "retry", "seek", "volume"} \X (1..sessions))

\* A full queue refuses the command at once.
execute(cmd) == Len(queue) < MaxQueue /\ queue' = Append(queue, cmd)

handle_connection(cmd) ==
    /\ c.up
    /\ execute(cmd)
    /\ UNCHANGED <<c, pc, events, env, sessions, trouble>>

\* The caller may stop waiting for the answer; its command stays queued.
request == \E cmd \in Commands : buildCommand(cmd) /\ handle_connection(cmd)

Handles(type, arg) ==
    /\ c.up /\ pc = "idle"
    /\ queue # <<>> /\ Head(queue) = <<type, arg>>
    /\ queue' = Tail(queue)

\* A command of an earlier session is refused, and so is one that needs a
\* player when there is none.
assert_session(s) == c.session = s

Refused ==
    /\ \E cmd \in Commands :
         /\ cmd[1] # "play"
         /\ Handles(cmd[1], cmd[2])
         /\ \/ ~assert_session(cmd[2])
            \/ cmd[1] \in {"pause", "resume", "seek"} /\ c.mpv = NONE
    /\ UNCHANGED <<c, pc, events, env, sessions, trouble>>

-----------------------------------------------------------------------------
(* Commands.                                                               *)

load == c.saved

\* ControllerHandle::start: a saved session is wanted again.
Start ==
    /\ ~c.up
    /\ c' = [empty_status(c.saved) EXCEPT
               !.up = TRUE, !.desired = load,
               !.state = IF load = NONE THEN "idle" ELSE "recovering",
               !.session = IF load = NONE THEN NONE ELSE load.session]
    /\ pc' = IF load = NONE THEN "idle" ELSE "attempt"
    /\ UNCHANGED <<queue, events, env, sessions, trouble>>

Play(m) ==
    /\ Handles("play", m) /\ sessions < MaxSessions
    /\ c' = [stop_mpv(c) EXCEPT !.retry_at = FALSE, !.state = "starting",
                                !.session = sessions + 1,
                                !.desired = DesiredSession(sessions + 1, m)]
    /\ pc' = "attempt"
    /\ events' = <<>>
    /\ sessions' = sessions + 1
    /\ UNCHANGED <<env, trouble>>

\* What the daemon finds of the outputs, the pool and the video.
probe == env.outputs

find_mountpoint == env.mounted

open_beneath(m) == env.file[m]

\* attempt_start up to the point where mpv is launched: the outputs are
\* probed, the file opened and compared with the identity the session has.
OpenFails(k) ==
    CASE k.desired = NONE -> "final"
      [] probe # "ok" -> IF probe = "denied" THEN "final" ELSE "retry"
      [] ~find_mountpoint -> "retry"
      [] open_beneath(k.desired.media) = NONE -> "final"
      [] k.desired.identity \notin {NONE, open_beneath(k.desired.media)} -> "final"
      [] OTHER -> "no"

attempt_start ==
    LET opened == [c EXCEPT !.desired.identity = open_beneath(c.desired.media),
                            !.state = "starting"] IN
    /\ c.up /\ pc = "attempt"
    /\ CASE OpenFails(c) # "no" ->
              c' = Failed(c, OpenFails(c) = "retry") /\ pc' = "idle"
         [] OpenFails(c) = "no" /\ PersistFails(opened) ->
              c' = set_terminal_error(opened) /\ pc' = "idle"
         [] OTHER -> c' = persist_current(opened) /\ pc' = "mpv"
    /\ UNCHANGED <<queue, events, env, sessions, trouble>>

start_with_executable(d) == [paused |-> d.paused, ended |-> FALSE]

\* mpv may not load the file in time, or may be unable to decode it.
wait_until_loaded ==
    /\ trouble < MaxTrouble
    /\ trouble' = trouble + 1
    /\ \E retryable \in BOOLEAN : c' = Failed(c, retryable)

\* The rest of attempt_start.  A failing second save is reported as a
\* terminal error although the player is running.
StartsPlayer ==
    LET started == [c EXCEPT !.mpv = start_with_executable(c.desired), !.retry_at = FALSE,
                             !.state = IF c.desired.paused THEN "paused" ELSE "playing"] IN
    /\ c.up /\ pc = "mpv"
    /\ pc' = "idle"
    /\ \/ /\ c' = IF PersistFails(started) THEN set_terminal_error(started)
                                           ELSE persist_current(started)
          /\ events' = <<IF c.desired.paused THEN "pause" ELSE "play">>
          /\ UNCHANGED trouble
       \/ wait_until_loaded /\ UNCHANGED events
    /\ UNCHANGED <<queue, env, sessions>>

\* A command for mpv that is refused or times out ends the player.
MpvRefuses ==
    /\ trouble < MaxTrouble
    /\ trouble' = trouble + 1
    /\ c' = schedule_recovery(stop_mpv(c))
    /\ events' = <<>>

SetPause(s, paused) ==
    /\ Handles(IF paused THEN "pause" ELSE "resume", s) /\ assert_session(s) /\ c.mpv # NONE
    /\ \/ /\ ~c.mpv.ended /\ Len(events) < MaxEvents
          /\ c' = persist_current([c EXCEPT !.mpv.paused = paused, !.desired.paused = paused,
                                            !.state = IF paused THEN "paused" ELSE "playing"])
          /\ events' = IF c.mpv.paused = paused THEN events
                       ELSE Append(events, IF paused THEN "pause" ELSE "play")
          /\ UNCHANGED trouble
       \/ MpvRefuses
    /\ UNCHANGED <<pc, env, sessions>>

Seek(s) ==
    /\ Handles("seek", s) /\ assert_session(s) /\ c.mpv # NONE
    /\ \/ ~c.mpv.ended /\ c' = persist_current(c) /\ UNCHANGED <<events, trouble>>
       \/ MpvRefuses
    /\ UNCHANGED <<pc, env, sessions>>

\* The volume is accepted and saved without a player too.
SetVolume(s) ==
    /\ Handles("volume", s) /\ assert_session(s)
    /\ c' = persist_current(c)
    /\ UNCHANGED <<pc, events, env, sessions, trouble>>

Stop_keeps_desired(s) ==
    /\ Handles("stop", s) /\ assert_session(s)
    /\ c' = session_clear([stop_mpv(c) EXCEPT !.retry_at = FALSE, !.state = "stopped"])
    /\ events' = <<>>
    /\ UNCHANGED <<pc, env, sessions, trouble>>

Stop(s) ==
    /\ Handles("stop", s) /\ assert_session(s)
    /\ c' = session_clear([stop_mpv(c) EXCEPT !.desired = NONE, !.retry_at = FALSE,
                                              !.state = "stopped"])
    /\ events' = <<>>
    /\ UNCHANGED <<pc, env, sessions, trouble>>

Retry(s) ==
    /\ Handles("retry", s) /\ assert_session(s)
    /\ c' = [stop_mpv(c) EXCEPT !.retry_at = FALSE]
    /\ events' = <<>>
    /\ pc' = "attempt"
    /\ UNCHANGED <<env, sessions, trouble>>

-----------------------------------------------------------------------------
(* The one-second tick.                                                    *)

handle_mpv_event(k, e) ==
    CASE e \in {"play", "pause"} ->
           [k EXCEPT !.state = IF e = "pause" THEN "paused" ELSE "playing",
                     !.desired = IF @ = NONE THEN @ ELSE [@ EXCEPT !.paused = (e = "pause")]]
      [] k.mpv = NONE -> k
      [] e = "eof" -> session_clear([stop_mpv(k) EXCEPT !.desired = NONE, !.retry_at = FALSE,
                                                        !.state = "stopped"])
      [] e \in {"failed", "exit"} -> schedule_recovery(stop_mpv(k))
      [] OTHER -> set_terminal_error(stop_mpv(k))

\* Every five seconds the outputs are probed; a player whose output is gone
\* is stopped.
refresh_capabilities(k) ==
    IF k.mpv = NONE \/ probe = "ok" THEN k ELSE Failed(stop_mpv(k), probe # "denied")

tick_forgets_retry ==
    /\ c.up /\ pc = "idle"
    /\ \E probed \in BOOLEAN, checkpoint \in BOOLEAN :
         LET drained == FoldLeft(handle_mpv_event, c, events)
             refreshed == IF probed THEN refresh_capabilities(drained) ELSE drained
             fired == [refreshed EXCEPT !.retry_at = FALSE]
         IN  c' = IF checkpoint THEN persist_current(fired) ELSE fired
    /\ events' = <<>>
    /\ UNCHANGED <<pc, queue, env, sessions, trouble>>

tick ==
    /\ c.up /\ pc = "idle"
    /\ \E probed \in BOOLEAN, due \in BOOLEAN, checkpoint \in BOOLEAN :
         LET drained == FoldLeft(handle_mpv_event, c, events)
             refreshed == IF probed THEN refresh_capabilities(drained) ELSE drained
             fires == due /\ refreshed.retry_at
             fired == [refreshed EXCEPT !.retry_at = @ /\ ~fires]
         IN  /\ c' = IF checkpoint THEN persist_current(fired) ELSE fired
             /\ pc' = IF fires THEN "attempt" ELSE "idle"
    /\ events' = <<>>
    /\ UNCHANGED <<queue, env, sessions, trouble>>

\* A retry that is due is one some tick finds due.
TickRetries == tick /\ pc' = "attempt"

-----------------------------------------------------------------------------
(* mpv, the daemon's end and the surroundings.                             *)

\* After the end of the file mpv only exits.
MpvReports(e) ==
    /\ c.mpv # NONE /\ Len(events) < MaxEvents
    /\ \/ e \in {"eof", "failed", "undecodable"} /\ ~c.mpv.ended
       \/ e = "exit" /\ ~Contains(events, "exit")
    /\ c' = [c EXCEPT !.mpv.ended = TRUE]
    /\ events' = Append(events, e)
    /\ UNCHANGED <<pc, queue, env, sessions, trouble>>

shutdown(k) == persist_current(stop_mpv(k))

\* SIGTERM is handled between two messages and saves; a crash does not.
Shutdown ==
    /\ c.up /\ pc = "idle" /\ trouble < MaxTrouble
    /\ trouble' = trouble + 1
    /\ c' = empty_status(shutdown(c).saved)
    /\ pc' = "down"
    /\ queue' = <<>>
    /\ events' = <<>>
    /\ UNCHANGED <<env, sessions>>

Crash ==
    /\ c.up /\ trouble < MaxTrouble
    /\ trouble' = trouble + 1
    /\ c' = empty_status(c.saved)
    /\ pc' = "down"
    /\ queue' = <<>>
    /\ events' = <<>>
    /\ UNCHANGED <<env, sessions>>

Fault ==
    /\ trouble < MaxTrouble
    /\ trouble' = trouble + 1
    /\ \/ \E o \in {"missing", "denied"} : env' = [env EXCEPT !.outputs = o]
       \/ env' = [env EXCEPT !.mounted = FALSE]
       \/ env' = [env EXCEPT !.disk = "full"]
       \/ \E m \in Media : env' = [env EXCEPT !.file[m] = IF @ = NONE THEN 0 ELSE @ + 1]
       \/ \E m \in Media : env' = [env EXCEPT !.file[m] = NONE]
    /\ UNCHANGED <<c, pc, queue, events, sessions>>

Repair ==
    /\ [env EXCEPT !.outputs = "ok", !.mounted = TRUE, !.disk = "ok"] # env
    /\ env' = [env EXCEPT !.outputs = "ok", !.mounted = TRUE, !.disk = "ok"]
    /\ UNCHANGED <<c, pc, queue, events, sessions, trouble>>

Next ==
    \/ Start \/ request \/ Refused \/ attempt_start \/ StartsPlayer \/ tick
    \/ \E m \in Media : Play(m)
    \/ \E s \in 1..MaxSessions :
         \/ \E paused \in BOOLEAN : SetPause(s, paused)
         \/ Seek(s) \/ SetVolume(s) \/ Stop(s) \/ Retry(s)
    \/ \E e \in {"eof", "failed", "undecodable", "exit"} : MpvReports(e)
    \/ Shutdown \/ Crash \/ Fault \/ Repair

Fairness ==
    /\ WF_vars(Start) /\ WF_vars(attempt_start) /\ WF_vars(StartsPlayer)
    /\ WF_vars(TickRetries) /\ WF_vars(Repair)

Spec == Init /\ [][Next]_vars /\ Fairness

-----------------------------------------------------------------------------
\* A session that was stopped, or played to its end, is not saved: neither a
\* later checkpoint nor a restart brings it back (session::clear in Stop and
\* in the end-of-file event, persist_current in tick and in shutdown).
StoppedStaysStopped == c.up /\ c.state = "stopped" => c.saved = NONE

\* A session that waits for its storage or its outputs is tried again, and is
\* not left waiting (schedule_recovery, and retry_at in tick).
RecoveryEnds == c.state = "recovering" ~> c.state # "recovering"

\* When a command has been answered, the session the file would bring back
\* after a restart is the one that is wanted now (attempt_start,
\* schedule_recovery and persist_current).
\* The code does not keep this in every case: README.md says when.
RestartResumesCurrent ==
    (c.up /\ pc = "idle" /\ c.desired # NONE /\ c.state = "recovering")
    => (c.saved # NONE => c.saved.session = c.desired.session)
=============================================================================
