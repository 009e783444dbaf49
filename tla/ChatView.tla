------------------------------ MODULE ChatView ------------------------------
(***************************************************************************)
(* The chat of the web workspace: which session is in view, its transcript *)
(* and its event stream (apps/web/src/App.tsx, lib/transcript.ts,          *)
(* lib/events.ts) against the session routes of the API and the            *)
(* agent_transcript_items table.                                           *)
(*                                                                         *)
(* The table is one log: an item's position is its sequence and its event  *)
(* id.  User messages, agent.message and job.failed are transcript items;  *)
(* the other job events are not.  A message that the API has not yet       *)
(* acknowledged is Local and has no sequence.  A call carries "mine": it is *)
(* still the newest session view request.                                   *)
(***************************************************************************)
EXTENDS Naturals, Sequences, SequencesExt, FiniteSets

CONSTANTS Sessions, Roots, FirstRows,  \* the sessions there are at first, with their roots
          Calls, Limit,                \* LIMIT of the transcript query
          MaxLog, MaxActions, NONE

VARIABLES
  rows,        \* agent_sessions: the root of each session
  log,         \* agent_messages, agent_events, agent_transcript_items
  root,        \* selectedRootId
  session,     \* session and activeSessionId
  transcript,  \* transcriptState
  seen,        \* seenEvents
  stream,      \* the EventSource: its session, and the last event sent on it
  activeJob,   \* activeJobId
  submitting,  \* messageSubmitting
  calls, lost, \* user messages stored whose acknowledgement was lost
  actions

chatVars == <<rows, log, root, session, transcript, seen, stream, activeJob,
              submitting, calls, lost, actions>>

Local == 0
Gone == "gone"      \* a deleted session; its id is not used again
Chat == {"user", "assistant", "failed"}
Ends == {"completed", "failed", "cancelled"}
Item(s, kind, job) == [session |-> s, kind |-> kind, job |-> job]
ItemsOf(s) == SelectSeq([i \in 1 .. Len(log) |-> i],
                        LAMBDA i : log[i].session = s /\ log[i].kind \in Chat)
JobIds == {i \in 1 .. Len(log) : log[i].kind = "user"}
Over(j) == \E i \in 1 .. Len(log) : log[i].job = j /\ log[i].kind \in Ends

TypeOK ==
  /\ rows \in [Sessions -> Roots \union {NONE, Gone}]
  /\ root \in Roots /\ session \in Sessions \union {NONE}
  /\ transcript.session \in Sessions \union {NONE}
  /\ transcript.phase \in {"idle", "loading", "ready", "error"}
  /\ seen \subseteq 1 .. Len(log) /\ submitting \in BOOLEAN
  /\ activeJob \in (1 .. Len(log)) \union {NONE}
-----------------------------------------------------------------------------
(* The transcript's reducer. *)

\* mergeTranscriptMessages: an id keeps its first place; the list is sorted
\* once every message has a sequence.
mergeTranscriptMessages(first, second) ==
  LET merged == first \o SelectSeq(second, LAMBDA i : \A k \in DOMAIN first : first[k] # i)
  IN IF \E k \in DOMAIN merged : merged[k] = Local THEN merged
     ELSE SortSeq(merged, <)

Without(messages, id) == SelectSeq(messages, LAMBDA i : i # id)

Prepare == [session |-> NONE, phase |-> "loading", messages |-> <<>>]
Begin(s) == [session |-> s, phase |-> "loading", messages |-> <<>>]

\* A mutant: work of another session is taken in.
reduce_any_session(type, s, messages) ==
  CASE type = "snapshot" ->
         [transcript EXCEPT !.phase = "ready", !.messages = mergeTranscriptMessages(messages, @)]
    [] type \in {"event", "optimistic"} ->
         [transcript EXCEPT !.messages = mergeTranscriptMessages(@, messages)]
    [] type = "acknowledge" ->
         [transcript EXCEPT !.messages = mergeTranscriptMessages(Without(@, Local), messages)]
    [] type = "rollback" -> [transcript EXCEPT !.messages = Without(@, Local)]
    [] type = "failed" -> [transcript EXCEPT !.phase = "error"]

transcriptReducer(type, s, messages) ==
  IF transcript.session # s THEN transcript
  ELSE CASE type = "snapshot" ->
              [transcript EXCEPT !.phase = "ready",
                                 !.messages = mergeTranscriptMessages(messages, @)]
         [] type \in {"event", "optimistic"} ->
              [transcript EXCEPT !.messages = mergeTranscriptMessages(@, messages)]
         [] type = "acknowledge" ->
              [transcript EXCEPT !.messages = mergeTranscriptMessages(Without(@, Local), messages)]
         [] type = "rollback" -> [transcript EXCEPT !.messages = Without(@, Local)]
         [] type = "failed" -> [transcript EXCEPT !.phase = "error"]
-----------------------------------------------------------------------------
(* Which session is in view. *)

Call(at, s) == [at |-> at, root |-> root, session |-> s, mine |-> TRUE, snapshot |-> NONE]
Stale == [c \in Calls |-> IF calls[c] = NONE THEN NONE ELSE [calls[c] EXCEPT !.mine = FALSE]]
beginSessionViewRequest(c, call) == [Stale EXCEPT ![c] = call]
Idle(c) == calls[c] = NONE
At(c, at) == calls[c] # NONE /\ calls[c].at = at

\* seenEvents.clear, setSession and the reducer's "begin".
Views(s) ==
  /\ seen' = {} /\ session' = s /\ transcript' = Begin(s)

Init ==
  /\ rows = FirstRows /\ log = <<>>
  /\ root \in Roots /\ session = NONE
  /\ transcript = Prepare /\ seen = {} /\ stream = NONE
  /\ activeJob = NONE /\ submitting = FALSE
  /\ \E c \in Calls : calls = [k \in Calls |-> IF k = c THEN [Call("sessions", NONE) EXCEPT !.root = root]
                                               ELSE NONE]
  /\ lost = {} /\ actions = 0

\* selectStoragePool into another root, and the effect of selectedRootId.
SwitchRoot(c, r) ==
  /\ Idle(c) /\ r # root
  /\ root' = r /\ seen' = {} /\ session' = NONE /\ activeJob' = NONE
  /\ transcript' = Prepare
  /\ calls' = beginSessionViewRequest(c, [Call("sessions", NONE) EXCEPT !.root = r])
  /\ UNCHANGED <<rows, log, stream, submitting, lost>>

\* loadRootWorkspace: the latest session of the root, or a new one.
loadRootWorkspace(c, s) ==
  /\ At(c, "sessions")
  /\ IF \E k \in Sessions : rows[k] = calls[c].root
     THEN rows[s] = calls[c].root /\ UNCHANGED rows
     ELSE rows[s] = NONE /\ rows' = [rows EXCEPT ![s] = calls[c].root]
  /\ IF calls[c].mine
     THEN /\ Views(s)
          /\ calls' = [calls EXCEPT ![c].at = "transcript", ![c].session = s]
     ELSE /\ calls' = [calls EXCEPT ![c] = NONE]
          /\ UNCHANGED <<seen, session, transcript>>
  /\ UNCHANGED <<log, root, stream, activeJob, submitting, lost>>

selectSession(c, s) ==
  /\ Idle(c) /\ s # session /\ rows[s] = root
  /\ Views(s)
  /\ calls' = beginSessionViewRequest(c, Call("transcript", s))
  /\ UNCHANGED <<rows, log, root, stream, activeJob, submitting, lost>>

createAgent(c) ==
  /\ Idle(c)
  /\ transcript' = Prepare
  /\ calls' = beginSessionViewRequest(c, Call("create", NONE))
  /\ UNCHANGED <<rows, log, root, session, seen, stream, activeJob, submitting, lost>>

\* createSession has returned: the new session is put in view, whatever was
\* asked for in between.
AgentCreated(c, s) ==
  /\ At(c, "create") /\ rows[s] = NONE
  /\ rows' = [rows EXCEPT ![s] = calls[c].root]
  /\ Views(s)
  /\ calls' = [calls EXCEPT ![c].at = "transcript", ![c].session = s]
  /\ UNCHANGED <<log, root, stream, activeJob, submitting, lost>>

\* deleteActiveSession and loadSessionIntoView: refused while the session
\* has active work; otherwise the latest remaining session is put in view.
deleteActiveSession(c) ==
  /\ Idle(c) /\ session # NONE
  /\ calls' = [calls EXCEPT ![c] = [Call("delete", session) EXCEPT !.mine = FALSE]]
  /\ UNCHANGED <<rows, log, root, session, transcript, seen, stream, activeJob,
                 submitting, lost>>

SessionDeleted(c, s) ==
  LET gone == calls[c].session
  IN /\ At(c, "delete")
     /\ \A j \in JobIds : log[j].session = gone => Over(j)
     /\ rows[gone] \in Roots
     /\ IF \E k \in Sessions \ {gone} : rows[k] = calls[c].root
        THEN /\ s # gone /\ rows[s] = calls[c].root
             /\ rows' = [rows EXCEPT ![gone] = Gone]
        ELSE /\ s # gone /\ rows[s] = NONE
             /\ rows' = [rows EXCEPT ![gone] = Gone, ![s] = calls[c].root]
     /\ log' = [i \in DOMAIN log |-> IF log[i].session = gone
                                     THEN Item(NONE, "deleted", NONE) ELSE log[i]]
     /\ Views(s) /\ activeJob' = NONE
     /\ calls' = beginSessionViewRequest(c, Call("transcript", s))
     /\ UNCHANGED <<root, stream, submitting, lost>>

\* GET /api/sessions/:id/transcript, read by the API ...
TranscriptIsRead(c) ==
  /\ At(c, "transcript") /\ rows[calls[c].session] \in Roots
  /\ calls' = [calls EXCEPT ![c].at = "answered",
                            ![c].snapshot = LET items == ItemsOf(calls[c].session)
                                            IN SubSeq(items, 1, Min({Len(items), Limit}))]
  /\ UNCHANGED <<rows, log, root, session, transcript, seen, stream, activeJob,
                 submitting, lost>>

\* ... and taken in by the page.
TranscriptArrives(c) ==
  /\ At(c, "answered")
  /\ transcript' = IF calls[c].mine
                   THEN transcriptReducer("snapshot", calls[c].session, calls[c].snapshot)
                   ELSE transcript
  /\ calls' = [calls EXCEPT ![c] = NONE]
  /\ UNCHANGED <<rows, log, root, session, seen, stream, activeJob, submitting, lost>>

\* A request of these fails: the view that is still wanted shows the error.
ViewFails(c) ==
  /\ calls[c] # NONE /\ calls[c].at \in {"sessions", "create", "delete", "transcript"}
  /\ transcript' = IF calls[c].mine
                   THEN transcriptReducer("failed", calls[c].session, <<>>)
                   ELSE transcript
  /\ calls' = [calls EXCEPT ![c] = NONE]
  /\ UNCHANGED <<rows, log, root, session, seen, stream, activeJob, submitting, lost>>
-----------------------------------------------------------------------------
(* The event stream. *)

\* The effect of the session: the old EventSource closes, a new one starts
\* at event 0.  Events of the old one may arrive until then.
OpenStream ==
  /\ session # IF stream = NONE THEN NONE ELSE stream.session
  /\ stream' = IF session = NONE THEN NONE ELSE [session |-> session, last |-> 0]
  /\ UNCHANGED <<rows, log, root, session, transcript, seen, activeJob, submitting,
                 calls, lost>>

\* flush sends the session's events in order; handleEvent takes one in.
handleEvent(i) ==
  /\ stream # NONE /\ i \in 1 .. Len(log)
  /\ log[i].session = stream.session /\ log[i].kind # "user" /\ i > stream.last
  /\ \A k \in 1 .. (i - 1) :
       k > stream.last => log[k].session # stream.session \/ log[k].kind = "user"
  /\ stream' = [stream EXCEPT !.last = i]
  /\ IF i \in seen THEN UNCHANGED <<seen, transcript, activeJob>>
     ELSE /\ seen' = seen \union {i}
          /\ transcript' = IF log[i].kind \in Chat
                           THEN transcriptReducer("event", stream.session, <<i>>)
                           ELSE transcript
          /\ activeJob' = IF log[i].kind \in Ends /\ activeJob = log[i].job
                          THEN NONE ELSE activeJob
  /\ UNCHANGED <<rows, log, root, session, submitting, calls, lost>>
-----------------------------------------------------------------------------
(* Messages and jobs. *)

submitMessage(c) ==
  /\ Idle(c) /\ session # NONE /\ ~submitting /\ transcript.phase # "loading"
  /\ submitting' = TRUE
  /\ transcript' = transcriptReducer("optimistic", session, <<Local>>)
  /\ calls' = [calls EXCEPT ![c] = [Call("submit", session) EXCEPT !.mine = FALSE]]
  /\ UNCHANGED <<rows, log, root, session, seen, stream, activeJob, lost>>

\* syncSessionPath: the session is replaced by the same one at another path,
\* and the stream starts anew.  POST .../messages stores message and job.
MessageStored(c, moved) ==
  LET s == calls[c].session
  IN /\ At(c, "submit") /\ rows[s] \in Roots /\ Len(log) < MaxLog
     /\ log' = Append(log, Item(s, "user", Len(log) + 1))
     /\ stream' = IF moved /\ stream # NONE /\ session = s /\ stream.session = s
                  THEN [stream EXCEPT !.last = 0] ELSE stream
     /\ calls' = [calls EXCEPT ![c].at = "sent", ![c].snapshot = <<Len(log) + 1>>]
     /\ UNCHANGED <<rows, root, session, transcript, seen, activeJob, submitting, lost>>

MessageAcknowledged(c) ==
  /\ At(c, "sent")
  /\ transcript' = transcriptReducer("acknowledge", calls[c].session, calls[c].snapshot)
  /\ activeJob' = calls[c].snapshot[1]
  /\ submitting' = FALSE
  /\ calls' = [calls EXCEPT ![c] = NONE]
  /\ UNCHANGED <<rows, log, root, session, seen, stream, lost>>

MessageFails(c) ==
  /\ calls[c] # NONE /\ calls[c].at \in {"submit", "sent"}
  /\ transcript' = transcriptReducer("rollback", calls[c].session, <<>>)
  /\ submitting' = FALSE
  /\ lost' = IF calls[c].at = "sent" THEN lost \union {calls[c].snapshot[1]} ELSE lost
  /\ calls' = [calls EXCEPT ![c] = NONE]
  /\ UNCHANGED <<rows, log, root, session, seen, stream, activeJob>>

\* The worker and the cancel route append the events of a job.
JobEvent(j, kind) ==
  /\ j \in JobIds /\ ~Over(j) /\ Len(log) < MaxLog
  /\ kind = "assistant" => \A i \in 1 .. Len(log) : log[i].job = j => log[i].kind # kind
  /\ log' = Append(log, Item(log[j].session, kind, j))
  /\ UNCHANGED <<rows, root, session, transcript, seen, stream, activeJob, submitting,
                 calls, lost>>

cancelActiveJob ==
  /\ activeJob # NONE /\ JobEvent(activeJob, "cancelled")
-----------------------------------------------------------------------------
User ==
  \/ \E c \in Calls :
       \/ \E r \in Roots : SwitchRoot(c, r)
       \/ \E s \in Sessions : selectSession(c, s)
       \/ createAgent(c) \/ deleteActiveSession(c) \/ submitMessage(c)
  \/ cancelActiveJob

System ==
  \/ \E c \in Calls :
       \/ \E s \in Sessions : loadRootWorkspace(c, s) \/ AgentCreated(c, s) \/ SessionDeleted(c, s)
       \/ TranscriptIsRead(c) \/ TranscriptArrives(c) \/ ViewFails(c)
       \/ \E moved \in BOOLEAN : MessageStored(c, moved)
       \/ MessageAcknowledged(c) \/ MessageFails(c)
  \/ OpenStream
  \/ \E i \in 1 .. Len(log) : handleEvent(i)
  \/ \E j \in JobIds, kind \in {"assistant", "completed", "failed"} : JobEvent(j, kind)

Next ==
  \/ actions < MaxActions /\ actions' = actions + 1 /\ User
  \/ UNCHANGED actions /\ System

Spec == Init /\ [][Next]_chatVars
-----------------------------------------------------------------------------
\* The chat in view is that of the session in view: every message once and
\* none of another session; and when the stream has caught up, every reply the
\* session has ever had and every message whose sending was acknowledged is
\* there, although snapshots, events and acknowledgements arrive in any order.
ChatTellsTheSession ==
  LET m == transcript.messages
      in == {m[k] : k \in DOMAIN m}
      own == {ItemsOf(session)[k] : k \in DOMAIN ItemsOf(session)}
      caughtUp == /\ stream # NONE /\ stream.session = session
                  /\ \A i \in 1 .. Len(log) :
                       log[i].session = session /\ log[i].kind # "user" => i <= stream.last
      sending == {calls[c].snapshot[1] : c \in {k \in Calls : At(k, "sent")}}
  IN /\ transcript.session \in {NONE, session}
     /\ \A j, k \in DOMAIN m : j # k => m[j] # m[k]
     /\ session # NONE => in \subseteq own \union {Local}
     /\ session # NONE /\ transcript.phase = "ready" /\ caughtUp
          => own \ (lost \union sending) \subseteq in

\* Once no message is waiting for its acknowledgement, the chat is in the order
\* of the transcript's sequence.
\* The code does not keep this in every case: README.md says when.
ChatInOrder ==
  LET m == transcript.messages
  IN (\A k \in DOMAIN m : m[k] # Local) => \A j, k \in DOMAIN m : j < k => m[j] < m[k]
=============================================================================
