------------------------------ MODULE Terminal ------------------------------
(***************************************************************************)
(* The terminals of a NAS root: tabs, sessions and shells, and the bytes   *)
(* that one open session carries.                                          *)
(***************************************************************************)
EXTENDS Integers, Sequences, FiniteSets, FiniteSetsExt, SequencesExt

-----------------------------------------------------------------------------
(***************************************************************************)
(* The terminal tabs of a NAS root: the tab rows in SQLite, the API's      *)
(* terminal routes and session manager, the termux broker with its one     *)
(* connection per attached session, and the tmux shells that outlive both. *)
(* A session is named by its tab id; bytes, sizes and titles are left out. *)
(* Both processes run one event loop: a step is what happens between two   *)
(* awaits, and a tmux command sequence under command_lock is one step.     *)
(***************************************************************************)
CONSTANTS
  Ids,          \* session ids
  Socks,        \* browser WebSockets, each used once
  Conns,        \* API-to-broker connections, each used once
  MaxSessions,  \* terminal.maxSessions
  MaxTabs,      \* bound on the tabs ever registered
  MaxTrouble,   \* bound on failing commands, timeouts and restarts
  NONE

VARIABLES
  tabs,         \* id -> ordinal of its row, 0 without one
  tabSet,       \* [active, next]: the row of terminal_tab_sets
  ws,           \* socket -> [step, conn]
  sessions,     \* id -> connection of the API's live session
  pendingByKey, \* id -> connection being opened
  conn,         \* connection -> both its ends
  op,           \* the tab restart or removal in progress
  attachments,  \* names the broker holds as attached
  shells,       \* id -> tmux session with its @zos_ options; whether it was
                \* attached again and was to end with a restart (history)
  cause,        \* id -> why its last shell ended (history)
  trouble

api == <<tabs, tabSet, ws, sessions, pendingByKey, op>>
broker == <<attachments, shells, cause>>
shellVars == <<api, broker, conn, trouble>>

Fault == trouble < MaxTrouble /\ trouble' = trouble + 1
NoFault == UNCHANGED trouble

ShellInit ==
  /\ tabs = [i \in Ids |-> 0] /\ tabSet = [active |-> NONE, next |-> 1]
  /\ ws = [s \in Socks |-> [step |-> "new", conn |-> NONE]]
  /\ sessions = [i \in Ids |-> NONE] /\ pendingByKey = [i \in Ids |-> NONE]
  /\ conn = [c \in Conns |-> [id |-> NONE, persistent |-> FALSE, peer |-> "new", cancelled |-> FALSE,
                              socket |-> NONE, sent |-> "none", server |-> "new", answered |-> FALSE, noted |-> FALSE]]
  /\ op = NONE
  /\ attachments = {} /\ shells = [i \in Ids |-> NONE] /\ cause = [i \in Ids |-> "none"]
  /\ trouble = 0

-----------------------------------------------------------------------------
(* The tab rows.                                                            *)

TabCount == Cardinality({i \in Ids : tabs[i] # 0})

insertTerminalTab(i) ==
  /\ TabCount < MaxSessions /\ tabSet.next <= MaxTabs
  /\ tabs' = [tabs EXCEPT ![i] = tabSet.next]
  /\ tabSet' = [active |-> i, next |-> tabSet.next + 1]

\* A new row has a fresh id; the first visit may import the browser's old id.
createTerminalTab(i) ==
  /\ tabs[i] = 0 /\ shells[i] = NONE /\ \A c \in Conns : conn[c].id # i
  /\ insertTerminalTab(i)
  /\ UNCHANGED <<ws, sessions, pendingByKey, op, broker, conn, trouble>>

initializeTerminalTabs(i) ==
  /\ tabs[i] = 0
  /\ insertTerminalTab(i)
  /\ UNCHANGED <<ws, sessions, pendingByKey, op, broker, conn, trouble>>

activateTerminalTab(i) ==
  /\ tabs[i] # 0 /\ tabSet.active # i
  /\ tabSet' = [tabSet EXCEPT !.active = i]
  /\ UNCHANGED <<tabs, ws, sessions, pendingByKey, op, broker, conn, trouble>>

\* The active tab gives way to the next one on its right, else on its left.
deleteTerminalTab(i) ==
  LET right == {j \in Ids : tabs[j] > tabs[i]}
      left == {j \in Ids : tabs[j] # 0 /\ tabs[j] < tabs[i]}
      next == IF right # {} THEN CHOOSE j \in right : \A k \in right : tabs[j] <= tabs[k]
              ELSE IF left # {} THEN CHOOSE j \in left : \A k \in left : tabs[j] >= tabs[k]
              ELSE NONE
  IN /\ tabs' = [tabs EXCEPT ![i] = 0]
     /\ tabSet' = IF tabSet.active = i THEN [tabSet EXCEPT !.active = next] ELSE tabSet

-----------------------------------------------------------------------------
(* The API's end of a connection. A closing session sends one last frame,   *)
(* "detach" or "destroy", and forgets the connection; "eof" is an end       *)
(* without a frame. "drop" is a destroy no user asked for.                  *)

Ended(c, frame) ==
  [conn EXCEPT ![c].peer = "closed", ![c].socket = NONE, ![c].cancelled = FALSE,
               ![c].sent = IF conn[c].server \in {"refused", "end", "done"} THEN "none" ELSE frame]

Closed(S) == [s \in Socks |-> IF s \in S THEN [step |-> "closed", conn |-> NONE] ELSE ws[s]]

Waiting(c) == {s \in Socks : ws[s].step \in {"waiting", "gone"} /\ ws[s].conn = c}

\* createSession: a request to open is on its way to the broker.
createSession(c, i) ==
  conn' = [conn EXCEPT ![c].id = i, ![c].persistent = tabs[i] # 0, ![c].peer = "opening",
                       ![c].server = "accept"]

Capacity == Cardinality({i \in Ids : sessions[i] # NONE}) + Cardinality({i \in Ids : pendingByKey[i] # NONE})

\* attach: the socket that controlled the session is told and closed.
attach(c, s) ==
  /\ conn' = [conn EXCEPT ![c].socket = s]
  /\ ws' = [t \in Socks |-> IF t = s THEN [step |-> "attached", conn |-> c]
                            ELSE Closed({conn[c].socket})[t]]

\* acquire: the live session, the one being opened, or a new one if there is
\* room. (A session without a socket, which ensureCapacity could close, does
\* not outlive the step that took its socket away.)
acquire(s, i) ==
  IF sessions[i] # NONE THEN attach(sessions[i], s) /\ UNCHANGED pendingByKey
  ELSE IF pendingByKey[i] # NONE
    THEN ws' = [ws EXCEPT ![s] = [step |-> "waiting", conn |-> pendingByKey[i]]] /\ UNCHANGED <<pendingByKey, conn>>
  ELSE IF Capacity >= MaxSessions
    THEN ws' = Closed({s}) /\ UNCHANGED <<pendingByKey, conn>>
  ELSE \E c \in Conns :
         /\ conn[c].peer = "new" /\ \A d \in Conns : conn[d].peer = "new" => c = Min({c, d})
         /\ createSession(c, i)
         /\ pendingByKey' = [pendingByKey EXCEPT ![i] = c]
         /\ ws' = [ws EXCEPT ![s] = [step |-> "waiting", conn |-> c]]

\* GET /api/terminal: a browser connects to a tab or an unregistered id.
Connect(s, i) ==
  /\ ws[s].step = "new"
  /\ acquire(s, i)
  /\ UNCHANGED <<tabs, tabSet, sessions, op, broker, trouble>>

\* The browser goes away. An attached session lets the shell run on; a socket
\* still waiting is only remembered as gone.
detachConnection(s) ==
  /\ ws[s].step \in {"waiting", "attached"}
  /\ LET c == ws[s].conn IN
     IF ws[s].step = "waiting"
       THEN ws' = [ws EXCEPT ![s].step = "gone"] /\ UNCHANGED <<sessions, conn>>
       ELSE /\ ws' = Closed({s})
            /\ IF sessions[conn[c].id] = c /\ conn[c].socket = s
                 THEN conn' = Ended(c, "detach") /\ sessions' = [sessions EXCEPT ![conn[c].id] = NONE]
                 ELSE UNCHANGED <<sessions, conn>>
  /\ UNCHANGED <<tabs, tabSet, pendingByKey, op, broker, trouble>>

\* A close message, or a message that does not parse: the shell is to end.
CloseMessage(s) ==
  /\ ws[s].step = "attached"
  /\ LET c == ws[s].conn IN
     /\ sessions[conn[c].id] = c /\ conn[c].socket = s
     /\ conn' = Ended(c, "destroy") /\ sessions' = [sessions EXCEPT ![conn[c].id] = NONE]
  /\ ws' = Closed({s})
  /\ UNCHANGED <<tabs, tabSet, pendingByKey, op, broker, trouble>>

\* The broker's answer arrives and the waiting sockets go on: the last one
\* still there controls the session. With nobody left, or cancelled, the
\* session is closed, which destroys its shell.
Opened(c) ==
  LET i == conn[c].id
      live == {s \in Waiting(c) : ws[s].step = "waiting"}
      kept == ~conn[c].cancelled /\ live # {}
  IN /\ conn[c].peer = "opening" /\ conn[c].answered
     /\ pendingByKey' = IF pendingByKey[i] = c THEN [pendingByKey EXCEPT ![i] = NONE] ELSE pendingByKey
     /\ \E s \in IF kept THEN live ELSE {NONE} :
          /\ conn' = IF kept THEN [conn EXCEPT ![c].peer = "open", ![c].socket = s]
                     ELSE Ended(c, IF conn[c].cancelled THEN "destroy" ELSE "drop")
          /\ sessions' = IF kept THEN [sessions EXCEPT ![i] = c] ELSE sessions
          /\ ws' = [t \in Socks |-> IF t \notin Waiting(c) THEN ws[t]
                                    ELSE IF t = s THEN [ws[t] EXCEPT !.step = "attached"]
                                    ELSE Closed({t})[t]]
     /\ UNCHANGED <<tabs, tabSet, op, broker, trouble>>

\* The open is refused or the connection ends, or the API gives up waiting
\* while the broker goes on.
OpenFails(c) ==
  LET i == conn[c].id IN
  /\ conn[c].peer = "opening"
  /\ (~conn[c].answered /\ conn[c].server \in {"refused", "end", "done"} /\ NoFault) \/ Fault
  /\ conn' = Ended(c, "eof")
  /\ pendingByKey' = IF pendingByKey[i] = c THEN [pendingByKey EXCEPT ![i] = NONE] ELSE pendingByKey
  /\ ws' = Closed(Waiting(c))
  /\ UNCHANGED <<tabs, tabSet, sessions, op, broker>>

\* The exit event or the end of the connection reaches the session.
onExit(c) ==
  LET i == conn[c].id IN
  /\ conn[c].peer = "open" /\ conn[c].server \in {"end", "done"}
  /\ conn' = Ended(c, "eof")
  /\ sessions' = IF sessions[i] = c THEN [sessions EXCEPT ![i] = NONE] ELSE sessions
  /\ ws' = Closed({conn[c].socket})
  /\ UNCHANGED <<tabs, tabSet, pendingByKey, op, broker, trouble>>

\* Reset: the previous session is closed or its creation cancelled, and the
\* socket goes on with another one.
reset(s, i, j) ==
  /\ ws[s].step = "new" /\ i # j /\ sessions[j] = NONE /\ pendingByKey[j] = NONE
  /\ LET c == sessions[i]
         p == pendingByKey[i]
         n == {d \in Conns : conn[d].peer = "new"}
     IN /\ c # NONE \/ p # NONE
        /\ n # {}
        /\ LET d == Min(n)
               before == IF c # NONE THEN Ended(c, "destroy") ELSE [conn EXCEPT ![p].cancelled = TRUE]
           IN conn' = [before EXCEPT ![d].id = j, ![d].persistent = tabs[j] # 0,
                                     ![d].peer = "opening", ![d].server = "accept"]
        /\ sessions' = [sessions EXCEPT ![i] = NONE]
        /\ pendingByKey' = [pendingByKey EXCEPT ![i] = NONE, ![j] = Min(n)]
        /\ ws' = [t \in Socks |-> IF t = s THEN [step |-> "waiting", conn |-> Min(n)]
                                  ELSE Closed(IF c # NONE THEN {conn[c].socket} ELSE {})[t]]
  /\ UNCHANGED <<tabs, tabSet, op, broker, trouble>>

-----------------------------------------------------------------------------
(* Restarting and removing a tab.                                           *)

\* destroy: the live session lets go of its connection, one being opened is
\* cancelled and awaited. The shell there is now is the one to end.
destroy(i, kind) ==
  LET c == sessions[i] IN
  /\ op = NONE /\ tabs[i] # 0
  /\ conn' = IF c # NONE THEN Ended(c, "detach")
             ELSE IF pendingByKey[i] # NONE THEN [conn EXCEPT ![pendingByKey[i]].cancelled = TRUE] ELSE conn
  /\ ws' = Closed(IF c # NONE THEN {conn[c].socket} ELSE {})
  /\ sessions' = [sessions EXCEPT ![i] = NONE]
  /\ op' = [id |-> i, kind |-> kind, step |-> "await", pending |-> pendingByKey[i]]
  /\ pendingByKey' = [pendingByKey EXCEPT ![i] = NONE]
  /\ shells' = IF shells[i] = NONE THEN shells ELSE [shells EXCEPT ![i].condemned = TRUE]
  /\ UNCHANGED <<tabs, tabSet, attachments, cause, trouble>>

AwaitPending ==
  /\ op # NONE /\ op.step = "await"
  /\ op.pending # NONE => conn[op.pending].peer = "closed"
  /\ op' = [op EXCEPT !.step = "request"]
  /\ UNCHANGED <<tabs, tabSet, ws, sessions, pendingByKey, broker, conn, trouble>>

\* kill-session; a session that is not there is as good as destroyed.
destroy_unlocked(i, why) ==
  /\ shells' = [shells EXCEPT ![i] = NONE]
  /\ cause' = IF shells[i] = NONE THEN cause ELSE [cause EXCEPT ![i] = why]

\* Mutant: a request that fails is answered as done.
destroySession_unchecked ==
  /\ op # NONE /\ op.step = "request"
  /\ \/ destroy_unlocked(op.id, "user") /\ NoFault
     \/ Fault /\ UNCHANGED <<shells, cause>>
  /\ op' = [op EXCEPT !.step = "destroyed"]
  /\ UNCHANGED <<tabs, tabSet, ws, sessions, pendingByKey, attachments, conn>>

\* session.destroy at the broker, over a connection of its own.
destroySession ==
  /\ op # NONE /\ op.step = "request"
  /\ \/ destroy_unlocked(op.id, "user") /\ op' = [op EXCEPT !.step = "destroyed"] /\ NoFault
     \/ op' = NONE /\ Fault /\ UNCHANGED <<shells, cause>>
     \/ destroy_unlocked(op.id, "user") /\ op' = NONE /\ Fault
  /\ UNCHANGED <<tabs, tabSet, ws, sessions, pendingByKey, attachments, conn>>

\* The route goes on after the answer.
TabRoute ==
  /\ op # NONE /\ op.step = "destroyed"
  /\ IF op.kind = "delete" /\ tabs[op.id] # 0 THEN deleteTerminalTab(op.id) ELSE UNCHANGED <<tabs, tabSet>>
  /\ op' = NONE
  /\ UNCHANGED <<ws, sessions, pendingByKey, broker, conn, trouble>>

\* The API stops, letting go of its sessions, or dies.
ApiRestarts ==
  /\ Fault
  /\ \E frame \in {"detach", "eof"} :
       conn' = [c \in Conns |-> IF conn[c].peer \in {"opening", "open"} THEN Ended(c, frame)[c] ELSE conn[c]]
  /\ ws' = Closed({s \in Socks : ws[s].step # "new"})
  /\ sessions' = [i \in Ids |-> NONE] /\ pendingByKey' = [i \in Ids |-> NONE] /\ op' = NONE
  /\ UNCHANGED <<tabs, tabSet, broker>>

-----------------------------------------------------------------------------
(* The broker's end of a connection.                                        *)

Server(c, step) == [conn EXCEPT ![c].server = step]

\* handle_connection: one connection at a time holds a session name.
handle_connection(c) ==
  /\ conn[c].server = "accept"
  /\ IF conn[c].id \in attachments
       THEN conn' = Server(c, "refused") /\ UNCHANGED attachments
       ELSE conn' = Server(c, "named") /\ attachments' = attachments \cup {conn[c].id}
  /\ UNCHANGED <<api, shells, cause, trouble>>

\* A tmux client of the broker is attached to the shell.
Attached(i) == \E c \in Conns : conn[c].id = i /\ conn[c].server \in {"spawned", "run", "end"}

list_managed == {i \in Ids : shells[i] # NONE}

Idle(i) == ~shells[i].persistent /\ ~Attached(i) /\ shells[i].detached_at > 0

eviction_candidate ==
  {i \in list_managed : Idle(i) /\ \A j \in list_managed : Idle(j) => shells[i].detached_at <= shells[j].detached_at}

Latest == Max({0} \cup {shells[i].detached_at : i \in list_managed})

\* Mutant: an existing shell keeps its time of detachment until it is attached.
ensure_keeps_detached(c) ==
  LET i == conn[c].id IN
  /\ conn[c].server = "named" /\ NoFault
  /\ IF shells[i] # NONE THEN shells' = [shells EXCEPT ![i].persistent = conn[c].persistent] /\ UNCHANGED cause
     ELSE shells' = [shells EXCEPT ![i] = [persistent |-> conn[c].persistent, detached_at |-> 0, condemned |-> FALSE, again |-> FALSE]]
          /\ cause' = [cause EXCEPT ![i] = "none"]
  /\ conn' = Server(c, "ensured")
  /\ UNCHANGED <<api, attachments>>

\* ensure_session: mark the shell as taken, or make room and start one.
ensure_session(c) ==
  LET i == conn[c].id
      new == [persistent |-> conn[c].persistent, detached_at |-> 0, condemned |-> FALSE, again |-> FALSE] IN
  /\ conn[c].server = "named"
  /\ IF shells[i] # NONE
       THEN /\ shells' = [shells EXCEPT ![i].persistent = conn[c].persistent, ![i].detached_at = 0, ![i].again = TRUE]
            /\ conn' = Server(c, "ensured") /\ NoFault /\ UNCHANGED cause
     ELSE IF Cardinality(list_managed) < MaxSessions
       THEN /\ shells' = [shells EXCEPT ![i] = new] /\ cause' = [cause EXCEPT ![i] = "none"]
            /\ conn' = Server(c, "ensured") /\ NoFault
     ELSE IF eviction_candidate = {}
       THEN conn' = [conn EXCEPT ![c].server = "end", ![c].noted = TRUE] /\ NoFault /\ UNCHANGED <<shells, cause>>
     ELSE \E e \in eviction_candidate :
            /\ shells' = [shells EXCEPT ![e] = NONE, ![i] = new]
            /\ cause' = [cause EXCEPT ![e] = "evicted", ![i] = "none"]
            /\ conn' = Server(c, "ensured") /\ NoFault
  /\ UNCHANGED <<api, attachments>>

\* A tmux command of ensure_session, the PTY or the attach command fails.
OpenError(c) ==
  /\ conn[c].server \in {"named", "ensured"} /\ Fault
  /\ conn' = [conn EXCEPT ![c].server = "end", ![c].noted = TRUE]
  /\ UNCHANGED <<api, broker>>

\* pty::spawn starts the attach command.
spawn(c) ==
  /\ conn[c].server = "ensured"
  /\ conn' = Server(c, "spawned")
  /\ UNCHANGED <<api, broker, trouble>>

\* mark_attached, then the answer; without a shell the command fails.
mark_attached(c) ==
  /\ conn[c].server = "spawned"
  /\ IF shells[conn[c].id] = NONE THEN conn' = Server(c, "end") /\ UNCHANGED shells
     ELSE conn' = [conn EXCEPT ![c].server = "run", ![c].answered = TRUE] /\ shells' = [shells EXCEPT ![conn[c].id].detached_at = 0]
  /\ UNCHANGED <<api, attachments, cause, trouble>>

mark_detached(i) ==
  shells' = IF shells[i] = NONE THEN shells ELSE [shells EXCEPT ![i].detached_at = Latest + 1]

\* The loop of run_open_session: a close frame, the end of the stream, the
\* end of the attached shell, or the daemon's shutdown.
run_open_session(c) ==
  LET i == conn[c].id IN
  /\ conn[c].server = "run"
  /\ conn[c].peer = "closed" \/ shells[i] = NONE
  /\ conn' = [conn EXCEPT ![c].server = "end", ![c].noted = conn[c].sent \in {"detach", "destroy", "drop"}]
  /\ CASE conn[c].sent = "destroy" -> destroy_unlocked(i, "user")
       [] conn[c].sent = "drop" -> destroy_unlocked(i, IF shells[i] # NONE /\ shells[i].again THEN "dropped" ELSE "unused")
       [] conn[c].sent = "detach" -> mark_detached(i) /\ UNCHANGED cause
       [] OTHER -> UNCHANGED <<shells, cause>>
  /\ UNCHANGED <<api, attachments, trouble>>

\* The attach client is ended, the session marked detached unless it was
\* already or is gone, and only then the name is given up.
Leave(c) ==
  /\ conn[c].server = "end"
  /\ conn' = [conn EXCEPT ![c].server = "done", ![c].noted = FALSE, ![c].sent = "none", ![c].persistent = FALSE]
  /\ attachments' = attachments \ {conn[c].id}
  /\ IF conn[c].noted THEN UNCHANGED shells ELSE mark_detached(conn[c].id)
  /\ UNCHANGED <<api, cause, trouble>>

\* The shell's process ends by itself.
ShellExits(i) ==
  /\ shells[i] # NONE /\ Fault
  /\ destroy_unlocked(i, "exit")
  /\ UNCHANGED <<api, attachments, conn>>

\* The reaper ends the idle sessions whose time is up.
reap_expired ==
  /\ \E E \in SUBSET {i \in list_managed : Idle(i)} \ {{}} :
       /\ shells' = [i \in Ids |-> IF i \in E THEN NONE ELSE shells[i]]
       /\ cause' = [i \in Ids |-> IF i \in E THEN "reaped" ELSE cause[i]]
  /\ UNCHANGED <<api, attachments, conn, trouble>>

\* The daemon stops, leaving its sessions in order, or dies: tmux stays.
Shutdown ==
  /\ Fault
  /\ conn' = [c \in Conns |-> IF conn[c].server = "run" THEN Server(c, "end")[c] ELSE conn[c]]
  /\ \E c \in Conns : conn[c].server = "run"
  /\ UNCHANGED <<api, broker>>

BrokerDies ==
  /\ Fault
  /\ conn' = [c \in Conns |-> IF conn[c].server = "new" THEN conn[c] ELSE Server(c, "done")[c]]
  /\ attachments' = {}
  /\ UNCHANGED <<api, shells, cause>>

ShellNext ==
  \/ \E i \in Ids : \/ createTerminalTab(i) \/ initializeTerminalTabs(i) \/ activateTerminalTab(i)
                    \/ destroy(i, "restart") \/ destroy(i, "delete") \/ ShellExits(i)
  \/ \E s \in Socks : \/ detachConnection(s) \/ CloseMessage(s)
                      \/ \E i \in Ids : Connect(s, i) \/ \E j \in Ids : reset(s, i, j)
  \/ \E c \in Conns : \/ Opened(c) \/ OpenFails(c) \/ onExit(c) \/ handle_connection(c)
                      \/ ensure_session(c) \/ OpenError(c) \/ spawn(c) \/ mark_attached(c)
                      \/ run_open_session(c) \/ Leave(c)
  \/ AwaitPending \/ destroySession \/ TabRoute \/ reap_expired
  \/ ApiRestarts \/ Shutdown \/ BrokerDies

ShellSpec == ShellInit /\ [][ShellNext]_shellVars

-----------------------------------------------------------------------------

\* The reaper and the search for room leave alone a shell that a connection
\* has or is about to attach: from the moment ensure_session has marked it
\* until the connection is done, a shell only ends by itself or on request.
InUseShellsStay ==
  \A c \in Conns :
    conn[c].server \in {"ensured", "spawned", "run"} /\ shells[conn[c].id] = NONE
      => cause[conn[c].id] \notin {"reaped", "evicted"}

\* When the broker has answered a restart or a removal, the shell that ran
\* when it was requested has ended, whatever was being opened or closed at
\* the time (destroy, destroySession; the row is removed only after this).
AnsweredShellIsGone ==
  op # NONE /\ op.step = "destroyed" => shells[op.id] = NONE \/ ~shells[op.id].condemned

\* The shell of a registered tab, once it has been attached again, does not
\* end because a browser went away (detachConnection, Opened: the lease).
\* The code does not keep this in every case: README.md says when.
TabShellsSurvive == \A i \in Ids : tabs[i] # 0 => cause[i] # "dropped"

-----------------------------------------------------------------------------
(***************************************************************************)
(* One open terminal session on the wire: what the browser types goes from *)
(* the API's route through JSONL frames to the PTY of the termux broker,   *)
(* and what the shell prints comes back.  Frames travel on a byte stream   *)
(* and arrive in pieces: a frame is sent as its head and its end, the end  *)
(* standing for the newline.  A character is a number, of one byte or of   *)
(* two, and a byte is <<character, place>>; the base64 of a frame's bytes  *)
(* is as reversible as the bytes and is left out, its size limit is not.   *)
(***************************************************************************)
CONSTANTS
  Widths,       \* the width in bytes of each character typed, and of each printed
  MaxInput,     \* TERMUX_MAX_INPUT_BYTES, MAX_INPUT_BYTES
  MaxOutput,    \* MAX_OUTPUT_BYTES
  MaxResizes    \* bound on the resize messages

VARIABLES
  typed,        \* characters the browser has sent
  up,           \* the socket to the broker
  reader,       \* FrameReader.buffer
  process,      \* the PTY: bytes and size it was given, bytes not yet read, its end
  down,         \* the socket to the API
  pty,          \* TermuxTerminalPty and the handshake before it
  printed,      \* characters the shell has printed
  resizes

wireVars == <<typed, up, reader, process, down, pty, printed, resizes>>

Bytes(chars) == FlattenSeq([i \in DOMAIN chars |-> [k \in 1..Widths[chars[i]] |-> <<chars[i], k>>]])
Numbers(a, b) == [i \in 1..(b - a + 1) |-> a + i - 1]

WireInit ==
  /\ typed = 0 /\ printed = 0 /\ resizes = 0
  /\ up = <<>> /\ reader = <<>>
  /\ process = [input |-> <<>>, size |-> [cols |-> 120, rows |-> 32], unread |-> <<>>, alive |-> TRUE, served |-> TRUE,
                refused |-> FALSE]
  /\ down = <<[part |-> "head", frame |-> [kind |-> "response"]], [part |-> "end", frame |-> [kind |-> "response"]]>>
  /\ pty = [phase |-> "opening", frameBuffer |-> <<>>, pendingData |-> <<>>, utf8Decoder |-> <<>>, heard |-> <<>>]

encodeTermuxFrame(frame) == <<[part |-> "head", frame |-> frame], [part |-> "end", frame |-> frame]>>

\* The lines that are complete in a buffer, read as frames, and what is left in
\* it.  A line that lost its head is no frame.
Line(buffer, k) == IF k > 1 /\ buffer[k - 1].part = "head" THEN buffer[k].frame ELSE [kind |-> "broken"]
FramesIn(buffer) == LET ends == SelectSeq([k \in DOMAIN buffer |-> k], LAMBDA k : buffer[k].part = "end")
                    IN [i \in DOMAIN ends |-> Line(buffer, ends[i])]
Left(buffer) == IF buffer # <<>> /\ Last(buffer).part = "head" THEN <<Last(buffer)>> ELSE <<>>

-----------------------------------------------------------------------------
(* Input: the WebSocket message, the command frames, the PTY.               *)

Dimensions == [cols : {1, 2, 500, 501}, rows : {0, 1, 200, 201}]

\* terminalMessage: a size out of bounds makes the whole message invalid.
terminalDimension(n, min, max) == n \in min..max
terminalMessage(d) == terminalDimension(d.cols, 2, 500) /\ terminalDimension(d.rows, 1, 200)

validate_exclusive(d) == d.cols \in 2..499 /\ d.rows \in 1..199

validate_dimensions(d) == d.cols \in 2..500 /\ d.rows \in 1..200

Piece(bytes, k) ==
  SubSeq(bytes, (k - 1) * MaxInput + 1, IF k * MaxInput < Len(bytes) THEN k * MaxInput ELSE Len(bytes))

\* write: the bytes of a message in frames of at most MaxInput bytes.
write(chars) ==
  LET bytes == Bytes(chars)
      count == (Len(bytes) + MaxInput - 1) \div MaxInput
  IN FlattenSeq([k \in 1..count |-> encodeTermuxFrame([kind |-> "input", data |-> Piece(bytes, k)])])

Type(n) ==
  /\ pty.phase = "listening"
  /\ typed + n <= Len(Widths)
  /\ typed' = typed + n
  /\ up' = up \o write(Numbers(typed + 1, typed + n))
  /\ UNCHANGED <<reader, process, down, pty, printed, resizes>>

\* A message that is not understood ends the session.
Resize(d) ==
  /\ pty.phase = "listening"
  /\ resizes < MaxResizes
  /\ resizes' = resizes + 1
  /\ IF terminalMessage(d)
     THEN up' = up \o encodeTermuxFrame([kind |-> "resize", size |-> d, number |-> resizes]) /\ UNCHANGED pty
     ELSE pty' = [pty EXCEPT !.phase = "closed"] /\ UNCHANGED up
  /\ UNCHANGED <<typed, reader, process, down, printed>>

\* into_command and handle_session_frame: what the broker makes of a frame.
into_command(frame) ==
  \/ frame.kind = "input" /\ Len(frame.data) <= MaxInput
  \/ frame.kind = "resize" /\ validate_dimensions(frame.size)

handle_session_frame(p, frame) ==
  IF ~p.served THEN p
  ELSE IF ~into_command(frame) THEN [p EXCEPT !.served = FALSE, !.refused = TRUE]
  ELSE IF frame.kind = "input" THEN [p EXCEPT !.input = @ \o frame.data]
  ELSE [p EXCEPT !.size = frame.size]

read_next_anew(n) ==
  /\ process.served
  /\ n \in 1..Len(up)
  /\ LET buffer == SubSeq(up, 1, n)
     IN /\ reader' = <<>>
        /\ process' = FoldLeft(handle_session_frame, process, FramesIn(buffer))
  /\ up' = SubSeq(up, n + 1, Len(up))
  /\ UNCHANGED <<typed, down, pty, printed, resizes>>

\* read_next adds to the buffer that outlives the select! it is a branch of.
read_next(n) ==
  /\ process.served
  /\ n \in 1..Len(up)
  /\ LET buffer == reader \o SubSeq(up, 1, n)
     IN /\ reader' = Left(buffer)
        /\ process' = FoldLeft(handle_session_frame, process, FramesIn(buffer))
  /\ up' = SubSeq(up, n + 1, Len(up))
  /\ UNCHANGED <<typed, down, pty, printed, resizes>>

-----------------------------------------------------------------------------
(* Output: the PTY, the event frames, the listeners of the session.         *)

Prints ==
  /\ process.alive
  /\ printed < Len(Widths)
  /\ printed' = printed + 1
  /\ process' = [process EXCEPT !.unread = @ \o Bytes(<<printed + 1>>)]
  /\ UNCHANGED <<typed, up, reader, down, pty, resizes>>

\* read_chunk fills at most the output buffer, wherever that cuts a character.
read_chunk(n) ==
  /\ process.served
  /\ n \in 1..Len(process.unread)
  /\ n <= MaxOutput
  /\ down' = down \o encodeTermuxFrame([kind |-> "output", data |-> SubSeq(process.unread, 1, n)])
  /\ process' = [process EXCEPT !.unread = SubSeq(@, n + 1, Len(@))]
  /\ UNCHANGED <<typed, up, reader, pty, printed, resizes>>

\* The child exits, and select! may take that branch before the last read.
Exits == process.alive /\ process' = [process EXCEPT !.alive = FALSE]
         /\ UNCHANGED <<typed, up, reader, down, pty, printed, resizes>>

send_exit ==
  /\ process.served
  /\ ~process.alive
  /\ process' = [process EXCEPT !.served = FALSE]
  /\ down' = down \o encodeTermuxFrame([kind |-> "exit"])
  /\ UNCHANGED <<typed, up, reader, pty, printed, resizes>>

\* StringDecoder: the whole characters of the bytes, and the bytes left over.
WholeLength(bytes) ==
  IF bytes = <<>> \/ Last(bytes)[2] = Widths[Last(bytes)[1]] THEN Len(bytes) ELSE Len(bytes) - Last(bytes)[2]
Characters(bytes) == LET ends == SelectSeq(bytes, LAMBDA b : b[2] = Widths[b[1]])
                     IN [k \in DOMAIN ends |-> ends[k][1]]

decode_apart(p, data) ==
  LET n == WholeLength(data)
      said == Characters(SubSeq(data, 1, n))
  IN IF p.phase = "listening" THEN [p EXCEPT !.heard = @ \o said] ELSE [p EXCEPT !.pendingData = @ \o said]

decode(p, data) ==
  LET bytes == p.utf8Decoder \o data
      n == WholeLength(bytes)
      said == Characters(SubSeq(bytes, 1, n))
      rest == [p EXCEPT !.utf8Decoder = SubSeq(bytes, n + 1, Len(bytes))]
  IN IF p.phase = "listening" THEN [rest EXCEPT !.heard = @ \o said] ELSE [rest EXCEPT !.pendingData = @ \o said]

parseTermuxServerFrame(frame) == frame.kind \in {"response", "output", "exit"}

\* A line that does not parse, and a response after the first, fail the session.
handleEvent(p, frame) ==
  IF p.phase \in {"closed", "failed"} THEN p
  ELSE IF ~parseTermuxServerFrame(frame) \/ frame.kind = "response" THEN [p EXCEPT !.phase = "failed"]
  ELSE IF frame.kind = "exit" THEN [p EXCEPT !.phase = "closed"]
  ELSE decode(p, frame.data)

receive(n) ==
  LET buffer == pty.frameBuffer \o SubSeq(down, 1, n)
  IN /\ pty.phase \in {"opened", "listening"}
     /\ n \in 1..Len(down)
     /\ pty' = [FoldLeft(handleEvent, pty, FramesIn(buffer)) EXCEPT !.frameBuffer = Left(buffer)]
     /\ down' = SubSeq(down, n + 1, Len(down))
     /\ UNCHANGED <<typed, up, reader, process, printed, resizes>>

response_only(n) ==
  LET buffer == pty.frameBuffer \o SubSeq(down, 1, n)
      frames == FramesIn(buffer)
  IN /\ pty.phase = "opening"
     /\ n \in 1..Len(down)
     /\ pty' = IF frames = <<>> THEN [pty EXCEPT !.frameBuffer = buffer]
               ELSE [FoldLeft(handleEvent, [pty EXCEPT !.phase = "opened"], Tail(frames)) EXCEPT !.frameBuffer = <<>>]
     /\ down' = SubSeq(down, n + 1, Len(down))
     /\ UNCHANGED <<typed, up, reader, process, printed, resizes>>

\* The response to session.open; frames that came with it are kept for the PTY.
waitForResponseWithPending(n) ==
  LET buffer == pty.frameBuffer \o SubSeq(down, 1, n)
      frames == FramesIn(buffer)
  IN /\ pty.phase = "opening"
     /\ n \in 1..Len(down)
     /\ pty' = IF frames = <<>> THEN [pty EXCEPT !.frameBuffer = buffer]
               ELSE [FoldLeft(handleEvent, [pty EXCEPT !.phase = "opened"], Tail(frames)) EXCEPT
                       !.frameBuffer = Left(buffer)]
     /\ down' = SubSeq(down, n + 1, Len(down))
     /\ UNCHANGED <<typed, up, reader, process, printed, resizes>>

\* The session subscribes, and is handed what was decoded before.
onData ==
  /\ pty.phase = "opened"
  /\ pty' = [pty EXCEPT !.phase = "listening", !.heard = pty.pendingData, !.pendingData = <<>>]
  /\ UNCHANGED <<typed, up, reader, process, down, printed, resizes>>

WireNext ==
  \/ \E n \in 1..2 : Type(n)
  \/ \E d \in Dimensions : Resize(d)
  \/ \E n \in DOMAIN up : read_next(n)
  \/ Prints
  \/ \E n \in 1..MaxOutput : read_chunk(n)
  \/ Exits
  \/ send_exit
  \/ \E n \in DOMAIN down : receive(n) \/ waitForResponseWithPending(n)
  \/ onData

WireSpec == WireInit /\ [][WireNext]_wireVars

-----------------------------------------------------------------------------
WireTypeOK ==
  /\ typed \in 0..Len(Widths) /\ printed \in 0..Len(Widths)
  /\ pty.phase \in {"opening", "opened", "listening", "closed", "failed"}

\* The bytes of the frames of one kind that are on a wire or in a buffer.
Carried(tokens, kind) ==
  LET mine == SelectSeq(tokens, LAMBDA t : t.part = "end" /\ t.frame.kind = kind)
  IN FlattenSeq([k \in DOMAIN mine |-> mine[k].frame.data])

\* While a session is open nothing typed or printed is lost, repeated or put
\* in another order between the browser and the shell, however the streams are
\* cut into chunks, frames and characters: what has arrived and what is under
\* way is what was sent.
StreamsAreWhole ==
  /\ (pty.phase # "closed" /\ process.served) =>
       process.input \o Carried(reader \o up, "input") = Bytes(Numbers(1, typed))
  /\ (pty.phase # "closed" /\ process.alive) =>
       Bytes(pty.heard \o pty.pendingData) \o pty.utf8Decoder \o Carried(pty.frameBuffer \o down, "output")
         \o process.unread = Bytes(Numbers(1, printed))

\* Both ends take every frame the other sends: no chunking leaves a line that
\* does not parse, and the limits on sizes and on input that terminal.ts and
\* protocol.rs each state are the same.
FramesAreUnderstood == ~process.refused /\ pty.phase # "failed"
=============================================================================
