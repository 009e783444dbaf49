--------------------------- MODULE TerminalPanel ---------------------------
(***************************************************************************)
(* The terminals of the web application: the tabs of the panel, and the    *)
(* connection of the tab it shows.                                         *)
(***************************************************************************)
EXTENDS Integers, Sequences, FiniteSets, SequencesExt

-----------------------------------------------------------------------------
(***************************************************************************)
(* The terminal panel of one browser and the tab rows it shows: the tabs   *)
(* of the panel's NAS root are read again whenever the panel is opened or  *)
(* the window gets the focus, and every answer to a tab operation carries  *)
(* the whole state of the root.  Answers arrive in any order; the counters *)
(* requestVersionRef and actionVersionRef of the code, which tell whether  *)
(* a call is still the latest, are the "latest" mark of the call.  A state *)
(* is stamped with the number of changes made before it was read.          *)
(***************************************************************************)
CONSTANTS
  Roots,        \* NAS roots
  Calls,        \* requests that can be on their way at once, numbers
  MaxSessions,  \* terminal.maxSessions
  MaxChanges,   \* bound on the changes of the tab rows
  MaxActions,   \* bound on what the user does
  MaxTrouble,   \* bound on failing requests
  NONE

VARIABLES
  sets,         \* root -> its terminal_tab_sets row and terminal_tabs rows
  changes,      \* changes of those rows so far; the next tab id
  stored,       \* root -> the session id an older panel kept in localStorage
  panel,        \* the state and the refs of LocalTerminalPanel
  calls,        \* call -> the request and its answer
  actions, trouble

panelVars == <<sets, changes, stored, panel, calls, actions, trouble>>

Legacy == 0
Ids == 0..MaxChanges
IdsOf(tabs) == {tabs[k].id : k \in DOMAIN tabs}
Count == Cardinality(UNION {IdsOf(sets[r].tabs) : r \in Roots})

Reset(root, active) ==
  [root |-> root, active |-> active, tabState |-> NONE, settled |-> NONE, loadError |-> FALSE,
   actionError |-> FALSE, pending |-> NONE, visited |-> {}, rename |-> NONE, close |-> NONE]

TabsInit ==
  /\ sets = [r \in Roots |-> [initialized |-> FALSE, tabs |-> <<>>, activeTabId |-> NONE]]
  /\ changes = 0
  /\ \E r \in Roots :
       /\ stored \in {[q \in Roots |-> NONE], [q \in Roots |-> IF q = r THEN Legacy ELSE NONE]}
       /\ panel = Reset(r, FALSE)
  /\ calls = [c \in Calls |-> NONE]
  /\ actions = 0 /\ trouble = 0

-----------------------------------------------------------------------------
(* The routes and the tab rows.                                             *)

insertTerminalTab(set, r, id) ==
  [initialized |-> TRUE, activeTabId |-> id,
   tabs |-> Append(set.tabs, [id |-> id, root |-> r, customTitle |-> NONE])]

\* The tab after the removed one takes over, the tab before it if it was last.
Replacement(tabs, k) ==
  IF k < Len(tabs) THEN tabs[k + 1].id ELSE IF k > 1 THEN tabs[k - 1].id ELSE NONE

Position(tabs, id) == CHOOSE k \in DOMAIN tabs : tabs[k].id = id

deleteTerminalTab(set, id) ==
  LET k == Position(set.tabs, id)
  IN [set EXCEPT !.tabs = RemoveAt(@, k),
                 !.activeTabId = IF @ = id THEN Replacement(set.tabs, k) ELSE @]

renameTerminalTab(set, id, title) ==
  [set EXCEPT !.tabs[Position(set.tabs, id)].customTitle = title]

Fresh == changes + 1

\* What a request makes of the rows of root r; nothing when it is refused.
createTerminalTab(r) ==
  {insertTerminalTab(sets[r], r, Fresh) : n \in {Count} \cap 0..(MaxSessions - 1)}

initializeTerminalTabs(r, id) ==
  LET known == sets[r].initialized /\ (id = NONE \/ id \in IdsOf(sets[r].tabs))
      elsewhere == \E q \in Roots \ {r} : id \in IdsOf(sets[q].tabs)
  IN IF known THEN {sets[r]}
     ELSE IF elsewhere \/ Count >= MaxSessions THEN {}
     ELSE {insertTerminalTab(sets[r], r, IF id = NONE THEN Fresh ELSE id)}

activateTerminalTab(set, id) == [set EXCEPT !.activeTabId = id]

\* The routes: a tab that is gone is answered with 404.
Outcome(call) ==
  LET set == sets[call.root]
      found == call.id \in IdsOf(set.tabs)
  IN CASE call.kind = "get" -> {set}
       [] call.kind = "initialize" -> initializeTerminalTabs(call.root, call.id)
       [] call.kind = "create" -> createTerminalTab(call.root)
       [] call.kind = "activate" -> {activateTerminalTab(set, call.id) : x \in {TRUE} \cap {found}}
       [] call.kind = "rename" -> {renameTerminalTab(set, call.id, "t") : x \in {TRUE} \cap {found}}
       [] call.kind = "restart" -> {set : x \in {TRUE} \cap {found}}
       [] call.kind = "close" -> {deleteTerminalTab(set, call.id) : x \in {TRUE} \cap {found}}

getTerminalTabState(set, at) ==
  [initialized |-> set.initialized, tabs |-> set.tabs, activeTabId |-> set.activeTabId, at |-> at]

\* The API handles a request in one transaction.  Restarting and closing also
\* end the shell and fail when the broker does; any answer may be lost.
Handle(c) ==
  /\ calls[c] # NONE
  /\ calls[c].answer = "none"
  /\ \E set \in Outcome(calls[c]) :
       /\ sets' = [sets EXCEPT ![calls[c].root] = set]
       /\ changes' = IF set = sets[calls[c].root] THEN changes ELSE changes + 1
       /\ changes' <= MaxChanges
       /\ calls' = [calls EXCEPT ![c].answer = "state", ![c].state = getTerminalTabState(set, changes')]
  /\ UNCHANGED <<stored, panel, actions, trouble>>

Refuse(c) ==
  /\ calls[c] # NONE
  /\ calls[c].answer = "none"
  /\ Outcome(calls[c]) = {}
  /\ calls' = [calls EXCEPT ![c].answer = "error"]
  /\ UNCHANGED <<sets, changes, stored, panel, actions, trouble>>

Lose(c) ==
  /\ calls[c] # NONE
  /\ calls[c].answer # "error"
  /\ trouble < MaxTrouble
  /\ trouble' = trouble + 1
  /\ calls' = [calls EXCEPT ![c].answer = "error"]
  /\ UNCHANGED <<sets, changes, stored, panel, actions>>

\* Another browser creates, selects or closes a tab.
OtherBrowser ==
  /\ changes < MaxChanges
  /\ \E r \in Roots, kind \in {"create", "activate", "close"} : \E id \in Ids :
       \E set \in Outcome([kind |-> kind, root |-> r, id |-> id]) :
         /\ set # sets[r]
         /\ sets' = [sets EXCEPT ![r] = set]
  /\ changes' = changes + 1
  /\ UNCHANGED <<stored, panel, calls, actions, trouble>>

-----------------------------------------------------------------------------
(* The panel.                                                               *)

IsRefresh(call) == call.kind \in {"get", "initialize"}

\* Calls made before the one now made: no longer the latest of their sort.
Outdate(all, refreshes) ==
  [c \in Calls |-> IF all[c] # NONE /\ IsRefresh(all[c]) = refreshes
                   THEN [all[c] EXCEPT !.latest = FALSE] ELSE all[c]]

Send(all, kind, root, id, before) ==
  LET c == CHOOSE d \in Calls : all[d] = NONE /\ \A e \in Calls : all[e] = NONE => d <= e
  IN [Outdate(all, kind = "get") EXCEPT
        ![c] = [kind |-> kind, root |-> root, id |-> id, latest |-> TRUE, before |-> before,
                answer |-> "none", state |-> NONE]]

Free == \E c \in Calls : calls[c] = NONE
refreshTabs(all, root) == Send(all, "get", root, NONE, NONE)

\* The root of the panel changes: both version counters move on, the whole
\* state is reset, and an open panel reads the tabs of the new root.
ChangeRoot(r) ==
  LET outdated == Outdate(Outdate(calls, TRUE), FALSE)
  IN /\ Free
     /\ r # panel.root
     /\ panel' = Reset(r, panel.active)
     /\ calls' = IF panel.active THEN refreshTabs(outdated, r) ELSE outdated

ToggleActive ==
  /\ Free
  /\ panel' = [panel EXCEPT !.active = ~@]
  /\ calls' = IF panel.active THEN calls ELSE refreshTabs(calls, panel.root)

handleFocus ==
  /\ Free
  /\ panel.active
  /\ calls' = refreshTabs(calls, panel.root)
  /\ UNCHANGED panel

\* The tabs on the screen: none while the root's first read is on its way.
Tabs == IF panel.settled = panel.root /\ panel.tabState # NONE THEN panel.tabState.tabs ELSE <<>>

applyState(p, state) ==
  [p EXCEPT !.tabState = state,
            !.visited = @ \cup ({state.activeTabId} \ {NONE})]

Act(p, kind, id) ==
  /\ Free
  /\ panel.active
  /\ panel.pending = NONE
  /\ panel' = [p EXCEPT !.actionError = FALSE, !.pending = kind]
  /\ calls' = Send(calls, kind, panel.root, id, panel.tabState)

selectTab(id) ==
  /\ id \in IdsOf(Tabs)
  /\ panel.tabState.activeTabId # id
  /\ Act(applyState(panel, [panel.tabState EXCEPT !.activeTabId = id]), "activate", id)

createTab ==
  /\ panel.settled = panel.root
  /\ panel.tabState # NONE
  /\ Len(Tabs) < MaxSessions
  /\ Act(panel, "create", NONE)

restartTab(id) ==
  /\ id \in IdsOf(Tabs)
  /\ panel.tabState.activeTabId = id
  /\ Act(panel, "restart", id)

openDialog(id) ==
  /\ id \in IdsOf(Tabs)
  /\ panel.rename = NONE /\ panel.close = NONE /\ panel.pending = NONE
  /\ \/ panel' = [panel EXCEPT !.rename = id, !.actionError = FALSE]
     \/ panel' = [panel EXCEPT !.close = id, !.actionError = FALSE]
  /\ UNCHANGED calls

submitRename == panel.rename # NONE /\ Act(panel, "rename", panel.rename)
closeTab == panel.close # NONE /\ Act(panel, "close", panel.close)

shouldInitializeTerminalTabs(state, id) ==
  ~state.initialized \/ (id # NONE /\ id \notin IdsOf(state.tabs))


Current(call) == call.latest /\ panel.root = call.root

\* The continuation of refreshTabs after each of its two requests.
refreshAnswered(c) ==
  LET call == calls[c]
      legacy == stored[call.root]
      again == call.answer = "state" /\ call.kind = "get" /\ shouldInitializeTerminalTabs(call.state, legacy)
  IN /\ call # NONE
     /\ IsRefresh(call)
     /\ call.answer # "none"
     /\ calls' = [calls EXCEPT ![c] =
          IF again THEN [call EXCEPT !.kind = "initialize", !.id = legacy, !.answer = "none", !.state = NONE]
          ELSE NONE]
     /\ stored' = IF call.answer = "state" /\ ~again THEN [stored EXCEPT ![call.root] = NONE] ELSE stored
     /\ panel' = IF again \/ ~Current(call) THEN panel
                 ELSE IF call.answer = "error"
                 THEN [panel EXCEPT !.loadError = TRUE, !.settled = call.root]
                 ELSE [applyState(panel, call.state) EXCEPT !.loadError = FALSE, !.settled = call.root]
     /\ UNCHANGED <<sets, changes, actions, trouble>>

\* An answer applied without outdating the reads that are on their way.
action_answered_only(c) ==
  LET call == calls[c]
      done == call.answer = "state"
  IN /\ call # NONE
     /\ ~IsRefresh(call)
     /\ call.answer # "none"
     /\ calls' = [calls EXCEPT ![c] = NONE]
     /\ panel' = IF ~Current(call) THEN panel
                 ELSE [(IF done THEN applyState(panel, call.state) ELSE panel) EXCEPT
                         !.pending = NONE, !.actionError = ~done]
     /\ UNCHANGED <<sets, changes, stored, actions, trouble>>

\* The continuation of a tab operation; a refused selection is taken back.
actionAnswered(c) ==
  LET call == calls[c]
      done == call.answer = "state"
      shown == IF done THEN applyState(panel, call.state)
               ELSE IF call.kind = "activate" THEN [panel EXCEPT !.tabState = call.before] ELSE panel
  IN /\ call # NONE
     /\ ~IsRefresh(call)
     /\ call.answer # "none"
     /\ calls' = [(IF Current(call) /\ done THEN Outdate(calls, TRUE) ELSE calls) EXCEPT ![c] = NONE]
     /\ panel' = IF ~Current(call) THEN panel
                 ELSE [shown EXCEPT !.pending = NONE, !.actionError = ~done,
                         !.rename = IF done /\ call.kind = "rename" THEN NONE ELSE @,
                         !.close = IF done /\ call.kind = "close" THEN NONE ELSE @,
                         !.visited = IF done /\ call.kind = "close" THEN @ \ {call.id} ELSE @]
     /\ UNCHANGED <<sets, changes, stored, actions, trouble>>

User ==
  /\ actions < MaxActions
  /\ actions' = actions + 1
  /\ \/ \E r \in Roots : ChangeRoot(r)
     \/ ToggleActive
     \/ handleFocus
     \/ createTab
     \/ \E id \in Ids : selectTab(id) \/ restartTab(id) \/ openDialog(id)
     \/ submitRename
     \/ closeTab
  /\ UNCHANGED <<sets, changes, stored, trouble>>

TabsNext ==
  \/ User
  \/ \E c \in Calls : Handle(c) \/ Refuse(c) \/ Lose(c) \/ refreshAnswered(c) \/ actionAnswered(c)
  \/ OtherBrowser

TabsSpec == TabsInit /\ [][TabsNext]_panelVars

-----------------------------------------------------------------------------
TabsTypeOK ==
  /\ changes \in 0..MaxChanges
  /\ panel.root \in Roots /\ panel.settled \in Roots \cup {NONE}
  /\ panel.visited \subseteq Ids
  /\ \A r \in Roots : sets[r].activeTabId \in Ids \cup {NONE}

\* The panel shows tabs of its own root only, and the tab it shows as active
\* is one of them: an answer to a call made for another root, or before the
\* root was left and chosen again, changes nothing (LocalTerminalPanel).
ShowsItsRoot ==
  /\ \A k \in DOMAIN Tabs : Tabs[k].root = panel.root
  /\ (Tabs # <<>>) => panel.tabState.activeTabId \in IdsOf(Tabs)

\* A panel goes back to an older state of its root's tabs only when an
\* operation of its user ends: re-reading the tabs on focus never undoes what
\* a later answer has shown, in whatever order the answers come (the version
\* counters requestVersionRef and actionVersionRef).
RefreshNeverGoesBack ==
  [][(/\ panel'.root = panel.root
      /\ panel.tabState # NONE
      /\ panel'.tabState # NONE
      /\ panel'.tabState.at < panel.tabState.at) => (panel.pending # NONE /\ panel'.pending = NONE)]_panelVars

-----------------------------------------------------------------------------
(***************************************************************************)
(* Browsers that show the same terminal tab: the WebSocket of each one's   *)
(* TerminalSessionView, its reconnection, and the API's session, to which  *)
(* one socket at a time is attached.  Opening the session, its awaits and  *)
(* the shell behind it are the module Terminal; here acquiring and         *)
(* attaching are one step.  Output and input are left out.                 *)
(***************************************************************************)
CONSTANTS
  Browsers,
  Sockets,      \* connections that exist at once; reused when both ends are closed
  MaxUses,      \* bound on what users do and on shells that exit
  MaxFaults     \* bound on lost connections, failing requests and broker restarts

VARIABLES
  view,         \* browser -> the refs and the effect of TerminalSessionView
  socket,       \* connection -> [browser, client end, server end, messages under way]
  activeSocket, \* the socket attached to the API's session
  uses, faults

viewVars == <<view, socket, activeSocket, uses, faults>>

Unused == [browser |-> NONE, client |-> "closed", server |-> "closed", messages |-> <<>>]
Closed == [active |-> FALSE, stopped |-> FALSE, timer |-> FALSE, socket |-> NONE,
           status |-> "connecting", restarting |-> FALSE]

ViewTypeOK ==
  /\ \A b \in Browsers :
       /\ view[b].socket \in Sockets \cup {NONE}
       /\ view[b].status \in {"connecting", "connected", "disconnected", "error", "exited", "takenOver"}
  /\ \A s \in Sockets : /\ socket[s].client \in {"open", "closed"}
                        /\ socket[s].server \in {"new", "attached", "closed"}
  /\ activeSocket \in Sockets \cup {NONE}

ViewInit ==
  /\ view = [b \in Browsers |-> Closed]
  /\ socket = [s \in Sockets |-> Unused]
  /\ activeSocket = NONE
  /\ uses = 0 /\ faults = 0

FreeSockets == {s \in Sockets : socket[s].client = "closed" /\ socket[s].server = "closed"}
NextSocket == CHOOSE s \in FreeSockets : \A t \in FreeSockets : s <= t

-----------------------------------------------------------------------------
(* The browser.                                                             *)

\* The cleanup of the effect: the timer is cleared and the socket closed.
Cleanup(b) ==
  [s \in Sockets |-> IF s = view[b].socket THEN [socket[s] EXCEPT !.client = "closed", !.messages = <<>>]
                     ELSE socket[s]]

\* The effect runs again for an active tab: it starts with connect().
connect(b) ==
  /\ FreeSockets # {}
  /\ view' = [view EXCEPT ![b] = [@ EXCEPT !.active = TRUE, !.stopped = FALSE, !.timer = FALSE,
                                           !.socket = NextSocket, !.status = "connecting"]]
  /\ socket' = [Cleanup(b) EXCEPT ![NextSocket] =
                  [browser |-> b, client |-> "open", server |-> "new", messages |-> <<>>]]

Activate(b) == ~view[b].active /\ connect(b)

Deactivate(b) ==
  /\ view[b].active
  /\ view' = [view EXCEPT ![b].active = FALSE, ![b].stopped = FALSE, ![b].timer = FALSE, ![b].socket = NONE]
  /\ socket' = Cleanup(b)

\* The button of the notice of a tab taken over.
reconnect(b) ==
  /\ view[b].active
  /\ view[b].status = "takenOver"
  /\ connect(b)

retryTimer(b) ==
  /\ view[b].timer
  /\ connect(b)
  /\ UNCHANGED <<activeSocket, uses, faults>>


onMessage(v, message) ==
  CASE message = "ready" -> [v EXCEPT !.status = "connected"]
    [] message = "error" -> [v EXCEPT !.status = "error"]
    [] message = "exit" -> [v EXCEPT !.stopped = TRUE, !.status = "exited"]
    [] message = "taken_over" -> [v EXCEPT !.stopped = TRUE, !.status = "takenOver"]
    [] message = "close" -> [v EXCEPT !.socket = NONE,
                                      !.timer = ~v.stopped,
                                      !.status = IF v.stopped THEN @ ELSE "disconnected"]

Arrives(s) ==
  LET b == socket[s].browser
      message == Head(socket[s].messages)
  IN /\ socket[s].messages # <<>>
     /\ socket' = [socket EXCEPT ![s].messages = Tail(@),
                                 ![s].client = IF message = "close" THEN "closed" ELSE @]
     /\ view' = IF view[b].socket = s THEN [view EXCEPT ![b] = onMessage(@, message)] ELSE view
     /\ UNCHANGED <<activeSocket, uses, faults>>

\* The connection is lost: the browser sees the close, the API finds out later.
Drops(s) ==
  /\ socket[s].client = "open"
  /\ faults < MaxFaults
  /\ faults' = faults + 1
  /\ socket' = [socket EXCEPT ![s].client = "closed", ![s].messages = <<>>]
  /\ view' = IF view[socket[s].browser].socket = s
             THEN [view EXCEPT ![socket[s].browser] = onMessage(@, "close")] ELSE view
  /\ UNCHANGED <<activeSocket, uses>>

-----------------------------------------------------------------------------
(* The API.                                                                 *)

\* The session sends a last message and closes its socket.
SendAndClose(all, s, last) ==
  [t \in Sockets |-> IF t = s /\ s # NONE
     THEN [all[t] EXCEPT !.server = "closed",
                         !.messages = IF all[t].client = "open" THEN @ \o last \o <<"close">> ELSE <<>>]
     ELSE all[t]]

\* GET /api/terminal: the session is acquired and the socket attached to it;
\* the socket attached before is told and closed.
attach(s) ==
  /\ socket[s].server = "new"
  /\ socket[s].client = "open"
  /\ socket' = [SendAndClose(socket, activeSocket, <<"taken_over">>) EXCEPT
                  ![s].server = "attached", ![s].messages = <<"ready">>]
  /\ activeSocket' = s
  /\ UNCHANGED <<view, uses, faults>>

AttachFails(s) ==
  /\ socket[s].server = "new"
  /\ socket[s].client = "open"
  /\ faults < MaxFaults
  /\ faults' = faults + 1
  /\ socket' = SendAndClose(socket, s, <<"error">>)
  /\ UNCHANGED <<view, activeSocket, uses>>


\* The close, or the missing pong, of a socket: only the attached one ends the session.
detachConnection(s) ==
  /\ socket[s].client = "closed"
  /\ socket[s].server # "closed"
  /\ socket' = [socket EXCEPT ![s].server = "closed"]
  /\ activeSocket' = IF activeSocket = s THEN NONE ELSE activeSocket
  /\ UNCHANGED <<view, uses, faults>>

\* The shell exits, which its viewer is told; the broker goes away, which is
\* recoverable and only closes the socket.
ShellExits ==
  /\ activeSocket # NONE
  /\ socket' = SendAndClose(socket, activeSocket, <<"exit">>)
  /\ activeSocket' = NONE
  /\ UNCHANGED view

BrokerRestarts ==
  /\ activeSocket # NONE
  /\ faults < MaxFaults
  /\ faults' = faults + 1
  /\ socket' = SendAndClose(socket, activeSocket, <<>>)
  /\ activeSocket' = NONE
  /\ UNCHANGED <<view, uses>>

\* restartShown: the API disconnects the session of the tab, and the view connects
\* again when the answer arrives; an inactive view only when it is shown again.
restartShown(b) ==
  /\ view[b].active
  /\ ~view[b].restarting
  /\ view' = [view EXCEPT ![b].restarting = TRUE]
  /\ socket' = SendAndClose(socket, activeSocket, <<>>)
  /\ activeSocket' = NONE

Restarted(b) ==
  /\ view[b].restarting
  /\ IF view[b].active
     THEN /\ FreeSockets # {}
          /\ view' = [view EXCEPT ![b] = [@ EXCEPT !.restarting = FALSE, !.stopped = FALSE, !.timer = FALSE,
                                                   !.socket = NextSocket, !.status = "connecting"]]
          /\ socket' = [Cleanup(b) EXCEPT ![NextSocket] =
                          [browser |-> b, client |-> "open", server |-> "new", messages |-> <<>>]]
     ELSE view' = [view EXCEPT ![b].restarting = FALSE] /\ UNCHANGED socket
  /\ UNCHANGED <<activeSocket, uses, faults>>

ViewUser ==
  /\ uses < MaxUses
  /\ uses' = uses + 1
  /\ UNCHANGED faults
  /\ \/ \E b \in Browsers : /\ Activate(b) \/ Deactivate(b) \/ reconnect(b)
                            /\ UNCHANGED activeSocket
     \/ \E b \in Browsers : restartShown(b)
     \/ ShellExits

ViewNext ==
  \/ ViewUser
  \/ \E b \in Browsers : retryTimer(b) \/ Restarted(b)
  \/ \E s \in Sockets : Arrives(s) \/ Drops(s) \/ attach(s) \/ AttachFails(s) \/ detachConnection(s)
  \/ BrokerRestarts

\* Timers fire, messages arrive, and the API answers connections and closes.
ViewFairness ==
  /\ \A b \in Browsers : WF_viewVars(retryTimer(b)) /\ WF_viewVars(Restarted(b))
  /\ \A s \in Sockets : WF_viewVars(Arrives(s)) /\ WF_viewVars(attach(s)) /\ WF_viewVars(detachConnection(s))

ViewSpec == ViewInit /\ [][ViewNext]_viewVars /\ ViewFairness

-----------------------------------------------------------------------------
\* A view that says "connected" is the one attached to the session, or the
\* message or close that will tell it otherwise is on its way: a tab taken
\* over, closed or disconnected elsewhere is never shown as connected for good.
ConnectedIsAttached ==
  \A b \in Browsers :
    (view[b].active /\ view[b].status = "connected") =>
      /\ view[b].socket # NONE
      /\ activeSocket = view[b].socket \/ socket[view[b].socket].messages # <<>>

\* Once users leave the tab alone every view of it ends up connected or with a
\* notice to act on: browsers do not take the session from each other for ever,
\* and a lost connection is made again (scheduleReconnect, taken_over).
Settled ==
  \A b \in Browsers : view[b].active => view[b].status \in {"connected", "exited", "takenOver"}

\* See Settled: the views come to rest.
ViewsSettle == <>[]Settled
=============================================================================
