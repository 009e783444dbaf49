------------------------------ MODULE MCHostd ------------------------------
(*****************************************************************************)
(* The brokers of the host, hostd and termux, and the panels that use them,  *)
(* for TLC.  The domains of hostd hold a lock each and share no state but the*)
(* server, and none with the terminals, so a behaviour is about one of them: *)
(* `part' says which, and the others stay as they began.                     *)
(*****************************************************************************)
EXTENDS Integers, Sequences, FiniteSets

CONSTANTS d1, d2, d3, p1, p2, e1, n1, hs, c1, c2, bad, rejected, Missing, NONE

(* Wired settings: DHCP as an administrator keeps it, a static address, a     *)
(* static address without the gateway its default route needs, and off.       *)
Family(mode, address, gateway, default) ==
  [mode |-> mode, address |-> address, gateway |-> gateway, dnsMode |-> "automatic",
   dns |-> 0, default |-> default, metric |-> 100]

Off == Family("disabled", NONE, NONE, FALSE)

Wired(v4) == [enabled |-> TRUE, v4 |-> v4, v6 |-> Off]

Dhcp == Wired(Family("auto", NONE, NONE, TRUE))

EthConfigs ==
  {Wired(Family("static", "ip", "gw", TRUE)), Wired(Family("static", "ip", NONE, TRUE)),
   [Dhcp EXCEPT !.enabled = FALSE]}

EthExternal == {NONE, [config |-> Dhcp, advanced |-> FALSE]}

ApplySettings ==
  {[on |-> {"smb"}, grants |-> {"g1"}], [on |-> {"smb", "webdav"}, grants |-> {"g1", "g2"}]}

(* Share definitions a user may send: nested paths, shared and given ports,   *)
(* guests and writers.                                                        *)
ShareDirs == {<<>>, <<"d">>, <<"d", "e">>, <<"f">>}

NewShare(id, path, smb, webdav, ftp, nfs, dlna) ==
  [id |-> id, name |-> NONE, path |-> path, smb |-> smb, webdav |-> webdav, ftp |-> ftp,
   nfs |-> nfs, dlna |-> dlna]

Smb(ro, guest) == [ro |-> ro, guest |-> guest]

WebDav(ro, guest, port, prefix) == [ro |-> ro, guest |-> guest, port |-> port, prefix |-> prefix]

Ftp(ro, guest, port, passive) == [ro |-> ro, guest |-> guest, port |-> port, passive |-> passive]

Nfs(squash) == [ro |-> FALSE, squash |-> squash, cidrs |-> {"c"}]

UserShares ==
  {NewShare("s", <<>>, Smb(TRUE, FALSE), NONE, NONE, NONE, [media |-> "audio", bind |-> "eth0"]),
   NewShare("t", <<"d", "e">>, Smb(FALSE, TRUE), WebDav(TRUE, TRUE, NONE, NONE), NONE, NONE, NONE),
   NewShare("s", <<"d">>, Smb(TRUE, TRUE), NONE, Ftp(FALSE, FALSE, 1, NONE), NONE, NONE),
   NewShare("u", <<"d">>, NONE, WebDav(FALSE, FALSE, 1, "t"), NONE, Nfs(FALSE), NONE),
   NewShare("v", <<"d", "e">>, NONE, WebDav(FALSE, TRUE, 2, NONE), Ftp(TRUE, TRUE, NONE, <<4, 5>>),
            Nfs(TRUE), NONE)}

ShareInputs ==
  [enabled : {NONE, TRUE}, username : {NONE, "other"}, password : {"keep", "set"},
   shares : {NONE, <<>>} \cup {<<s>> : s \in UserShares} \cup {<<s, t>> : s, t \in UserShares}]

(* config.toml without shares, and with two that its reader accepts.          *)
ShareFiles ==
  {[enabled |-> FALSE, shares |-> <<>>],
   [enabled |-> TRUE,
    shares |-> <<NewShare("p", NONE, NONE, NONE, NONE, NONE, NONE),
                 NewShare("q", <<"d">>, NONE, WebDav(TRUE, TRUE, 1, NONE), Ftp(TRUE, TRUE, 1, NONE),
                          NONE, NONE)>>]}

ServerRequest(domain, action, caller, frame, confirmed) ==
  [domain |-> domain, action |-> action, caller |-> caller, frame |-> frame,
   confirmed |-> confirmed]

ServerRequests ==
  [r \in {"r1", "r2", "r3"} |->
     CASE r = "r1" -> ServerRequest("network", "apply", "api", "whole", TRUE)
       [] r = "r2" -> ServerRequest("network", "ping", "api", "whole", TRUE)
       [] r = "r3" -> ServerRequest("power", "reboot", "api", "whole", FALSE)]

VARIABLE part     \* the component this behaviour is about

VARIABLES
  e_desired, e_file, e_loaded, e_ext, e_dev, e_checkpoint, e_txn, e_clock,
  e_hostd, e_op, e_before, e_lost, e_trouble

VARIABLES
  w_file, w_loaded, w_active, w_radio, w_recovery, w_op, w_answer, w_from,
  w_requests

VARIABLES
  d_conf, d_baseline, d_txn, d_running, d_ran, d_byHand, d_upd, d_told,
  d_updates, d_edits

VARIABLES
  p_member, p_array, p_mounted, p_fstab, p_inventory, p_op, p_ops

VARIABLES
  s_saved, s_proposals, s_call, s_hostd, s_files, s_svc, s_account, s_acl,
  s_aclState, s_dirty, s_applies

VARIABLES
  i_file, i_stored, i_operation, i_dirs, i_host, i_credentials, i_trouble

VARIABLES
  h_heard, h_conn, h_reply, h_queues, h_loop, h_socket, h_done, h_ticks,
  h_kills

VARIABLES
  t_tabs, t_tabSet, t_ws, t_sessions, t_pendingByKey, t_conn, t_op,
  t_attachments, t_shells, t_cause, t_trouble

VARIABLES
  b_sets, b_changes, b_stored, b_panel, b_calls, b_actions, b_trouble

VARIABLES
  x_typed, x_up, x_reader, x_process, x_down, x_pty, x_printed, x_resizes

VARIABLES
  f_family, f_desired, f_hotspot, f_dialog, f_answer, f_submits

Eth == INSTANCE EthernetChange WITH
  desired <- e_desired, file <- e_file, loaded <- e_loaded, ext <- e_ext,
  dev <- e_dev, checkpoint <- e_checkpoint, txn <- e_txn, clock <- e_clock,
  hostd <- e_hostd, op <- e_op, before <- e_before, lost <- e_lost,
  trouble <- e_trouble, Devices <- {d1}, Configs <- EthConfigs,
  External <- EthExternal, MaxApplies <- 2, MaxTrouble <- 2

Wifi == INSTANCE WifiProfiles WITH
  file <- w_file, loaded <- w_loaded, active <- w_active, radio <- w_radio,
  recovery <- w_recovery, op <- w_op, answer <- w_answer, from <- w_from,
  requests <- w_requests, Foreign <- {e1}, Clients <- {n1}, Hotspot <- hs,
  Contents <- {c1, c2}, MaxRequests <- 3

Daemon == INSTANCE DockerDaemonConfig WITH
  conf <- d_conf, baseline <- d_baseline, txn <- d_txn, running <- d_running,
  ran <- d_ran, byHand <- d_byHand, upd <- d_upd, told <- d_told,
  updates <- d_updates, edits <- d_edits,
  Contents <- {c1, c2, bad, rejected}, Bad <- {bad}, Rejected <- {rejected},
  MaxUpdates <- 2, MaxEdits <- 1

Pool == INSTANCE StoragePool WITH
  member <- p_member, array <- p_array, mounted <- p_mounted,
  fstab <- p_fstab, inventory <- p_inventory, op <- p_op, ops <- p_ops,
  Disks <- {d1, d2, d3}, Pools <- {p1, p2}, Minimum <- 2, MaxOps <- 3

Share == INSTANCE Shares WITH
  saved <- s_saved, proposals <- s_proposals, call <- s_call,
  hostd <- s_hostd, files <- s_files, svc <- s_svc, account <- s_account,
  acl <- s_acl, aclState <- s_aclState, dirty <- s_dirty,
  applies <- s_applies, Inputs <- {}, Files <- {}, Dirs <- {},
  WebDavPort <- 1, FtpPort <- 2, PassivePorts <- <<3, 4>>, MaxTrouble <- 0,
  Settings <- ApplySettings, ALL_SERVICES <- <<"smb", "webdav">>,
  Stopped <- {"webdav"}, MaxAccounts <- 1, MaxApplies <- 2, file <- NONE,
  stored <- NONE, operation <- NONE, dirs <- NONE, host <- NONE,
  credentials <- NONE, trouble <- NONE

Input == INSTANCE Shares WITH
  file <- i_file, stored <- i_stored, operation <- i_operation,
  dirs <- i_dirs, host <- i_host, credentials <- i_credentials,
  trouble <- i_trouble, Inputs <- ShareInputs, Files <- ShareFiles,
  Dirs <- ShareDirs, WebDavPort <- 1, FtpPort <- 2, PassivePorts <- <<3, 4>>,
  MaxTrouble <- 1, Settings <- {}, ALL_SERVICES <- <<>>, Stopped <- {},
  MaxAccounts <- 0, MaxApplies <- 0, saved <- NONE, proposals <- NONE,
  call <- NONE, hostd <- NONE, files <- NONE, svc <- NONE, account <- NONE,
  acl <- NONE, aclState <- NONE, dirty <- NONE, applies <- NONE

Srv == INSTANCE HostdServer WITH
  heard <- h_heard, conn <- h_conn, reply <- h_reply, queues <- h_queues,
  loop <- h_loop, socket <- h_socket, done <- h_done, ticks <- h_ticks,
  kills <- h_kills, Requests <- {"r1", "r2", "r3"},
  Request <- ServerRequests, MAX_CONNECTIONS <- 1, MaxTicks <- 1,
  MaxKills <- 1

Term == INSTANCE Terminal WITH
  tabs <- t_tabs, tabSet <- t_tabSet, ws <- t_ws, sessions <- t_sessions,
  pendingByKey <- t_pendingByKey, conn <- t_conn, op <- t_op,
  attachments <- t_attachments, shells <- t_shells, cause <- t_cause,
  trouble <- t_trouble, Widths <- <<>>, MaxInput <- 1, MaxOutput <- 1,
  MaxResizes <- 0, Ids <- {"i", "j"}, Socks <- {"s", "t"}, Conns <- {1, 2},
  MaxSessions <- 1, MaxTabs <- 1, MaxTrouble <- 1, typed <- NONE, up <- NONE,
  reader <- NONE, process <- NONE, down <- NONE, pty <- NONE,
  printed <- NONE, resizes <- NONE

Tabs == INSTANCE TerminalPanel WITH
  sets <- b_sets, changes <- b_changes, stored <- b_stored, panel <- b_panel,
  calls <- b_calls, actions <- b_actions, trouble <- b_trouble,
  Roots <- {"r", "s"}, Calls <- {1, 2}, MaxSessions <- 2, MaxChanges <- 2,
  MaxActions <- 4, MaxTrouble <- 1, Browsers <- {}, Sockets <- {},
  MaxUses <- 0, MaxFaults <- 0, view <- NONE, socket <- NONE,
  activeSocket <- NONE, uses <- NONE, faults <- NONE

Wire == INSTANCE Terminal WITH
  typed <- x_typed, up <- x_up, reader <- x_reader, process <- x_process,
  down <- x_down, pty <- x_pty, printed <- x_printed, resizes <- x_resizes,
  Ids <- {}, Socks <- {}, Conns <- {}, MaxSessions <- 0, MaxTabs <- 0,
  MaxTrouble <- 0, Widths <- <<1, 2, 2>>, MaxInput <- 2, MaxOutput <- 2,
  MaxResizes <- 1, tabs <- NONE, tabSet <- NONE, ws <- NONE,
  sessions <- NONE, pendingByKey <- NONE, conn <- NONE, op <- NONE,
  attachments <- NONE, shells <- NONE, cause <- NONE, trouble <- NONE

Form == INSTANCE NetworkPanel WITH
  family <- f_family, desired <- f_desired, hotspot <- f_hotspot,
  dialog <- f_dialog, answer <- f_answer, submits <- f_submits,
  Profile <- NONE, Hotspot <- NONE, MaxChanges <- 0, MaxTrouble <- 0,
  Unread <- NONE, MaxEdits <- 2, MaxSubmits <- 2, feed <- NONE, nm <- NONE,
  hostd <- NONE, reader <- NONE, stream <- NONE, told <- NONE, reply <- NONE,
  panel <- NONE, request <- NONE, changes <- NONE, trouble <- NONE

Edit == INSTANCE NetworkPanel WITH
  family <- f_family, desired <- f_desired, hotspot <- f_hotspot,
  dialog <- f_dialog, answer <- f_answer, submits <- f_submits,
  Profile <- NONE, Hotspot <- NONE, MaxChanges <- 0, MaxTrouble <- 0,
  Unread <- NONE, MaxEdits <- 3, MaxSubmits <- 1, feed <- NONE, nm <- NONE,
  hostd <- NONE, reader <- NONE, stream <- NONE, told <- NONE, reply <- NONE,
  panel <- NONE, request <- NONE, changes <- NONE, trouble <- NONE

ethernetVars ==
  <<e_desired, e_file, e_loaded, e_ext, e_dev, e_checkpoint, e_txn, e_clock,
    e_hostd, e_op, e_before, e_lost, e_trouble>>

wifiVars ==
  <<w_file, w_loaded, w_active, w_radio, w_recovery, w_op, w_answer, w_from,
    w_requests>>

dockerVars ==
  <<d_conf, d_baseline, d_txn, d_running, d_ran, d_byHand, d_upd, d_told,
    d_updates, d_edits>>

storageVars ==
  <<p_member, p_array, p_mounted, p_fstab, p_inventory, p_op, p_ops>>

sharesVars ==
  <<s_saved, s_proposals, s_call, s_hostd, s_files, s_svc, s_account, s_acl,
    s_aclState, s_dirty, s_applies>>

inputsVars ==
  <<i_file, i_stored, i_operation, i_dirs, i_host, i_credentials, i_trouble>>

serverVars ==
  <<h_heard, h_conn, h_reply, h_queues, h_loop, h_socket, h_done, h_ticks,
    h_kills>>

terminalVars ==
  <<t_tabs, t_tabSet, t_ws, t_sessions, t_pendingByKey, t_conn, t_op,
    t_attachments, t_shells, t_cause, t_trouble>>

tabsVars ==
  <<b_sets, b_changes, b_stored, b_panel, b_calls, b_actions, b_trouble>>

wireVars ==
  <<x_typed, x_up, x_reader, x_process, x_down, x_pty, x_printed, x_resizes>>

formsVars ==
  <<f_family, f_desired, f_hotspot, f_dialog, f_answer, f_submits>>

mcVars ==
  <<part, ethernetVars, wifiVars, dockerVars, storageVars, sharesVars,
    inputsVars, serverVars, terminalVars, tabsVars, wireVars, formsVars>>

MCInit ==
  /\ part \in {"ethernet", "wifi", "docker", "storage", "shares", "inputs",
               "server", "terminal", "tabs", "wire", "forms", "edits"}
  /\ Eth!Init
  /\ part # "ethernet" => e_ext = [d \in {d1} |-> NONE]
  /\ Wifi!Init
  /\ part # "wifi" => w_active = NONE
  /\ Daemon!Init
  /\ Pool!Init
  /\ Share!ApplyInit
  /\ Input!InputInit
  /\ part # "inputs" => ~i_file.enabled
  /\ Srv!Init
  /\ Term!ShellInit
  /\ Tabs!TabsInit
  /\ part # "tabs" => b_panel = Tabs!Reset("r", FALSE) /\ b_stored = [q \in {"r", "s"} |-> NONE]
  /\ Wire!WireInit
  /\ Form!FormInit
  /\ part \notin {"forms", "edits"} =>
       f_family = 4 /\ f_desired = [config |-> Form!default_config(TRUE), revision |-> 0]

OnlyEth ==
  /\ part = "ethernet"
  /\ UNCHANGED <<part, wifiVars, dockerVars, storageVars, sharesVars,
                 inputsVars, serverVars, terminalVars, tabsVars, wireVars,
                 formsVars>>

OnlyWifi ==
  /\ part = "wifi"
  /\ UNCHANGED <<part, ethernetVars, dockerVars, storageVars, sharesVars,
                 inputsVars, serverVars, terminalVars, tabsVars, wireVars,
                 formsVars>>

OnlyDaemon ==
  /\ part = "docker"
  /\ UNCHANGED <<part, ethernetVars, wifiVars, storageVars, sharesVars,
                 inputsVars, serverVars, terminalVars, tabsVars, wireVars,
                 formsVars>>

OnlyPool ==
  /\ part = "storage"
  /\ UNCHANGED <<part, ethernetVars, wifiVars, dockerVars, sharesVars,
                 inputsVars, serverVars, terminalVars, tabsVars, wireVars,
                 formsVars>>

OnlyShare ==
  /\ part = "shares"
  /\ UNCHANGED <<part, ethernetVars, wifiVars, dockerVars, storageVars,
                 inputsVars, serverVars, terminalVars, tabsVars, wireVars,
                 formsVars>>

OnlyInput ==
  /\ part = "inputs"
  /\ UNCHANGED <<part, ethernetVars, wifiVars, dockerVars, storageVars,
                 sharesVars, serverVars, terminalVars, tabsVars, wireVars,
                 formsVars>>

OnlySrv ==
  /\ part = "server"
  /\ UNCHANGED <<part, ethernetVars, wifiVars, dockerVars, storageVars,
                 sharesVars, inputsVars, terminalVars, tabsVars, wireVars,
                 formsVars>>

OnlyTerm ==
  /\ part = "terminal"
  /\ UNCHANGED <<part, ethernetVars, wifiVars, dockerVars, storageVars,
                 sharesVars, inputsVars, serverVars, tabsVars, wireVars,
                 formsVars>>

OnlyTabs ==
  /\ part = "tabs"
  /\ UNCHANGED <<part, ethernetVars, wifiVars, dockerVars, storageVars,
                 sharesVars, inputsVars, serverVars, terminalVars, wireVars,
                 formsVars>>

OnlyWire ==
  /\ part = "wire"
  /\ UNCHANGED <<part, ethernetVars, wifiVars, dockerVars, storageVars,
                 sharesVars, inputsVars, serverVars, terminalVars, tabsVars,
                 formsVars>>

OnlyForm ==
  /\ part = "forms"
  /\ UNCHANGED <<part, ethernetVars, wifiVars, dockerVars, storageVars,
                 sharesVars, inputsVars, serverVars, terminalVars, tabsVars,
                 wireVars>>

OnlyEdit ==
  /\ part = "edits"
  /\ UNCHANGED <<part, ethernetVars, wifiVars, dockerVars, storageVars,
                 sharesVars, inputsVars, serverVars, terminalVars, tabsVars,
                 wireVars>>

MCNext ==
  \/ OnlyEth /\ Eth!Next
  \/ OnlyWifi /\ Wifi!Next
  \/ OnlyDaemon /\ Daemon!Next
  \/ OnlyPool /\ Pool!Next
  \/ OnlyShare /\ Share!ApplyNext
  \/ OnlyInput /\ Input!InputNext
  \/ OnlySrv /\ Srv!Next
  \/ OnlyTerm /\ Term!ShellNext
  \/ OnlyTabs /\ Tabs!TabsNext
  \/ OnlyWire /\ Wire!WireNext
  \/ OnlyForm /\ Form!FormNext
  \/ OnlyEdit /\ Edit!FormNext

MCSpec == MCInit /\ [][MCNext]_mcVars

-----------------------------------------------------------------------------
\* A request that fails leaves what was there: a wired change that was rolled
\* back has its profiles and connections back (EthernetChange); a Wi-Fi request that reports a
\* rollback has undone its changes and the hotspot remembers the client it
\* replaced (WifiProfiles); a Docker daemon that rejects its configuration finds
\* the revision to go back to, one it has run with (DockerDaemonConfig).
FailedRequestsAreUndone ==
  /\ Eth!RollbackRestores
  /\ Wifi!FailureIsUndone /\ Wifi!HotspotRemembersClient
  /\ Daemon!RollbackIsPossible /\ Daemon!BaselineWasApplied




\* A shell that a tab or a connection uses is not ended, one whose removal was
\* answered is gone (Terminal), and its input and output arrive whole and in order
\* (Terminal).
ShellsAreKept ==
  /\ part = "terminal" => Term!InUseShellsStay /\ Term!AnsweredShellIsGone
  /\ part = "wire" => Wire!StreamsAreWhole

\* Every component keeps the types of its variables, or the inductive invariant
\* its proofs rest on.
Typed ==
  /\ part = "wifi" => Wifi!TypeOK
  /\ part = "inputs" => Input!InputTypeOK
  /\ part = "server" => Srv!IInv
  /\ part = "tabs" => Tabs!TabsTypeOK
  /\ part = "wire" => Wire!WireTypeOK
  /\ part = "forms" => Form!FormTypeOK


\* A panel does not go back: refreshing never brings back older tabs
\* (TerminalPanel), and saving replaces the settings that were opened
\* (NetworkPanel).
PanelsGoForward == Tabs!RefreshNeverGoesBack /\ Form!SaveReplacesWhatWasOpened
=============================================================================
