----------------------------- MODULE MCProgress -----------------------------
(*****************************************************************************)
(* What must happen in the end, for TLC, on instances that are smaller than  *)
(* those of the safety runs.  A behaviour is about one component: `part'     *)
(* says which, and the others stay as they began.                            *)
(*****************************************************************************)
EXTENDS FileBatches, Integers, Sequences, FiniteSets, TLC

CONSTANTS b1, b2, pa, pb, pc, qa, tb, none, Blank, Unread, NONE

MCBatches == {b1, b2}
MCPaths == {pa, pb, pc, qa, tb}
Row(o, s, d) == [op |-> o, src |-> s, dst |-> d]

(* A move and a trash, and a move of another file to the same target.         *)
Separate == b1 :> <<Row("move", pa, qa), Row("trash", pb, tb)>> @@ b2 :> <<Row("move", pc, qa)>>

(* Two requests that move the same file to the same directory.                *)
Shared == b1 :> <<Row("move", pa, qa)>> @@ b2 :> <<Row("move", pa, qa)>>

(* A wired port: DHCP, a static address, and switched off.                    *)
Family(mode, address, gateway, default) ==
  [mode |-> mode, address |-> address, gateway |-> gateway, dnsMode |-> "automatic",
   dns |-> 0, default |-> default, metric |-> 100]

Wired(v4) == [enabled |-> TRUE, v4 |-> v4, v6 |-> Family("disabled", NONE, NONE, FALSE)]

Dhcp == Wired(Family("auto", NONE, NONE, TRUE))

EthConfigs == {Wired(Family("static", "ip", "gw", TRUE)), [Dhcp EXCEPT !.enabled = FALSE]}

(* A change that takes the network lock, a ping, and a reboot not confirmed.  *)
ServerRequests ==
  [r \in {"r1", "r2", "r3"} |->
     [domain |-> IF r = "r3" THEN "power" ELSE "network", caller |-> "api", frame |-> "whole",
      action |-> CASE r = "r1" -> "apply" [] r = "r2" -> "ping" [] r = "r3" -> "reboot",
      confirmed |-> r # "r3"]]

(* config.toml with one root below /zos/data, and with another and a second.  *)
Zos(path) == <<"zos">> \o path

Root(id, path) == [id |-> id, path |-> Zos(<<"data">> \o path), policy |-> NONE]

Configured(roots) ==
  [env |-> [environment |-> NONE, root |-> <<"zos">>, nasRoots |-> NONE, hostdSocket |-> NONE,
            vodSocket |-> NONE],
   file |-> [environment |-> "production", root |-> <<"zos">>, nasRoots |-> roots,
             hostdSocket |-> NONE, vodSocket |-> NONE, vodState |-> NONE, retryBase |-> NONE,
             retryMax |-> NONE, vmStorage |-> NONE, isoRoots |-> {}, repository |-> NONE,
             staging |-> NONE, backupEnabled |-> NONE]]

OneRoot == Configured(<<Root("a", <<"a">>)>>)

TwoRoots == Configured(<<Root("a", <<"b">>), Root("b", <<"a">>)>>)

DaemonDirs ==
  [hostd |-> Zos(<<"state">>), player |-> Zos(<<"state", "vod-player">>), downloader |-> Zos(<<"state">>)]

IndexScope == [p \in {".", "d", "a"} |-> {"a"}]

VARIABLE part     \* the component this behaviour is about

VARIABLES
  e_desired, e_file, e_loaded, e_ext, e_dev, e_checkpoint, e_txn, e_clock,
  e_hostd, e_op, e_before, e_lost, e_trouble

VARIABLES
  h_heard, h_conn, h_reply, h_queues, h_loop, h_socket, h_done, h_ticks,
  h_kills

VARIABLES
  n_feed, n_nm, n_hostd, n_reader, n_stream, n_told, n_reply, n_panel,
  n_request, n_changes, n_trouble

VARIABLES
  v_c, v_pc, v_queue, v_events, v_env, v_sessions, v_trouble

VARIABLES
  i_disk, i_stamp, i_mounted, i_rows, i_legacy, i_content, i_queue, i_due,
  i_requested, i_channel, i_pending, i_work, i_run, i_reported, i_missed,
  i_changes, i_trouble

VARIABLES
  k_locks, k_runs, k_repo, k_procs, k_maint, k_restores, k_health,
  k_readiness, k_alerts, k_ops, k_mounted, k_tickets, k_trouble

VARIABLES
  c_config, c_edits, c_loaded, c_source, c_nas_roots, c_readiness, c_checking

VARIABLES
  t_view, t_socket, t_activeSocket, t_uses, t_faults

Eth == INSTANCE EthernetChange WITH
  desired <- e_desired, file <- e_file, loaded <- e_loaded, ext <- e_ext,
  dev <- e_dev, checkpoint <- e_checkpoint, txn <- e_txn, clock <- e_clock,
  hostd <- e_hostd, op <- e_op, before <- e_before, lost <- e_lost,
  trouble <- e_trouble, Devices <- {"eth0"}, Configs <- EthConfigs,
  External <- {NONE, [config |-> Dhcp, advanced |-> FALSE]}, MaxApplies <- 2,
  MaxTrouble <- 1

Srv == INSTANCE HostdServer WITH
  heard <- h_heard, conn <- h_conn, reply <- h_reply, queues <- h_queues,
  loop <- h_loop, socket <- h_socket, done <- h_done, ticks <- h_ticks,
  kills <- h_kills, Requests <- {"r1", "r2", "r3"},
  Request <- ServerRequests, MAX_CONNECTIONS <- 1, MaxTicks <- 1,
  MaxKills <- 0

Net == INSTANCE NetworkPanel WITH
  feed <- n_feed, nm <- n_nm, hostd <- n_hostd, reader <- n_reader,
  stream <- n_stream, told <- n_told, reply <- n_reply, panel <- n_panel,
  request <- n_request, changes <- n_changes, trouble <- n_trouble,
  Profile <- "c", Hotspot <- "h", MaxChanges <- 1, MaxTrouble <- 1,
  MaxEdits <- 0, MaxSubmits <- 0, family <- NONE, desired <- NONE,
  hotspot <- NONE, dialog <- NONE, answer <- NONE, submits <- NONE

Vod == INSTANCE VodPlayer WITH
  c <- v_c, pc <- v_pc, queue <- v_queue, events <- v_events, env <- v_env,
  sessions <- v_sessions, trouble <- v_trouble, Media <- {"m"},
  MaxSessions <- 2, MaxQueue <- 1, MaxTrouble <- 1, MaxEvents <- 2

Idx == INSTANCE Indexer WITH
  disk <- i_disk, stamp <- i_stamp, mounted <- i_mounted, rows <- i_rows,
  legacy <- i_legacy, content <- i_content, queue <- i_queue, due <- i_due,
  requested <- i_requested, channel <- i_channel, pending <- i_pending,
  work <- i_work, run <- i_run, reported <- i_reported, missed <- i_missed,
  changes <- i_changes, trouble <- i_trouble, Files <- {"a"},
  Dirs <- {".", "d"}, Scope <- IndexScope, RootFiles <- {}, Ignored <- {},
  Workers <- {"daemon"}, ScanConcurrency <- 2, Retries <- 1, MaxChanges <- 1,
  MaxTrouble <- 1

Health == INSTANCE Backup WITH
  locks <- k_locks, runs <- k_runs, repo <- k_repo, procs <- k_procs,
  maint <- k_maint, restores <- k_restores, health <- k_health,
  readiness <- k_readiness, alerts <- k_alerts, ops <- k_ops,
  mounted <- k_mounted, tickets <- k_tickets, trouble <- k_trouble,
  Roots <- {"r"}, Procs <- {1, 2},
  Kinds <- {"daily", "weekly", "check", "restore", "init"}, MaxRuns <- 1,
  MaxTrouble <- 1

Conf == INSTANCE Configuration WITH
  config <- c_config, edits <- c_edits, loaded <- c_loaded,
  source <- c_source, nas_roots <- c_nas_roots, readiness <- c_readiness,
  checking <- c_checking, Configurations <- {OneRoot, TwoRoots},
  WorkingDir <- <<"srv">>, DaemonDir <- DaemonDirs, MaxEdits <- 1,
  SettingRoots <- {}, MaxPatches <- 0, Null <- NONE, rows <- NONE,
  enabled <- NONE, running <- NONE, fresh <- NONE, docker <- NONE,
  provider <- NONE, patches <- NONE

View == INSTANCE TerminalPanel WITH
  view <- t_view, socket <- t_socket, activeSocket <- t_activeSocket,
  uses <- t_uses, faults <- t_faults, Browsers <- {"x", "y"},
  Sockets <- {1, 2}, MaxUses <- 4, MaxFaults <- 1, Roots <- {}, Calls <- {},
  MaxSessions <- 0, MaxChanges <- 0, MaxActions <- 0, MaxTrouble <- 0,
  sets <- NONE, changes <- NONE, stored <- NONE, panel <- NONE,
  calls <- NONE, actions <- NONE, trouble <- NONE

batchesVars ==
  <<job, item, done, note, order, posting, ops, trashRows, fs, moved, runner,
    current, busy, crashes>>

ethernetVars ==
  <<e_desired, e_file, e_loaded, e_ext, e_dev, e_checkpoint, e_txn, e_clock,
    e_hostd, e_op, e_before, e_lost, e_trouble>>

serverVars ==
  <<h_heard, h_conn, h_reply, h_queues, h_loop, h_socket, h_done, h_ticks,
    h_kills>>

panelVars ==
  <<n_feed, n_nm, n_hostd, n_reader, n_stream, n_told, n_reply, n_panel,
    n_request, n_changes, n_trouble>>

playerVars ==
  <<v_c, v_pc, v_queue, v_events, v_env, v_sessions, v_trouble>>

indexVars ==
  <<i_disk, i_stamp, i_mounted, i_rows, i_legacy, i_content, i_queue, i_due,
    i_requested, i_channel, i_pending, i_work, i_run, i_reported, i_missed,
    i_changes, i_trouble>>

healthVars ==
  <<k_locks, k_runs, k_repo, k_procs, k_maint, k_restores, k_health,
    k_readiness, k_alerts, k_ops, k_mounted, k_tickets, k_trouble>>

rootsVars ==
  <<c_config, c_edits, c_loaded, c_source, c_nas_roots, c_readiness,
    c_checking>>

viewsVars ==
  <<t_view, t_socket, t_activeSocket, t_uses, t_faults>>

mcVars ==
  <<part, batchesVars, ethernetVars, serverVars, panelVars, playerVars,
    indexVars, healthVars, rootsVars, viewsVars>>

MCInit ==
  /\ part \in {"batches", "ethernet", "server", "panel", "player", "index",
               "health", "roots", "views"}
  /\ Init
  /\ Eth!Init
  /\ part # "ethernet" => e_ext = [d \in {"eth0"} |-> NONE]
  /\ Srv!Init
  /\ Net!PanelInit
  /\ part # "panel" => n_feed = "wifi" /\ n_nm.active = NONE
  /\ Vod!Init
  /\ Idx!Init
  /\ part # "index" => i_legacy = {}
  /\ Health!Init
  /\ Conf!ConfigInit
  /\ part # "roots" => c_config = OneRoot
  /\ View!ViewInit
  /\ n_feed = "ethernet" => n_nm.active = NONE

OnlyBatch ==
  /\ part = "batches"
  /\ UNCHANGED <<part, ethernetVars, serverVars, panelVars, playerVars,
                 indexVars, healthVars, rootsVars, viewsVars>>

OnlyEth ==
  /\ part = "ethernet"
  /\ UNCHANGED <<part, batchesVars, serverVars, panelVars, playerVars,
                 indexVars, healthVars, rootsVars, viewsVars>>

OnlySrv ==
  /\ part = "server"
  /\ UNCHANGED <<part, batchesVars, ethernetVars, panelVars, playerVars,
                 indexVars, healthVars, rootsVars, viewsVars>>

OnlyNet ==
  /\ part = "panel"
  /\ UNCHANGED <<part, batchesVars, ethernetVars, serverVars, playerVars,
                 indexVars, healthVars, rootsVars, viewsVars>>

OnlyVod ==
  /\ part = "player"
  /\ UNCHANGED <<part, batchesVars, ethernetVars, serverVars, panelVars,
                 indexVars, healthVars, rootsVars, viewsVars>>

OnlyIdx ==
  /\ part = "index"
  /\ UNCHANGED <<part, batchesVars, ethernetVars, serverVars, panelVars,
                 playerVars, healthVars, rootsVars, viewsVars>>

OnlyHealth ==
  /\ part = "health"
  /\ UNCHANGED <<part, batchesVars, ethernetVars, serverVars, panelVars,
                 playerVars, indexVars, rootsVars, viewsVars>>

OnlyConf ==
  /\ part = "roots"
  /\ UNCHANGED <<part, batchesVars, ethernetVars, serverVars, panelVars,
                 playerVars, indexVars, healthVars, viewsVars>>

OnlyView ==
  /\ part = "views"
  /\ UNCHANGED <<part, batchesVars, ethernetVars, serverVars, panelVars,
                 playerVars, indexVars, healthVars, rootsVars>>

MCNext ==
  \/ OnlyBatch /\ Next
  \/ OnlyEth /\ Eth!Next
  \/ OnlySrv /\ Srv!Next
  \/ OnlyNet /\ Net!PanelNext
  \/ OnlyVod /\ Vod!Next
  \/ OnlyIdx /\ Idx!Next
  \/ OnlyHealth /\ Health!Next
  \/ OnlyConf /\ Conf!ConfigNext
  \/ OnlyView /\ View!ViewNext

(* The fairness of each component's own specification.  Only one of them      *)
(* moves, so the n-th conditions of all are one condition here.               *)
MCFairness ==
  /\ WF_mcVars(\/ OnlyBatch /\ RunnerStep
               \/ OnlyEth /\ Eth!HostdRuns
               \/ OnlySrv /\ Srv!HostdRuns("r1")
               \/ OnlyNet /\ Net!Sampling
               \/ OnlyVod /\ Vod!Start
               \/ OnlyIdx /\ Idx!DaemonRuns
               \/ OnlyHealth /\ Health!ProcStep(1)
               \/ OnlyConf /\ Conf!ReadRoots
               \/ OnlyView /\ View!retryTimer("x"))
  /\ WF_mcVars(\/ OnlyBatch /\ CancelQueuedItems(b1)
               \/ OnlyEth /\ Eth!DeadlinePasses
               \/ OnlySrv /\ Srv!HostdRuns("r2")
               \/ OnlyNet /\ Net!EventSourceOpens
               \/ OnlyVod /\ Vod!attempt_start
               \/ OnlyIdx /\ Idx!WorkerRuns("daemon")
               \/ OnlyHealth /\ Health!ProcStep(2)
               \/ OnlyConf /\ Conf!upsertRootReadiness
               \/ OnlyView /\ View!retryTimer("y"))
  /\ WF_mcVars(\/ OnlyBatch /\ CancelQueuedItems(b2)
               \/ OnlySrv /\ Srv!HostdRuns("r3")
               \/ OnlyNet /\ Net!EventArrives
               \/ OnlyVod /\ Vod!StartsPlayer
               \/ OnlyIdx /\ Idx!Mount
               \/ OnlyHealth /\ Health!MaintStep
               \/ OnlyView /\ View!Restarted("x"))
  /\ WF_mcVars(\/ OnlyBatch /\ Start
               \/ OnlyNet /\ Net!Reads("get")
               \/ OnlyVod /\ Vod!TickRetries
               \/ OnlyIdx /\ Idx!IntervalPasses
               \/ OnlyHealth /\ Health!HealthStep
               \/ OnlyView /\ View!Restarted("y"))
  /\ WF_mcVars(\/ OnlyNet /\ Net!refreshSummary
               \/ OnlyVod /\ Vod!Repair
               \/ OnlyHealth /\ Health!OpsRowExpires("health")
               \/ OnlyView /\ View!Arrives(1))
  /\ WF_mcVars(\/ OnlyHealth /\ Health!OpsRowExpires("maintenance")
               \/ OnlyView /\ View!Arrives(2))
  /\ \A s \in {1, 2} :
       WF_mcVars(OnlyView /\ View!attach(s)) /\ WF_mcVars(OnlyView /\ View!detachConnection(s))

MCSpec == MCInit /\ [][MCNext]_mcVars /\ MCFairness

(* The batches alone.                                                         *)
BatchInit == part = "batches" /\ MCInit

BatchSpec == BatchInit /\ [][MCNext]_mcVars

-----------------------------------------------------------------------------

\* Every recovery of the video player ends, although mpv may exit again and again:
\* the ticks retry until the film plays, or what is wanted is given up.
RecoveryEnds == Vod!RecoveryEnds

\* Every component keeps the types of its variables.
Typed ==
  /\ part = "panel" => Net!PanelTypeOK
  /\ part = "views" => View!ViewTypeOK

=============================================================================
