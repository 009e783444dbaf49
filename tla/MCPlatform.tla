----------------------------- MODULE MCPlatform -----------------------------
(*****************************************************************************)
(* Migrations, settings and configuration for TLC.  They share no state, so  *)
(* a behaviour is about one of them: `part' says which, and the others stay  *)
(* as they began.                                                            *)
(*****************************************************************************)
EXTENDS Migrations

CONSTANTS p1, p2, Blank, Null

(* A database that is new, or of an earlier version and in use.               *)
Databases ==
  {[version |-> 0, wants |-> {}]} \cup
  {[version |-> v, wants |-> w] : v \in {4, 10, 18, 22, 24},
     w \in {{"running", "event_first", "user", "agent.message", "delete_pool", "rejected"},
            {"pending", "approved", "vm_operation", "waiting_approval", "proposed", "user",
             "agent.message"}}}

(* Configurations: the environment's variables and config.toml.               *)
Zos(path) == <<"zos">> \o path

Root(id, path) == [id |-> id, path |-> path, policy |-> NONE]

Data(name) == Zos(<<"data", name>>)

Env ==
  [environment |-> NONE, root |-> <<"zos">>, nasRoots |-> NONE, hostdSocket |-> NONE,
   vodSocket |-> NONE]

File ==
  [environment |-> "production", root |-> <<"zos">>, nasRoots |-> <<Root("a", Data("a"))>>,
   hostdSocket |-> NONE, vodSocket |-> NONE, vodState |-> NONE, retryBase |-> NONE,
   retryMax |-> NONE, vmStorage |-> NONE, isoRoots |-> {}, repository |-> NONE, staging |-> NONE,
   backupEnabled |-> NONE]

Usual == [env |-> Env, file |-> File]

Backed == [File EXCEPT !.repository = Zos(<<"data", "backup", "restic">>)]

Files ==
  {File,
   [File EXCEPT !.nasRoots = <<>>, !.isoRoots = {Zos(<<"iso", "x">>)}],
   [File EXCEPT !.nasRoots = <<Root("a", Data("b")), Root(NONE, NONE)>>,
                !.hostdSocket = <<".", "h.sock">>],
   [Backed EXCEPT !.nasRoots = <<Root("a", Data("a")), Root("b", Zos(<<"data", "a", "b">>))>>],
   [Backed EXCEPT !.nasRoots = <<Root("a", Data("a")), Root("a", Data("b"))>>],
   [Backed EXCEPT !.staging = Zos(<<"data", "a", "staging">>)],
   [Backed EXCEPT !.repository = Zos(<<"data", "a", "restic">>), !.hostdSocket = Blank],
   [File EXCEPT !.vodSocket = Blank, !.retryBase = 2, !.retryMax = 2]}

Envs ==
  {[Env EXCEPT !.nasRoots = <<Blank, [id |-> NONE, path |-> Data("b")],
                              [id |-> "b", path |-> Data("a")]>>],
   [Env EXCEPT !.nasRoots = <<Blank>>, !.hostdSocket = <<"run", "h.sock">>,
               !.vodSocket = <<"tmp", "v.sock">>]}

Development ==
  [env |-> [Env EXCEPT !.root = NONE],
   file |-> [File EXCEPT !.environment = "development", !.root = <<".", ".zos", "dev-root">>,
                         !.nasRoots = <<>>]]

Configs ==
  {[env |-> Env, file |-> f] : f \in Files} \cup {[env |-> e, file |-> File] : e \in Envs}
    \cup {Development}

DaemonDirs ==
  [hostd |-> Zos(<<"state">>), player |-> Zos(<<"state", "vod-player">>), downloader |-> Zos(<<"state">>)]

VARIABLE part     \* the component this behaviour is about

VARIABLES
  s_rows, s_enabled, s_running, s_fresh, s_docker, s_provider, s_patches

VARIABLES
  c_config, c_edits, c_loaded, c_source, c_nas_roots, c_readiness, c_checking

Conf == INSTANCE Configuration WITH
  rows <- s_rows, enabled <- s_enabled, running <- s_running,
  fresh <- s_fresh, docker <- s_docker, provider <- s_provider,
  patches <- s_patches, config <- c_config, edits <- c_edits,
  loaded <- c_loaded, source <- c_source, nas_roots <- c_nas_roots,
  readiness <- c_readiness, checking <- c_checking, SettingRoots <- {"r"},
  MaxPatches <- 2, Configurations <- Configs, WorkingDir <- <<"srv">>,
  DaemonDir <- DaemonDirs, MaxEdits <- 1

migrationsVars ==
  <<db, applied, proc, start, trouble>>

settingsVars ==
  <<s_rows, s_enabled, s_running, s_fresh, s_docker, s_provider, s_patches>>

configVars ==
  <<c_config, c_edits, c_loaded, c_source, c_nas_roots, c_readiness,
    c_checking>>

mcVars ==
  <<part, migrationsVars, settingsVars, configVars>>

MCInit ==
  /\ part \in {"migrations", "settings", "config"}
  /\ Init
  /\ part # "migrations" => start.version = 0
  /\ Conf!SettingsInit
  /\ Conf!ConfigInit
  /\ part # "config" => c_config = Usual

OnlyMig ==
  /\ part = "migrations"
  /\ UNCHANGED <<part, settingsVars, configVars>>

OnlySets ==
  /\ part = "settings"
  /\ UNCHANGED <<part, migrationsVars, configVars>>

OnlyConf ==
  /\ part = "config"
  /\ UNCHANGED <<part, migrationsVars, settingsVars>>

MCNext ==
  \/ OnlyMig /\ Next
  \/ OnlySets /\ Conf!SettingsNext
  \/ OnlyConf /\ Conf!ConfigNext

MCSpec == MCInit /\ [][MCNext]_mcVars

-----------------------------------------------------------------------------
\* See Migrations: an upgraded database has the schema of a new one, and what the
\* users had in it is still there.
DataSurvivesUpgrade ==
  part = "migrations" => UpgradedIsFresh /\ LegacyDataSurvives

\* Every component keeps the types of its variables.
Typed ==
  /\ part = "migrations" => TypeOK
  /\ part = "settings" => Conf!SettingsTypeOK
  /\ part = "config" => Conf!ConfigTypeOK

=============================================================================
