--------------------------- MODULE Configuration ---------------------------
(***************************************************************************)
(* What the processes of ZOS are told to do: config.toml and the environment*)
(* when they start, the rows of system_settings while they run.            *)
(***************************************************************************)
EXTENDS Integers, Sequences, FiniteSets, SequencesExt

-----------------------------------------------------------------------------
(***************************************************************************)
(* One config.toml and one set of environment variables, read by every     *)
(* process when it starts: the TypeScript processes (API, worker, health,  *)
(* backup) through loadConfig of packages/shared, hostd, the VOD player    *)
(* and the SQLite daemons (downloader, indexer, photostaff) through Rust   *)
(* readers of their own.  The TypeScript processes then write the NAS      *)
(* roots they found into nas_roots, and the health timer checks each root  *)
(* and records its readiness.                                              *)
(*                                                                         *)
(* A path is the sequence of its segments from "/"; one that starts with   *)
(* "." is relative to the reader's working directory.  A text is NONE when *)
(* absent, Blank when it has no characters but spaces.  A NAS root of    *)
(* the file has an id, a path and a mount policy, each perhaps missing; an *)
(* entry of ZOS_NAS_ROOTS is blank, id:name:path or a path alone.          *)
(***************************************************************************)
CONSTANTS Configurations, \* pairs [env, file] the operator may write
          WorkingDir,     \* findWorkspaceRoot of the TypeScript processes
          DaemonDir,      \* process -> working directory of its unit
          MaxEdits,       \* how often the configuration changes
          Blank,          \* a text of spaces only
          NONE

VARIABLES config,    \* the environment and the file now
          edits,
          loaded,    \* process -> what it loaded at its start, NONE if not running
          source,    \* process -> the configuration it read
          nas_roots, \* root id -> its row, or NONE
          readiness, \* root id -> the row's identity when it was checked, or NONE
          checking   \* the roots a running health check has read, or NONE

configVars == <<config, edits, loaded, source, nas_roots, readiness, checking>>

TsProcesses == {"api", "health"}
Processes == TsProcesses \union {"hostd", "player", "downloader"}

\* "root-" with the position of an entry.
RootName(index) == <<"root-1", "root-2", "root-3">>[index]
RootIds == {"a", "b", "primary", "root-1", "root-2", "root-3"}

-----------------------------------------------------------------------------
\* normalizeText: absent and blank are the same.
normalizeText(value) == IF value = Blank THEN NONE ELSE value
Or(value, fallback) == IF value = NONE THEN fallback ELSE value

IsAbsolute(path) == path = <<>> \/ Head(path) # "."

\* path.resolve(cwd, path).
Resolve(cwd, path) == IF IsAbsolute(path) THEN path ELSE cwd \o Tail(path)

\* isUnder(candidate, parent).
isUnder(candidate, parent) == IsPrefix(parent, candidate)

isPrivateTemporaryPath(path) == isUnder(path, <<"tmp">>) \/ isUnder(path, <<"var", "tmp">>)

\* resolveZosPaths(rootDir).
resolveZosPaths(root) ==
    [rootDir |-> root, configDir |-> root \o <<"config">>, stateDir |-> root \o <<"state">>,
     dataRoot |-> root \o <<"data">>, backupRoot |-> root \o <<"data", "backup">>,
     appsRoot |-> root \o <<"apps">>, isoRoot |-> root \o <<"iso">>, vmRoot |-> root \o <<"vm">>,
     databasePath |-> root \o <<"state", "zos.sqlite">>,
     defaultDataRoot |-> root \o <<"data", "primary">>,
     vodPlayerStateDir |-> root \o <<"state", "vod-player">>]

\* loadEnvironment: anything but "production" is development.
loadEnvironment(c) ==
    IF Or(c.env.environment, Or(c.file.environment, "development")) = "production"
    THEN "production" ELSE "development"

\* resolveRootDir: NONE where it throws.
resolveRootDir(c) ==
    LET configured == Or(normalizeText(c.env.root), normalizeText(c.file.root))
        root == CASE configured # NONE -> Resolve(WorkingDir, configured)
                  [] configured = NONE /\ loadEnvironment(c) = "production" -> <<"zos">>
                  [] OTHER -> WorkingDir \o <<".zos", "dev-root">>
    IN IF (loadEnvironment(c) = "production" /\ root # <<"zos">>) \/ root = <<>> THEN NONE ELSE root

\* parseNamedPathEnv(entry, index, cwd): an empty entry is no root; an id may
\* be left empty in id:name:path.
parseNamedPathEnv(entry, index, cwd) ==
    [id |-> IF entry.id \in {NONE, Blank} THEN RootName(index) ELSE entry.id,
     path |-> Resolve(cwd, entry.path)]

\* The entries of a list that are kept, each with its position in the list.
KeptEntries(entries) ==
    SelectSeq([i \in 1 .. Len(entries) |-> <<entries[i], i>>], LAMBDA e : e[1] # Blank)

\* loadNasRoots.
loadNasRoots(c, paths) ==
    LET policy == IF loadEnvironment(c) = "production" THEN "required" ELSE "optional"
        FromEnv(entry, index) ==
            LET root == parseNamedPathEnv(entry, index, WorkingDir)
            IN [id |-> root.id, path |-> root.path, mountPolicy |-> policy]
        FromFile(root, index) ==
            [id |-> Or(root.id, RootName(index)),
             path |-> Resolve(WorkingDir, Or(root.path, paths.defaultDataRoot)),
             mountPolicy |-> Or(root.policy, policy)]
        kept == KeptEntries(c.env.nasRoots)
    IN CASE c.env.nasRoots # NONE -> [k \in DOMAIN kept |-> FromEnv(kept[k][1], kept[k][2])]
         [] c.env.nasRoots = NONE /\ c.file.nasRoots # <<>> ->
              [k \in DOMAIN c.file.nasRoots |-> FromFile(c.file.nasRoots[k], k)]
         [] OTHER -> <<[id |-> "primary", path |-> paths.defaultDataRoot, mountPolicy |-> policy]>>

\* loadHostdConfig: a relative socket path is replaced by the default.
loadHostdConfig(c) ==
    LET socket == Or(normalizeText(c.env.hostdSocket), Or(normalizeText(c.file.hostdSocket), <<"run", "zos", "hostd.sock">>))
    IN IF IsAbsolute(socket) THEN socket ELSE <<"run", "zos", "hostd.sock">>

\* loadVmConfig.
loadVmConfig(c, paths) ==
    [storagePath |-> Resolve(WorkingDir, Or(c.file.vmStorage, paths.vmRoot)),
     isoRoots |-> {Resolve(WorkingDir, path) : path \in IF c.file.isoRoots = {} THEN {paths.isoRoot} ELSE c.file.isoRoots}]

\* loadVodPlayerConfig: NONE where it throws.
loadVodPlayerConfig(c, paths) ==
    LET socket == Or(normalizeText(c.env.vodSocket), Or(normalizeText(c.file.vodSocket), <<"run", "zos", "vod-player.sock">>))
        state  == Or(normalizeText(c.file.vodState), paths.vodPlayerStateDir \o <<"session.json">>)
        base   == Or(c.file.retryBase, 2)
        max    == Or(c.file.retryMax, 60)
    IN IF IsAbsolute(socket) /\ IsAbsolute(state) /\ base > 0 /\ max > 0 /\ max >= base
       THEN [socketPath |-> socket, statePath |-> state, retryBase |-> base, retryMax |-> max]
       ELSE NONE

\* loadBackupConfig: a repository that is given enables backups.
loadBackupConfig(c, dataDir) ==
    LET repository == normalizeText(c.file.repository)
    IN [enabled |-> Or(c.file.backupEnabled, repository # NONE),
        repositoryPath |-> IF repository = NONE THEN NONE ELSE Resolve(WorkingDir, repository),
        stagingPath |-> IF c.file.staging = NONE THEN dataDir \o <<"backup-staging">>
                        ELSE Resolve(WorkingDir, c.file.staging)]

\* "Backup paths must not overlap NAS roots".
BackupApart(backup, root) ==
    /\ ~isUnder(backup.repositoryPath, root.path) /\ ~isUnder(root.path, backup.repositoryPath)
    /\ ~isUnder(backup.stagingPath, root.path) /\ ~isUnder(root.path, backup.stagingPath)

\* A bug: any place below the data directory may be a NAS root.
root_anywhere_below(root, paths) ==
    /\ ~isUnder(root.path, paths.appsRoot) /\ ~isUnder(paths.appsRoot, root.path)
    /\ isUnder(root.path, paths.dataRoot) /\ root.path # paths.backupRoot

\* The loop over nasRoots of validateConfig: direct children of the data
\* directory, except the backup directory.
RootAllowed(root, paths) ==
    /\ ~isUnder(root.path, paths.appsRoot) /\ ~isUnder(paths.appsRoot, root.path)
    /\ root.path # <<>> /\ Front(root.path) = paths.dataRoot
    /\ root.path # paths.backupRoot

\* validateConfig accepts the configuration.
validateConfig(c, paths, roots, backup, vm, player) ==
    /\ loadEnvironment(c) = "production" => paths.rootDir = <<"zos">>
    /\ \A k \in DOMAIN roots : RootAllowed(roots[k], paths)
    /\ isUnder(vm.storagePath, paths.vmRoot)
    /\ \A path \in vm.isoRoots : isUnder(path, paths.isoRoot)
    /\ isUnder(player.statePath, paths.vodPlayerStateDir)
    /\ loadEnvironment(c) = "production" =>
         /\ ~isPrivateTemporaryPath(player.socketPath) /\ ~isPrivateTemporaryPath(player.statePath)
         /\ backup.enabled =>
              /\ backup.repositoryPath # NONE
              /\ isUnder(backup.repositoryPath, paths.backupRoot)
              /\ ~isUnder(backup.repositoryPath, paths.stateDir)
              /\ ~isUnder(paths.stateDir, backup.repositoryPath)
              /\ \A k \in DOMAIN roots : BackupApart(backup, roots[k])
              /\ ~isUnder(backup.repositoryPath, backup.stagingPath)
              /\ ~isUnder(backup.stagingPath, backup.repositoryPath)
              /\ isUnder(backup.stagingPath, paths.stateDir)

\* loadConfig: NONE where it throws.
loadConfig(c) ==
    IF resolveRootDir(c) = NONE THEN NONE
    ELSE LET paths  == resolveZosPaths(resolveRootDir(c))
             roots  == loadNasRoots(c, paths)
             backup == loadBackupConfig(c, paths.stateDir)
             vm     == loadVmConfig(c, paths)
             player == loadVodPlayerConfig(c, paths)
         IN IF player # NONE /\ validateConfig(c, paths, roots, backup, vm, player)
            THEN [paths |-> paths, nasRoots |-> roots, backup |-> backup, vm |-> vm,
                  hostdSocket |-> loadHostdConfig(c), player |-> player]
            ELSE NONE

-----------------------------------------------------------------------------
(***************************************************************************)
(* The Rust readers.                                                       *)
(***************************************************************************)


\* resolve_nas_roots of hostd and of the VOD player: a root of the file needs
\* a path, and there is no default root.
resolve_nas_roots(c, cwd) ==
    LET kept == KeptEntries(c.env.nasRoots)
    IN IF c.env.nasRoots # NONE
       THEN [k \in DOMAIN kept |-> parseNamedPathEnv(kept[k][1], kept[k][2], cwd)]
       ELSE [k \in DOMAIN c.file.nasRoots |-> [id |-> Or(c.file.nasRoots[k].id, RootName(k)),
                                               path |-> Resolve(cwd, c.file.nasRoots[k].path)]]

\* Every root of the file has a path, and ids are unique.
NasRootsValid(c, cwd) ==
    /\ c.env.nasRoots = NONE => \A k \in DOMAIN c.file.nasRoots : c.file.nasRoots[k].path # NONE
    /\ LET roots == resolve_nas_roots(c, cwd)
       IN \A j, k \in DOMAIN roots : roots[j].id = roots[k].id => j = k

\* HostdConfig::load: a blank or relative socket path is an error.
HostdConfig_load(c) ==
    LET socket == Or(c.env.hostdSocket, Or(c.file.hostdSocket, <<"run", "zos", "hostd.sock">>))
    IN IF socket # Blank /\ (socket # Blank => IsAbsolute(socket)) /\ NasRootsValid(c, DaemonDir["hostd"])
       THEN [hostdSocket |-> socket, nasRoots |-> resolve_nas_roots(c, DaemonDir["hostd"])]
       ELSE NONE

\* VodPlayerConfig::load: text_env drops a blank variable, a blank value of
\* the file is a relative path.
VodPlayerConfig_load(c) ==
    LET socket == Or(normalizeText(c.env.vodSocket), Or(c.file.vodSocket, <<"run", "zos", "vod-player.sock">>))
        state  == Or(c.file.vodState, <<"zos", "state", "vod-player", "session.json">>)
        base   == Or(c.file.retryBase, 2)
        max    == Or(c.file.retryMax, 60)
    IN IF /\ Blank \notin {socket, state}
          /\ IsAbsolute(socket) /\ IsAbsolute(state)
          /\ ~isPrivateTemporaryPath(socket) /\ ~isPrivateTemporaryPath(state)
          /\ base > 0 /\ max >= base
          /\ NasRootsValid(c, DaemonDir["player"])
       THEN [player |-> [socketPath |-> socket, statePath |-> state, retryBase |-> base, retryMax |-> max],
             nasRoots |-> resolve_nas_roots(c, DaemonDir["player"])]
       ELSE NONE

\* Config::load of the downloader, the indexer and photostaff: the variable
\* as it is, then the file's root_dir, then the development directory.
Config_load(c) ==
    LET root == Or(c.env.root, Or(c.file.root, <<".", ".zos", "dev-root">>))
    IN IF root = Blank THEN [databasePath |-> DaemonDir["downloader"] \o <<"state", "zos.sqlite">>]
       ELSE [databasePath |-> Resolve(DaemonDir["downloader"], root) \o <<"state", "zos.sqlite">>]

Load(process, c) ==
    CASE process \in TsProcesses -> loadConfig(c)
      [] process = "hostd"       -> HostdConfig_load(c)
      [] process = "player"      -> VodPlayerConfig_load(c)
      [] process = "downloader"  -> Config_load(c)

-----------------------------------------------------------------------------
\* The identity of a root's row that readiness depends on.
Identity(row) == [path |-> row.path, mountPolicy |-> row.mountPolicy]

\* ensureNasRoots in one transaction: the configured roots are written and
\* enabled, the others disabled; a root whose path or policy changed forgets
\* its readiness.  Of two roots with one id the last stays.  (With no root at
\* all nothing is disabled: id NOT IN (NULL).)
ensureNasRoots(roots) ==
    LET last(id) == CHOOSE k \in DOMAIN roots :
                        roots[k].id = id /\ \A j \in DOMAIN roots : roots[j].id = id => j <= k
        ids      == {roots[k].id : k \in DOMAIN roots}
        row(id)  == roots[last(id)]
    IN /\ nas_roots' = [id \in RootIds |->
                          CASE id \in ids -> [enabled |-> TRUE, path |-> row(id).path, mountPolicy |-> row(id).mountPolicy]
                            [] id \notin ids /\ roots # <<>> /\ nas_roots[id] # NONE -> [nas_roots[id] EXCEPT !.enabled = FALSE]
                            [] OTHER -> nas_roots[id]]
       /\ readiness' = [id \in RootIds |->
                          IF id \in ids /\ nas_roots[id] # NONE
                             /\ \E k \in DOMAIN roots : roots[k].id = id /\ Identity(roots[k]) # Identity(nas_roots[id])
                          THEN NONE ELSE readiness[id]]

\* A process starts (or restarts) and reads the configuration; a TypeScript
\* process then stores the NAS roots.
Start(process) ==
    LET read == Load(process, config)
    IN /\ loaded' = [loaded EXCEPT ![process] = read]
       /\ source' = [source EXCEPT ![process] = config]
       /\ IF process \in TsProcesses /\ read # NONE
          THEN ensureNasRoots(read.nasRoots)
          ELSE UNCHANGED <<nas_roots, readiness>>
       /\ UNCHANGED <<config, edits, checking>>

\* The operator edits the file or the environment.
Edit(c) ==
    /\ edits < MaxEdits /\ c # config
    /\ config' = c
    /\ edits' = edits + 1
    /\ UNCHANGED <<loaded, source, nas_roots, readiness, checking>>

Enabled(id) == nas_roots[id] # NONE /\ nas_roots[id].enabled

\* refreshRootReadiness reads the enabled roots ...
ReadRoots ==
    /\ checking = NONE
    /\ loaded["health"] # NONE
    /\ checking' = [id \in {i \in RootIds : Enabled(i)} |-> Identity(nas_roots[id])]
    /\ UNCHANGED <<config, edits, loaded, source, nas_roots, readiness>>

\* A bug: a root that already has a readiness row keeps it.
upsert_once ==
    /\ checking # NONE
    /\ readiness' = [id \in RootIds |-> IF id \in DOMAIN checking /\ readiness[id] = NONE THEN checking[id] ELSE readiness[id]]
    /\ checking' = NONE
    /\ UNCHANGED <<config, edits, loaded, source, nas_roots>>

\* ... and writes what it found once every mount is checked.
upsertRootReadiness ==
    /\ checking # NONE
    /\ readiness' = [id \in RootIds |-> IF id \in DOMAIN checking THEN checking[id] ELSE readiness[id]]
    /\ checking' = NONE
    /\ UNCHANGED <<config, edits, loaded, source, nas_roots>>

ConfigInit ==
    /\ config \in Configurations
    /\ edits = 0
    /\ loaded = [p \in Processes |-> NONE]
    /\ source = [p \in Processes |-> NONE]
    /\ nas_roots = [id \in RootIds |-> NONE]
    /\ readiness = [id \in RootIds |-> NONE]
    /\ checking = NONE

ConfigNext ==
    \/ \E p \in Processes : Start(p)
    \/ \E c \in Configurations : Edit(c)
    \/ ReadRoots
    \/ upsertRootReadiness

\* The health timer runs again and again.
ConfigFairness == WF_configVars(ReadRoots) /\ WF_configVars(upsertRootReadiness)
ConfigSpec == ConfigInit /\ [][ConfigNext]_configVars /\ ConfigFairness

-----------------------------------------------------------------------------
ConfigTypeOK ==
    /\ config \in Configurations /\ edits \in 0 .. MaxEdits
    /\ \A p \in Processes : source[p] \in Configurations \union {NONE}
    /\ \A id \in RootIds : readiness[id] # NONE => nas_roots[id] # NONE

Apart(a, b) == ~isUnder(a, b) /\ ~isUnder(b, a)

\* A production configuration the API starts with keeps the trees of the
\* appliance apart: whatever is stored in a NAS root is outside the database
\* and state, the applications, the machines, the ISO images and the backup
\* repository, the repository is outside everything it backs up, and the
\* staging directory is outside the NAS roots.
TreesAreApart ==
    \A p \in TsProcesses :
        (loaded[p] # NONE /\ loadEnvironment(source[p]) = "production") =>
            LET l == loaded[p]
            IN /\ \A k \in DOMAIN l.nasRoots :
                     /\ \A tree \in {l.paths.stateDir, l.paths.configDir, l.paths.appsRoot, l.vm.storagePath,
                                     l.player.statePath} \union l.vm.isoRoots : Apart(l.nasRoots[k].path, tree)
                     /\ l.backup.enabled => /\ Apart(l.nasRoots[k].path, l.backup.repositoryPath)
                                            /\ Apart(l.nasRoots[k].path, l.backup.stagingPath)
                     /\ \A j \in DOMAIN l.nasRoots : l.nasRoots[j].path # l.nasRoots[k].path
                            => Apart(l.nasRoots[j].path, l.nasRoots[k].path)
               /\ l.backup.enabled => /\ Apart(l.backup.repositoryPath, l.paths.stateDir)
                                      /\ Apart(l.backup.repositoryPath, l.backup.stagingPath)

\* The roots of the configuration are spelled out: no process falls back to
\* a root or a path of its own.
SpelledOut(c) ==
    IF c.env.nasRoots # NONE THEN \E k \in DOMAIN c.env.nasRoots : c.env.nasRoots[k] # Blank
    ELSE c.file.nasRoots # <<>>

RootMap(roots) == {<<roots[k].id, roots[k].path>> : k \in DOMAIN roots}

\* In production, where paths are absolute, the API and a daemon that started
\* on one configuration agree: hostd listens where the API connects and knows
\* the same NAS roots under the same ids, so does the VOD player, and the
\* downloader, the indexer and photostaff open the database the API writes.
ReadersAgree ==
    \A p \in Processes \ TsProcesses :
        LET l == loaded["api"]  d == loaded[p]
        IN (l # NONE /\ d # NONE /\ source[p] = source["api"] /\ loadEnvironment(source[p]) = "production") =>
            /\ p = "hostd" => d.hostdSocket = l.hostdSocket
            /\ p = "player" => d.player = l.player
            /\ p \in {"hostd", "player"} /\ SpelledOut(source[p]) => RootMap(d.nasRoots) = RootMap(l.nasRoots)
            /\ p = "downloader" => d.databasePath = l.paths.databasePath

\* The readiness of every NAS root becomes that of the root as it is now
\* configured: a check that read the roots before ensureNasRoots replaced them
\* may still write its result, and the next run of the health timer repairs it.
Settled ==
    loaded["health"] # NONE => \A id \in RootIds : Enabled(id) => readiness[id] = Identity(nas_roots[id])

\* See Settled: readiness catches up with the configuration.
ReadinessCatchesUp == <>[]Settled

-----------------------------------------------------------------------------
(***************************************************************************)
(* The rows of system_settings that the settings page writes and other     *)
(* processes read: download_settings (downloader), indexer_settings        *)
(* (indexer), photostaff_processing_settings (photostaff),                 *)
(* pi_tool_policy (agent worker), docker_settings and model_provider.      *)
(*                                                                         *)
(* A PATCH handler of the API merges its body into the settings it reads   *)
(* back (or the defaults), a normaliser refuses the whole record or saves  *)
(* it.  The Rust daemons parse the same JSON with their own defaults and   *)
(* their own bounds, and stop with an error when a value is out of them.   *)
(* Both tables are written out below, one from each language.              *)
(*                                                                         *)
(* Units: sizes whose bounds exceed TLC's integers are in MiB or KiB; the  *)
(* largest safe integer is MaxSafe, larger than any other value.  A value  *)
(* that is not a number (a text Number() cannot read) is NONE; a JSON null *)
(* is Null.                                                                *)
(***************************************************************************)
CONSTANTS
  SettingRoots, \* ids of NAS roots
  MaxPatches,   \* PATCH requests in a behaviour
  Null          \* JSON null

VARIABLES rows,     \* key -> the value_json of its system_settings row, or NONE
          enabled,  \* nas_roots with enabled = 1
          running,  \* key -> the settings its process read last, or NONE
          fresh,    \* keys read since their row last changed
          docker,   \* docker_settings
          provider, \* model_provider
          patches

settingsVars == <<rows, enabled, running, fresh, docker, provider, patches>>

MaxSafe == 2000000000
KiB == 1
MiB == 1024 * KiB
GiB == 1024 * MiB

-----------------------------------------------------------------------------
(***************************************************************************)
(* The TypeScript side: defaults and bounds.                               *)
(***************************************************************************)

\* DEFAULT_DOWNLOAD_SETTINGS.
DEFAULT_DOWNLOAD_SETTINGS ==
    [concurrency |-> 1, parallelRequestsPerTask |-> 4, segmentedDownloadMinBytes |-> 64 * MiB,
     maxAutoRetries |-> 5, retryBaseDelayMs |-> 2000, retryMaxDelayMs |-> 300000,
     retryAfterMaxDelayMs |-> 900000, connectTimeoutMs |-> 15000,
     responseHeaderTimeoutMs |-> 30000, readIdleTimeoutMs |-> 60000,
     minFreeSpaceBytes |-> 0, maxFileSizeBytes |-> Null]

\* DEFAULT_PHOTOSTAFF_PROCESSING_SETTINGS.
DEFAULT_PHOTOSTAFF_PROCESSING_SETTINGS ==
    [processingConcurrency |-> 1, scanIntervalMs |-> 1800000, maxAutoRetries |-> 5,
     retryBaseDelayMs |-> 2000, retryMaxDelayMs |-> 300000, commandTimeoutMs |-> 120000,
     maxFileSizeBytes |-> 512 * MiB, maxXmpSizeBytes |-> 16 * MiB,
     maxIntermediateBytes |-> 2 * GiB, minFreeSpaceBytes |-> 0, maxDecodedPixels |-> 268402689]

\* DEFAULT_INDEXER_SETTINGS (maxSourceDocumentBytes in MiB).
DEFAULT_INDEXER_SETTINGS ==
    [scanConcurrency |-> 4, extractionConcurrency |-> 2, reconciliationIntervalMs |-> 1800000,
     maxExtractedTextBytes |-> 2 * MiB, maxSourceDocumentBytes |-> 512, commandTimeoutMs |-> 120000,
     maxPdfTextPages |-> 500, maxOcrPages |-> 20, ocrRootIds |-> {}]

READ_ONLY_PI_TOOLS == {"read", "grep", "find", "ls"}
DANGEROUS_PI_TOOLS == {"bash", "edit", "write"}
PI_TOOL_POLICY_MODES == {"auto", "ask", "disabled"}
DANGEROUS_PI_TOOL_POLICY_MODES == {"ask", "disabled"}

\* DEFAULT_PI_TOOL_POLICY_SETTINGS.
DEFAULT_PI_TOOL_POLICY_SETTINGS ==
    [tool \in READ_ONLY_PI_TOOLS \union DANGEROUS_PI_TOOLS |->
        IF tool \in READ_ONLY_PI_TOOLS THEN "auto" ELSE "ask"]

\* `integer(name, candidate, minimum, maximum)`: every field of bounds is a
\* number within them.
Within(value, bounds) ==
    \A field \in DOMAIN bounds :
        /\ value[field] \notin {NONE, Null}
        /\ value[field] \in bounds[field][1] .. bounds[field][2]

\* normalizeDownloadSettings accepts the merged record.
normalizeDownloadSettings(value) ==
    /\ Within(value, [retryBaseDelayMs |-> <<500, 60000>>])
    /\ Within(value,
         [concurrency |-> <<1, 3>>, parallelRequestsPerTask |-> <<1, 8>>,
          segmentedDownloadMinBytes |-> <<1 * MiB, 1024 * GiB>>, maxAutoRetries |-> <<0, 20>>,
          retryMaxDelayMs |-> <<value.retryBaseDelayMs, 1800000>>,
          retryAfterMaxDelayMs |-> <<1000, 3600000>>, connectTimeoutMs |-> <<1000, 120000>>,
          responseHeaderTimeoutMs |-> <<5000, 300000>>, readIdleTimeoutMs |-> <<5000, 900000>>,
          minFreeSpaceBytes |-> <<0, MaxSafe>>])
    /\ value.maxFileSizeBytes # Null => Within(value, [maxFileSizeBytes |-> <<1, MaxSafe>>])

\* normalizePhotostaffProcessingSettings accepts the merged record.
normalizePhotostaffProcessingSettings(value) ==
    /\ Within(value, [retryBaseDelayMs |-> <<500, 1800000>>])
    /\ Within(value,
        [processingConcurrency |-> <<1, 4>>, scanIntervalMs |-> <<60000, 86400000>>,
         maxAutoRetries |-> <<0, 20>>,
         retryMaxDelayMs |-> <<value.retryBaseDelayMs, 1800000>>,
         commandTimeoutMs |-> <<5000, 900000>>, maxFileSizeBytes |-> <<1 * MiB, 1024 * GiB>>,
         maxXmpSizeBytes |-> <<1 * KiB, 64 * MiB>>, maxIntermediateBytes |-> <<64 * MiB, 8 * GiB>>,
         minFreeSpaceBytes |-> <<0, 1024 * GiB>>, maxDecodedPixels |-> <<1000000, 268402689>>])

\* normalizeIndexerSettings accepts the merged record.
normalizeIndexerSettings(value) ==
    /\ value.ocrRootIds # NONE
    /\ Within(value,
         [scanConcurrency |-> <<1, 16>>, extractionConcurrency |-> <<1, 8>>,
          reconciliationIntervalMs |-> <<60000, 86400000>>,
          maxExtractedTextBytes |-> <<64 * KiB, 16 * MiB>>,
          maxSourceDocumentBytes |-> <<1, 2 * 1024 * 1024>>, commandTimeoutMs |-> <<5000, 900000>>,
          maxPdfTextPages |-> <<1, 5000>>, maxOcrPages |-> <<1, 100>>])

\* normalizePiToolPolicySettings accepts the modes.
normalizePiToolPolicySettings(value) ==
    /\ \A tool \in READ_ONLY_PI_TOOLS : value[tool] \in PI_TOOL_POLICY_MODES
    /\ \A tool \in DANGEROUS_PI_TOOLS : value[tool] \in DANGEROUS_PI_TOOL_POLICY_MODES

-----------------------------------------------------------------------------
(***************************************************************************)
(* The Rust side: `impl Default` and `validate` of each daemon.            *)
(***************************************************************************)

\* downloader: DownloadSettings::default.
DownloadSettings_default ==
    [concurrency |-> 1, parallelRequestsPerTask |-> 4, segmentedDownloadMinBytes |-> 64 * MiB,
     maxAutoRetries |-> 5, retryBaseDelayMs |-> 2000, retryMaxDelayMs |-> 300000,
     retryAfterMaxDelayMs |-> 900000, connectTimeoutMs |-> 15000,
     responseHeaderTimeoutMs |-> 30000, readIdleTimeoutMs |-> 60000,
     minFreeSpaceBytes |-> 0, maxFileSizeBytes |-> Null]

\* A bug: the range of the longest retry delay excludes its lower end.
validate_exclusive(value) ==
    Within(value, [retryMaxDelayMs |-> <<value.retryBaseDelayMs + 1, 1800000>>])

\* downloader: DownloadSettings::validate.
DownloadSettings_validate(value) ==
    /\ Within(value, [retryBaseDelayMs |-> <<500, 60000>>])
    /\ Within(value,
         [concurrency |-> <<1, 3>>, parallelRequestsPerTask |-> <<1, 8>>,
          segmentedDownloadMinBytes |-> <<1 * MiB, 1024 * GiB>>, maxAutoRetries |-> <<0, 20>>,
          retryMaxDelayMs |-> <<value.retryBaseDelayMs, 1800000>>,
          retryAfterMaxDelayMs |-> <<1000, 3600000>>, connectTimeoutMs |-> <<1000, 120000>>,
          responseHeaderTimeoutMs |-> <<5000, 300000>>, readIdleTimeoutMs |-> <<5000, 900000>>])
    /\ value.maxFileSizeBytes # 0

\* indexer: IndexerSettings::default.
IndexerSettings_default ==
    [scanConcurrency |-> 4, extractionConcurrency |-> 2, reconciliationIntervalMs |-> 1800000,
     maxExtractedTextBytes |-> 2 * MiB, maxSourceDocumentBytes |-> 512, commandTimeoutMs |-> 120000,
     maxPdfTextPages |-> 500, maxOcrPages |-> 20, ocrRootIds |-> {}]

\* indexer: IndexerSettings::validate.
IndexerSettings_validate(value) ==
    Within(value,
        [scanConcurrency |-> <<1, 16>>, extractionConcurrency |-> <<1, 8>>,
         reconciliationIntervalMs |-> <<60000, 86400000>>,
         maxExtractedTextBytes |-> <<64 * KiB, 16 * MiB>>,
         maxSourceDocumentBytes |-> <<1, 2 * 1024 * 1024>>, commandTimeoutMs |-> <<5000, 900000>>,
         maxPdfTextPages |-> <<1, 5000>>, maxOcrPages |-> <<1, 100>>])

\* photostaff: ProcessingSettings::default.
ProcessingSettings_default ==
    [processingConcurrency |-> 1, scanIntervalMs |-> 1800000, maxAutoRetries |-> 5,
     retryBaseDelayMs |-> 2000, retryMaxDelayMs |-> 300000, commandTimeoutMs |-> 120000,
     maxFileSizeBytes |-> 512 * MiB, maxXmpSizeBytes |-> 16 * MiB,
     maxIntermediateBytes |-> 2 * GiB, minFreeSpaceBytes |-> 0, maxDecodedPixels |-> 268402689]

\* photostaff: ProcessingSettings::validate.
ProcessingSettings_validate(value) ==
    /\ Within(value, [retryBaseDelayMs |-> <<500, 1800000>>])
    /\ Within(value,
        [processingConcurrency |-> <<1, 4>>, scanIntervalMs |-> <<60000, 86400000>>,
         maxAutoRetries |-> <<0, 20>>,
         retryMaxDelayMs |-> <<value.retryBaseDelayMs, 1800000>>,
         commandTimeoutMs |-> <<5000, 900000>>, maxFileSizeBytes |-> <<1 * MiB, 1024 * GiB>>,
         maxXmpSizeBytes |-> <<1 * KiB, 64 * MiB>>, maxIntermediateBytes |-> <<64 * MiB, 8 * GiB>>,
         minFreeSpaceBytes |-> <<0, 1024 * GiB>>, maxDecodedPixels |-> <<1000000, 268402689>>])

-----------------------------------------------------------------------------
Keys == {"downloads", "photos", "indexer", "policy"}

Default(key) ==
    CASE key = "downloads" -> DEFAULT_DOWNLOAD_SETTINGS
      [] key = "photos"    -> DEFAULT_PHOTOSTAFF_PROCESSING_SETTINGS
      [] key = "indexer"   -> DEFAULT_INDEXER_SETTINGS
      [] key = "policy"    -> DEFAULT_PI_TOOL_POLICY_SETTINGS

\* get...Settings(db) ?? default...Settings(): the settings page shows them.
\* The API reads its own rows back through the normalisers; a row of the
\* indexer or of photostaff they refuse counts as missing.
getDownloadSettings ==
    IF rows["downloads"] = NONE THEN DEFAULT_DOWNLOAD_SETTINGS ELSE rows["downloads"]
getPhotostaffProcessingSettings ==
    IF rows["photos"] # NONE /\ normalizePhotostaffProcessingSettings(rows["photos"])
    THEN rows["photos"] ELSE DEFAULT_PHOTOSTAFF_PROCESSING_SETTINGS
getIndexerSettings ==
    IF rows["indexer"] # NONE /\ normalizeIndexerSettings(rows["indexer"])
    THEN rows["indexer"] ELSE DEFAULT_INDEXER_SETTINGS
getPiToolPolicySettings ==
    IF rows["policy"] = NONE THEN DEFAULT_PI_TOOL_POLICY_SETTINGS ELSE rows["policy"]

Shown(key) ==
    CASE key = "downloads" -> getDownloadSettings
      [] key = "photos"    -> getPhotostaffProcessingSettings
      [] key = "indexer"   -> getIndexerSettings
      [] key = "policy"    -> getPiToolPolicySettings

\* Values at and next to the bounds, with a text that is no number.
Numbers(field) ==
    CASE field \in {"concurrency", "processingConcurrency"} -> {0, 1, 3, 4, 5}
      [] field \in {"parallelRequestsPerTask", "extractionConcurrency"} -> {0, 1, 8, 9}
      [] field = "scanConcurrency" -> {0, 1, 16, 17}
      [] field = "maxAutoRetries" -> {-1, 0, 20, 21}
      [] field \in {"retryBaseDelayMs", "retryMaxDelayMs"} -> {499, 500, 60000, 60001, 1800000, 1800001}
      [] field = "retryAfterMaxDelayMs" -> {999, 1000, 3600000, 3600001}
      [] field = "connectTimeoutMs" -> {999, 1000, 120000, 120001}
      [] field = "responseHeaderTimeoutMs" -> {4999, 5000, 300000, 300001}
      [] field \in {"readIdleTimeoutMs", "commandTimeoutMs"} -> {4999, 5000, 900000, 900001}
      [] field \in {"scanIntervalMs", "reconciliationIntervalMs"} -> {59999, 60000, 86400000, 86400001}
      [] field = "segmentedDownloadMinBytes" -> {MiB - 1, MiB, 1024 * GiB, 1024 * GiB + 1}
      [] field \in {"minFreeSpaceBytes", "maxFileSizeBytes"} ->
            {-1, 0, 1, MiB - 1, MiB, 1024 * GiB, 1024 * GiB + 1, MaxSafe, MaxSafe + 1}
      [] field = "maxXmpSizeBytes" -> {0, 1, 64 * MiB, 64 * MiB + 1}
      [] field = "maxIntermediateBytes" -> {64 * MiB - 1, 64 * MiB, 8 * GiB, 8 * GiB + 1}
      [] field = "maxDecodedPixels" -> {999999, 1000000, 268402689, 268402690}
      [] field = "maxExtractedTextBytes" -> {63, 64, 16 * MiB, 16 * MiB + 1}
      [] field = "maxSourceDocumentBytes" -> {0, 1, 2 * 1024 * 1024, 2 * 1024 * 1024 + 1}
      [] field = "maxPdfTextPages" -> {0, 1, 5000, 5001}
      [] field = "maxOcrPages" -> {0, 1, 100, 101}

Candidates(key, field) ==
    CASE key = "policy" -> PI_TOOL_POLICY_MODES \union {NONE}
      [] field = "ocrRootIds" -> SUBSET SettingRoots
      [] OTHER -> Numbers(field) \union {Null, NONE}

SaveRow(key, value) ==
    /\ rows' = [rows EXCEPT ![key] = value]
    /\ fresh' = fresh \ {key}
    /\ patches' = patches + 1
    /\ UNCHANGED <<enabled, running, docker, provider>>

\* The body of a PATCH changes one field; a null is ignored by the downloads
\* route except for maxFileSizeBytes, and kept for the normaliser to refuse
\* by the other routes.
\* PATCH /api/settings/downloads.
PatchDownloads(field, given) ==
    LET existing == getDownloadSettings
        next     == IF given = Null /\ field # "maxFileSizeBytes" THEN existing
                    ELSE [existing EXCEPT ![field] = given]
    IN /\ normalizeDownloadSettings(next)
       /\ SaveRow("downloads", next)

\* PATCH /api/settings/photos.
PatchPhotos(field, given) ==
    LET next == [getPhotostaffProcessingSettings EXCEPT ![field] = given]
    IN /\ normalizePhotostaffProcessingSettings(next)
       /\ SaveRow("photos", next)

\* PATCH /api/settings/indexer: OCR roots must be enabled NAS roots.
PatchIndexer(field, given) ==
    LET next == [getIndexerSettings EXCEPT ![field] = given]
    IN /\ next.ocrRootIds \subseteq enabled
       /\ normalizeIndexerSettings(next)
       /\ SaveRow("indexer", next)

\* PATCH /api/settings/pi-tool-policy.
PatchPolicy(tool, mode) ==
    LET next == [getPiToolPolicySettings EXCEPT ![tool] = mode]
    IN /\ normalizePiToolPolicySettings(next)
       /\ SaveRow("policy", next)

\* normalizeTextField(value, fallback, defaultValue): a blank or missing text
\* keeps what is there.
normalizeTextField(value, fallback) == IF value \in {NONE, "blank"} THEN fallback ELSE value

\* normalizeDockerShells: an empty list keeps what is there.
normalizeDockerShells(value, fallback) == IF value \in {NONE, {}} THEN fallback ELSE value

\* PATCH /api/settings/docker; a timeout that is no positive integer and a
\* shell that is no absolute path refuse the request.
PatchDocker(body) ==
    /\ body.operationTimeoutMs # NONE => body.operationTimeoutMs > 0
    /\ body.consoleShells # NONE => "relative" \notin body.consoleShells
    /\ docker' = [socketPath |-> normalizeTextField(body.socketPath, docker.socketPath),
                  operationTimeoutMs |-> IF body.operationTimeoutMs = NONE THEN docker.operationTimeoutMs
                                         ELSE body.operationTimeoutMs,
                  consoleShells |-> normalizeDockerShells(body.consoleShells, docker.consoleShells)]
    /\ patches' = patches + 1
    /\ UNCHANGED <<rows, enabled, running, fresh, provider>>

\* PATCH /api/settings/model-provider: an unknown provider is refused; the
\* API key stays unless a new one is given or clearApiKey is set.
PatchProvider(body) ==
    /\ body.providerName \in {NONE, "openai", "anthropic"}
    /\ provider' = [providerName |-> IF body.providerName = NONE THEN provider.providerName ELSE body.providerName,
                    apiKey |-> IF body.clearApiKey THEN NONE
                               ELSE normalizeTextField(body.apiKey, provider.apiKey)]
    /\ patches' = patches + 1
    /\ UNCHANGED <<rows, enabled, running, fresh, docker>>

\* Db::settings of a daemon: the row if it is valid, an error (NONE) if not,
\* the daemon's own defaults without a row.
downloader_settings ==
    CASE rows["downloads"] = NONE -> DownloadSettings_default
      [] rows["downloads"] # NONE /\ DownloadSettings_validate(rows["downloads"]) -> rows["downloads"]
      [] OTHER -> NONE
photostaff_settings ==
    CASE rows["photos"] = NONE -> ProcessingSettings_default
      [] rows["photos"] # NONE /\ ProcessingSettings_validate(rows["photos"]) -> rows["photos"]
      [] OTHER -> NONE
indexer_settings ==
    CASE rows["indexer"] = NONE -> IndexerSettings_default
      [] rows["indexer"] # NONE /\ IndexerSettings_validate(rows["indexer"]) -> rows["indexer"]
      [] OTHER -> NONE

settings(key) ==
    CASE key = "downloads" -> downloader_settings
      [] key = "photos"    -> photostaff_settings
      [] key = "indexer"   -> indexer_settings
      [] key = "policy"    -> getPiToolPolicySettings

\* The process of a key reads its settings: each poll, refresh, tick or turn.
ReadSettings(key) ==
    /\ running' = [running EXCEPT ![key] = settings(key)]
    /\ fresh' = fresh \union {key}
    /\ UNCHANGED <<rows, enabled, docker, provider, patches>>

\* A NAS root is disabled or enabled (the configuration changes, the API
\* restarts): its id may still be among the saved OCR roots.
RootChanges(root) ==
    /\ enabled' = IF root \in enabled THEN enabled \ {root} ELSE enabled \union {root}
    /\ UNCHANGED <<rows, running, fresh, docker, provider, patches>>

DockerBodies ==
    [socketPath : {NONE, "blank", "s"}, operationTimeoutMs : {NONE, 0, 1},
     consoleShells : {NONE, {}, {"sh"}, {"relative"}}]

ProviderBodies ==
    [providerName : {NONE, "openai", "anthropic", "other"}, apiKey : {NONE, "blank", "k"},
     clearApiKey : BOOLEAN]

SettingsInit ==
    /\ rows = [key \in Keys |-> NONE]
    /\ enabled = SettingRoots
    /\ running = [key \in Keys |-> NONE]
    /\ fresh = {}
    /\ docker = [socketPath |-> "default", operationTimeoutMs |-> 120000, consoleShells |-> {"sh", "bash"}]
    /\ provider = [providerName |-> "openai", apiKey |-> NONE]
    /\ patches = 0

\* A PATCH request of the settings page.
Patch ==
    \/ \E field \in DOMAIN DEFAULT_DOWNLOAD_SETTINGS :
          \E given \in Candidates("downloads", field) : PatchDownloads(field, given)
    \/ \E field \in DOMAIN DEFAULT_PHOTOSTAFF_PROCESSING_SETTINGS :
          \E given \in Candidates("photos", field) : PatchPhotos(field, given)
    \/ \E field \in DOMAIN DEFAULT_INDEXER_SETTINGS :
          \E given \in Candidates("indexer", field) : PatchIndexer(field, given)
    \/ \E tool \in DOMAIN DEFAULT_PI_TOOL_POLICY_SETTINGS :
          \E mode \in Candidates("policy", tool) : PatchPolicy(tool, mode)
    \/ \E body \in DockerBodies : PatchDocker(body)
    \/ \E body \in ProviderBodies : PatchProvider(body)

SettingsNext ==
    \/ patches < MaxPatches /\ Patch
    \/ \E key \in Keys : ReadSettings(key)
    \/ \E root \in SettingRoots : RootChanges(root)

SettingsSpec == SettingsInit /\ [][SettingsNext]_settingsVars

-----------------------------------------------------------------------------
\* Every settings row has the fields of its defaults.
SettingsTypeOK ==
    /\ \A key \in Keys : rows[key] # NONE => DOMAIN rows[key] = DOMAIN Default(key)
    /\ enabled \subseteq SettingRoots
    /\ fresh \subseteq Keys
    /\ patches \in 0 .. MaxPatches

\* Whatever the settings page saved, with whatever sequence of PATCH requests,
\* the process it is for takes it: the downloader, the indexer, photostaff and
\* the agent worker never stop over a row the API accepted, and after they
\* read it they run with exactly what the page shows, the defaults of the two
\* languages included.
ProcessesUseWhatIsShown ==
    \A key \in fresh : running[key] # NONE /\ running[key] = Shown(key)
=============================================================================
