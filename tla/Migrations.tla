------------------------------ MODULE Migrations ------------------------------
(***************************************************************************)
(* The schema migrations every TypeScript process runs when it opens the   *)
(* shared SQLite database: connection.ts, schema.ts and the statements of  *)
(* migrations/*.ts.  Several services start together, on a fresh database  *)
(* or on one an older release left behind with its rows.                   *)
(*                                                                         *)
(* A database is a function from table names to tables.  A table has its   *)
(* columns, its foreign keys, the CHECK sets of the columns a later        *)
(* migration copies or rewrites, its indexes and triggers, and its rows.   *)
(* The column "payload" stands for the columns every migration that        *)
(* touches the table carries under their own names in one list.            *)
(***************************************************************************)
EXTENDS Naturals, Sequences, FiniteSets, SequencesExt, TLC

CONSTANTS Procs,        \* the processes that open the database
          Starts,       \* the databases found: [version |-> n, wants |-> values]
          MaxTrouble,   \* how many processes may die while they migrate
          NONE          \* a statement failed

VARIABLES db,           \* the committed database
          applied,      \* schema_migrations: the indexes that are recorded
          proc,         \* the processes' place in runMigrations
          start,        \* what the first process found
          trouble

vars == <<db, applied, proc, start, trouble>>

-----------------------------------------------------------------------------
(* SQLite, as far as the migrations use it. *)

Table(columns, refs, check) ==
  [columns |-> {"id", "payload"} \union columns \union {r[1] : r \in refs} \union DOMAIN check,
   refs |-> refs, check |-> check, attached |-> {}, rows |-> {}]
Plain(refs) == Table({}, refs, <<>>)
To(column, parent) == <<column, parent, "CASCADE">>
Loose(column, parent) == <<column, parent, "SET NULL">>
Bare(column, parent) == <<column, parent, "NO CONSTRAINT">>

Create(t, table) == [op |-> "create", table |-> t, new |-> table, lenient |-> FALSE]
CreateIf(t, table) == [op |-> "create", table |-> t, new |-> table, lenient |-> TRUE]
Add(t, column, default) ==
  [op |-> "add", table |-> t, column |-> column, default |-> default, check |-> <<>>]
AddOneOf(t, column, default, allowed) ==
  [op |-> "add", table |-> t, column |-> column, default |-> default, check |-> column :> allowed]
Rename(t, name) == [op |-> "rename", table |-> t, name |-> name]
Drop(t) == [op |-> "drop", table |-> t]
Attach(t, name) == [op |-> "attach", table |-> t, name |-> name, lenient |-> FALSE]
AttachIf(t, name) == [op |-> "attach", table |-> t, name |-> name, lenient |-> TRUE]
Copy(from, t, into, select) ==
  [op |-> "copy", from |-> from, table |-> t, into |-> into, select |-> select]
Update(name) == [op |-> name, table |-> "system_settings"]

\* ALTER TABLE ... RENAME leaves the references of other tables alone only
\* with legacy_alter_table on, as every migration here sets it, and foreign
\* keys off.
renamed(d, t, name, fk) ==
  [u \in (DOMAIN d \ {t}) \union {name} |->
     LET old == IF u = name THEN d[t] ELSE d[u]
     IN  IF ~fk THEN old
         ELSE [old EXCEPT !.refs = {IF r[2] = t THEN <<r[1], name, r[3]>> ELSE r : r \in @}]]

\* DROP TABLE deletes the rows first when foreign keys are on, and with them
\* what refers to them.
dropped(d, t, fk) ==
  LET rest == [u \in DOMAIN d \ {t} |-> d[u]]
      Hit(table, row, action) ==
        \E r \in table.refs : r[2] = t /\ r[3] = action /\ row[r[1]] # "null"
      Cut(table, row) ==
        [c \in DOMAIN row |->
           IF \E r \in table.refs : r[1] = c /\ r[2] = t /\ r[3] = "SET NULL"
           THEN "null" ELSE row[c]]
  IN  IF ~fk THEN rest
      ELSE [u \in DOMAIN rest |->
              [rest[u] EXCEPT !.rows = {Cut(rest[u], row) :
                 row \in {w \in @ : ~Hit(rest[u], w, "CASCADE")}}]]

Satisfies(table, row) == \A c \in DOMAIN table.check : row[c] \in table.check[c]

\* The expressions of the SELECT lists.
Value(e, row) ==
  CASE e \in DOMAIN row -> row[e]
    [] e = "requeued" -> IF row.status = "running" THEN "queued" ELSE row.status
    [] e = "started_at unless running" -> IF row.status = "running" THEN "null" ELSE row.started_at
    [] e = "finished_at unless running" -> IF row.status = "running" THEN "null" ELSE row.finished_at
    [] e = "mtime_ms * 1000000" -> row.mtime_ms
    [] OTHER -> e

copied(d, s) ==
  LET table == d[s.table]
      Row(old) == [c \in table.columns |->
                     IF \E i \in 1..Len(s.into) : s.into[i] = c
                     THEN Value(s.select[CHOOSE i \in 1..Len(s.into) : s.into[i] = c], old)
                     ELSE "null"]
      rows == {Row(old) : old \in d[s.from].rows}
  IN  IF \A row \in rows : Satisfies(table, row)
      THEN [d EXCEPT ![s.table].rows = @ \union rows] ELSE NONE
-----------------------------------------------------------------------------
(* The updates that are not plain copies. *)

Set(d, t, Where(_), column, value) ==
  [d EXCEPT ![t].rows = {IF Where(row) THEN [row EXCEPT ![column] = value] ELSE row : row \in @}]

remove_helper_socket(d) ==
  Set(d, "system_settings", LAMBDA row : row.id = "share_settings", "payload", "payload")

retire_vm_approvals(d) ==
  LET open == {a \in d["pending_approvals"].rows :
                 a.kind = "vm_operation" /\ a.status \in {"pending", "approved"}}
      ids == {a.id : a \in open}
      jobs == {a.job_id : a \in open}
      d1 == Set(d, "vm_operations",
                LAMBDA row : row.status \in {"proposed", "approved"} /\ row.approval_id \in ids,
                "status", "failed")
      d2 == Set(d1, "jobs", LAMBDA row : row.status = "waiting_approval" /\ row.id \in jobs,
                "status", "cancelled")
      d3 == Set(d2, "operation_notifications", LAMBDA row : row.job_id \in jobs,
                "status", "cancelled")
  IN  Set(d3, "pending_approvals", LAMBDA row : row.id \in ids, "status", "expired")

\* INSERT OR IGNORE INTO system_settings
setting(d, key, payload) ==
  IF \E row \in d["system_settings"].rows : row.id = key THEN d
  ELSE [d EXCEPT !["system_settings"].rows = @ \union {[id |-> key, payload |-> payload]}]

settings_moved(d, from, to) ==
  IF \E row \in d["system_settings"].rows : row.id = from
  THEN setting(d, to, (CHOOSE row \in d["system_settings"].rows : row.id = from).payload)
  ELSE d

move_photo_settings(d) ==
  LET d1 == settings_moved(d, "photo_library", "photostaff_library_settings")
      d2 == settings_moved(d1, "photo_map_settings", "photostaff_map_settings")
      d3 == setting(d2, "photostaff_processing_settings", "defaults")
  IN  [d3 EXCEPT !["system_settings"].rows =
         {row \in @ : row.id \notin {"photo_library", "photo_map_settings"}}]

\* One legacy row per root that counts the text rows with a file, and one
\* fresh watcher state per root.
seed_index_state(d) ==
  LET roots == d["nas_roots"].rows
      Total(r) == Cardinality({t \in d["indexed_text"].rows :
                    t.root_id = r.id /\ \E f \in d["indexed_files"].rows :
                                          f.id = t.file_id /\ f.root_id = t.root_id})
      d1 == [d EXCEPT
               !["index_content_state"].rows =
                  {[id |-> r.id, payload |-> "legacy", root_id |-> r.id,
                    legacy_total |-> Total(r)] : r \in roots},
               !["index_root_state"].rows =
                  {[id |-> r.id, payload |-> "starting", root_id |-> r.id] : r \in roots}]
  IN  setting(d1, "indexer_settings", "defaults")

\* The user messages and the agent's answers and failures, in the order of
\* their timestamps, messages first on a tie; what a system message caused is
\* left out.
legacy_transcript(d) ==
  LET messages == {[session_id |-> x.session_id, message_id |-> x.id, event_id |-> "null",
                    at |-> x.created_at, rank |-> 0] :
                     x \in {y \in d["agent_messages"].rows : y.role = "user"}}
      System(e) == \E j \in d["jobs"].rows, x \in d["agent_messages"].rows :
                     j.id = e.job_id /\ x.id = j.message_id /\ x.role = "system"
      events == {[session_id |-> x.session_id, message_id |-> "null", event_id |-> x.id,
                  at |-> x.created_at, rank |-> 1] :
                   x \in {y \in d["agent_events"].rows :
                            y.type \in {"agent.message", "job.failed"} /\ ~System(y)}}
      Before(a, b) == a.at < b.at \/ (a.at = b.at /\ a.rank < b.rank)
      ordered == SetToSortSeq(messages \union events, Before)
  IN  [d EXCEPT !["agent_transcript_items"].rows =
         {[id |-> i, payload |-> "null", session_id |-> ordered[i].session_id,
           message_id |-> ordered[i].message_id, event_id |-> ordered[i].event_id] :
            i \in 1..Len(ordered)}]

Exec(d, s, fk) ==
  IF d = NONE THEN NONE ELSE
  CASE s.op = "create" ->
         IF s.table \notin DOMAIN d THEN (s.table :> s.new) @@ d
         ELSE IF s.lenient THEN d ELSE NONE
    [] s.op = "add" ->
         IF s.table \notin DOMAIN d \/ s.column \in d[s.table].columns THEN NONE
         ELSE [d EXCEPT ![s.table].columns = @ \union {s.column},
                        ![s.table].check = s.check @@ @,
                        ![s.table].rows = {(s.column :> s.default) @@ row : row \in @}]
    [] s.op = "rename" ->
         IF s.table \notin DOMAIN d \/ s.name \in DOMAIN d THEN NONE
         ELSE renamed(d, s.table, s.name, fk)
    [] s.op = "drop" -> IF s.table \in DOMAIN d THEN dropped(d, s.table, fk) ELSE NONE
    [] s.op = "attach" ->
         IF \E t \in DOMAIN d : s.name \in d[t].attached THEN (IF s.lenient THEN d ELSE NONE)
         ELSE IF s.table \notin DOMAIN d THEN NONE
         ELSE [d EXCEPT ![s.table].attached = @ \union {s.name}]
    [] s.op = "copy" -> copied(d, s)
    [] s.op = "remove_helper_socket" -> remove_helper_socket(d)
    [] s.op = "retire_vm_approvals" -> retire_vm_approvals(d)
    [] s.op = "move_photo_settings" -> move_photo_settings(d)
    [] s.op = "seed_index_state" -> seed_index_state(d)
    [] s.op = "drop_job_index" -> [d EXCEPT !["jobs"].attached = @ \ {"idx_jobs_status_created_at"}]
    [] s.op = "legacy_transcript" -> legacy_transcript(d)
-----------------------------------------------------------------------------
(* The migrations, in the order of the array in schema.ts. *)

ApprovalStatus == {"pending", "approved", "rejected", "expired", "applied", "failed"}

m001_initial ==
  << CreateIf("users", Plain({})), CreateIf("nas_roots", Plain({})),
     CreateIf("agent_sessions", Plain({<<"root_id", "nas_roots", "RESTRICT">>})),
     CreateIf("agent_messages", Table({"created_at"}, {To("session_id", "agent_sessions")},
       [role |-> {"user", "assistant", "system", "tool"}])),
     CreateIf("jobs", Table({}, {To("session_id", "agent_sessions"), To("message_id", "agent_messages")},
       [status |-> {"queued", "running", "waiting_approval", "completed", "failed", "cancelled"}])),
     AttachIf("jobs", "idx_jobs_status_created_at"),
     CreateIf("agent_events", Table({"created_at", "type"},
       {To("session_id", "agent_sessions"), Loose("job_id", "jobs")}, <<>>)),
     AttachIf("agent_events", "idx_agent_events_session_id_id"),
     CreateIf("tool_calls", Plain({To("job_id", "jobs")})),
     CreateIf("pending_approvals", Table({}, {To("job_id", "jobs")}, [status |-> ApprovalStatus])),
     CreateIf("file_operations", Plain({Loose("approval_id", "pending_approvals")})),
     CreateIf("indexed_files", Plain({To("root_id", "nas_roots")})),
     CreateIf("indexed_text", Plain({Bare("file_id", "indexed_files"), Bare("root_id", "nas_roots")})),
     CreateIf("file_tags", Plain({To("file_id", "indexed_files")})),
     CreateIf("trash_entries", Plain({To("root_id", "nas_roots")})) >>

m002_nas_roots_enabled == << Add("nas_roots", "enabled", "1") >>

m003_system_settings == << CreateIf("system_settings", Plain({})) >>

m004_pi_sessions_and_tool_approvals ==
  << CreateIf("agent_provider_sessions", Plain({To("session_id", "agent_sessions")})),
     AddOneOf("pending_approvals", "kind", "file_operation",
              {"file_operation", "pi_tool_call", "docker_operation"}),
     AttachIf("pending_approvals", "idx_pending_approvals_kind_status_created_at") >>

\* SQLite cannot change a CHECK: the table is renamed, created again, filled
\* from the old one and its index is made anew.
Rebuild(t, old, table, columns) ==
  << Rename(t, old), Create(t, table), Copy(old, t, columns, columns), Drop(old) >>

rebuild_approvals(kinds) ==
  Rebuild("pending_approvals", "pending_approvals_old",
          Table({}, {To("job_id", "jobs")}, [status |-> ApprovalStatus, kind |-> kinds]),
          <<"id", "job_id", "status", "payload", "kind">>)
  \o << AttachIf("pending_approvals", "idx_pending_approvals_kind_status_created_at") >>

OperationStatus == {"proposed", "approved", "applied", "failed"}
DockerActions == {"start", "stop", "restart", "remove", "compose_up", "compose_down",
                  "compose_pull", "compose_restart", "console"}
DockerTargets == {"container", "compose_project", "console"}

Operations(actions) ==
  Table({}, {Loose("approval_id", "pending_approvals")},
        [action |-> actions, status |-> OperationStatus])
DockerOperations(actions, targets) ==
  Table({}, {Loose("approval_id", "pending_approvals")},
        [action |-> actions, target_type |-> targets, status |-> OperationStatus])

m005_docker_management ==
  rebuild_approvals({"file_operation", "pi_tool_call", "docker_operation"}) \o
  << CreateIf("docker_operations", DockerOperations(DockerActions, DockerTargets)),
     AttachIf("docker_operations", "idx_docker_operations_created_at"),
     CreateIf("docker_console_authorizations",
       Plain({To("operation_id", "docker_operations"), To("approval_id", "pending_approvals")})),
     AttachIf("docker_console_authorizations", "idx_docker_console_authorizations_status_expires_at") >>

m006_share_management ==
  rebuild_approvals({"file_operation", "pi_tool_call", "docker_operation", "share_operation"}) \o
  << CreateIf("share_operations", Operations({"apply_settings"})),
     AttachIf("share_operations", "idx_share_operations_created_at") >>

m006a_storage_management ==
  rebuild_approvals({"file_operation", "pi_tool_call", "docker_operation", "share_operation",
                     "storage_operation"}) \o
  << CreateIf("storage_operations", Operations({"create_pool"})),
     AttachIf("storage_operations", "idx_storage_operations_created_at") >>

m006b_vm_management ==
  rebuild_approvals({"file_operation", "pi_tool_call", "docker_operation", "share_operation",
                     "storage_operation", "vm_operation"}) \o
  << CreateIf("vm_operations", Operations({"create", "start", "shutdown", "stop", "restart", "pause",
       "resume", "reset", "snapshot", "delete", "console"})),
     AttachIf("vm_operations", "idx_vm_operations_created_at"),
     CreateIf("vm_console_authorizations",
       Plain({To("operation_id", "vm_operations"), To("approval_id", "pending_approvals")})),
     AttachIf("vm_console_authorizations", "idx_vm_console_authorizations_status_expires_at") >>

m007_indexer_status ==
  << CreateIf("index_runs", Plain({To("root_id", "nas_roots")})),
     AttachIf("index_runs", "idx_index_runs_root_started_at"),
     CreateIf("index_failures", Plain({To("run_id", "index_runs"), To("root_id", "nas_roots")})),
     AttachIf("index_failures", "idx_index_failures_run_id") >>

m008_index_failure_root_guard ==
  << AttachIf("index_failures", "trg_index_failures_root_matches_run"),
     AttachIf("index_failures", "trg_index_failures_root_matches_run_update") >>

m009_p0_operations ==
  << Add("nas_roots", "mount_policy", "optional"), Add("nas_roots", "expected_source", "null"),
     Add("nas_roots", "expected_uuid", "null"), Add("nas_roots", "expected_fstype", "null"),
     Add("index_runs", "duration_ms", "null"), Add("index_runs", "bytes", "0"),
     Add("index_runs", "file_count", "0"), Add("index_runs", "text_file_count", "0"),
     Add("index_runs", "phase", "null"), Add("index_runs", "current_path", "null"),
     Add("index_runs", "last_progress_at", "null"),
     CreateIf("nas_root_readiness", Plain({To("root_id", "nas_roots")})),
     CreateIf("backup_runs", Plain({})),
     CreateIf("backup_failures", Plain({To("run_id", "backup_runs"), To("root_id", "nas_roots")})),
     AttachIf("backup_runs", "idx_backup_runs_started_at"),
     AttachIf("backup_failures", "idx_backup_failures_run_id"),
     AttachIf("backup_failures", "trg_backup_failures_root_matches_run"),
     CreateIf("health_alerts", Plain({To("root_id", "nas_roots")})),
     AttachIf("health_alerts", "idx_health_alerts_status_last_seen"),
     CreateIf("execution_locks", Plain({})) >>

m010_index_run_history_archive ==
  << CreateIf("index_run_history", Plain({To("root_id", "nas_roots")})),
     AttachIf("index_run_history", "idx_index_run_history_root_started_at") >>

m011_storage_pool_delete ==
  Rebuild("storage_operations", "storage_operations_old", Operations({"create_pool", "delete_pool"}),
          <<"id", "approval_id", "action", "status", "payload">>)
  \o << AttachIf("storage_operations", "idx_storage_operations_created_at") >>

m012_docker_resource_create ==
  Rebuild("docker_operations", "docker_operations_old",
          DockerOperations(DockerActions \union {"create"}, DockerTargets \union {"volume", "network"}),
          <<"id", "approval_id", "action", "target_type", "status", "payload">>)
  \o << AttachIf("docker_operations", "idx_docker_operations_created_at") >>

m013_download_tasks ==
  << CreateIf("download_tasks",
       Plain({<<"root_id", "nas_roots", "RESTRICT">>, Loose("file_operation_id", "file_operations")})),
     AttachIf("download_tasks", "idx_download_tasks_status_created_at"),
     AttachIf("download_tasks", "idx_download_tasks_updated_at") >>

m014_operation_notifications ==
  << CreateIf("operation_notifications",
       Table({}, {To("job_id", "jobs"), To("session_id", "agent_sessions")},
             [status |-> {"pending_approval", "running", "succeeded", "failed", "rejected", "cancelled"}])),
     AttachIf("operation_notifications", "idx_operation_notifications_updated_at"),
     AttachIf("operation_notifications", "idx_operation_notifications_unread_updated_at") >>

m015_terminal_tabs ==
  << CreateIf("terminal_tabs", Plain({To("root_id", "nas_roots")})),
     AttachIf("terminal_tabs", "idx_terminal_tabs_root_ordinal"),
     CreateIf("terminal_tab_sets", Plain({To("root_id", "nas_roots"), Bare("active_tab_id", "terminal_tabs")})),
     AttachIf("terminal_tab_sets", "trg_terminal_tab_sets_active_insert"),
     AttachIf("terminal_tab_sets", "trg_terminal_tab_sets_active_update") >>

m016_hostd_config == << Update("remove_helper_socket") >>

m017_photo_library ==
  << CreateIf("photo_assets", Table({"size_bytes", "mtime_ms"}, {To("root_id", "nas_roots")},
       [status |-> {"ready", "failed"}])),
     AttachIf("photo_assets", "idx_photo_assets_timeline"),
     AttachIf("photo_assets", "idx_photo_assets_content_hash"),
     CreateIf("photo_jobs", Table({"worker_id", "lease_expires_at", "started_at", "finished_at"},
       {To("root_id", "nas_roots")}, [status |-> {"queued", "running", "completed", "failed"}])),
     AttachIf("photo_jobs", "idx_photo_jobs_status_created_at"),
     AttachIf("photo_jobs", "idx_photo_jobs_library_created_at") >>

m018_photo_upload_reservations ==
  << CreateIf("photo_upload_reservations", Plain({})),
     AttachIf("photo_upload_reservations", "idx_photo_upload_reservations_created_at") >>

m019_photo_metadata_index ==
  << CreateIf("photo_asset_metadata", Plain({To("asset_id", "photo_assets")})),
     AttachIf("photo_asset_metadata", "idx_photo_asset_metadata_version"),
     AttachIf("photo_asset_metadata", "idx_photo_asset_metadata_camera"),
     AttachIf("photo_asset_metadata", "idx_photo_asset_metadata_lens"),
     AttachIf("photo_asset_metadata", "idx_photo_asset_metadata_capture"),
     AttachIf("photo_asset_metadata", "idx_photo_asset_metadata_rating"),
     CreateIf("photo_keywords", Plain({To("asset_id", "photo_assets")})),
     AttachIf("photo_keywords", "idx_photo_keywords_value"),
     CreateIf("photo_metadata_values", Plain({To("asset_id", "photo_assets")})),
     AttachIf("photo_metadata_values", "idx_photo_metadata_values_key_type"),
     AttachIf("photo_metadata_values", "idx_photo_metadata_values_text"),
     AttachIf("photo_metadata_values", "idx_photo_metadata_values_number"),
     AttachIf("photo_metadata_values", "idx_photo_metadata_values_date"),
     CreateIf("photo_metadata_fts", Plain({Bare("asset_id", "photo_assets")})),
     CreateIf("photo_geo_index", Plain({Bare("metadata_rowid", "photo_asset_metadata")})),
     AttachIf("photo_asset_metadata", "trg_photo_asset_metadata_delete_indexes") >>

m020_docker_compose_apps ==
  << CreateIf("docker_apps", Plain({})),
     CreateIf("docker_app_environment", Plain({To("app_id", "docker_apps")})),
     AttachIf("docker_apps", "idx_docker_apps_updated_at") >>

m021_vm_direct_actions ==
  << Update("retire_vm_approvals") >> \o
  Rebuild("vm_console_authorizations", "vm_console_authorizations_old",
          Plain({To("operation_id", "vm_operations"), To("approval_id", "pending_approvals")}),
          <<"id", "operation_id", "approval_id", "payload">>)
  \o << Attach("vm_console_authorizations", "idx_vm_console_authorizations_status_expires_at") >>

m022_downloader_reliability ==
  [i \in 1..10 |-> Add("download_tasks",
     <<"phase", "download_mode", "expected_sha256", "actual_sha256", "error_code", "error_retryable",
       "retry_count", "next_retry_at", "control_requested", "segment_count">>[i],
     IF i \in {6, 7, 10} THEN "0" ELSE "null")] \o
  << Create("download_segments", Plain({To("task_id", "download_tasks")})),
     Create("download_publish_journal", Plain({To("task_id", "download_tasks")})),
     Create("download_space_reservations", Plain({To("task_id", "download_tasks")})),
     Create("download_workers", Plain({})),
     Attach("download_tasks", "idx_download_tasks_claim"),
     Attach("download_workers", "idx_download_workers_heartbeat") >>

\* 023_photostaff_reliability, one table at a time.
photostaff_assets ==
  << Create("photostaff_assets", Table({"size_bytes", "mtime_ms", "source_size_bytes", "source_mtime_ns",
       "source_device", "source_inode", "scan_generation"}, {To("root_id", "nas_roots")},
       [status |-> {"ready", "failed"}])),
     Copy("photo_assets", "photostaff_assets",
       <<"id", "root_id", "payload", "size_bytes", "mtime_ms", "status", "source_size_bytes", "source_mtime_ns">>,
       <<"id", "root_id", "payload", "size_bytes", "mtime_ms", "status", "size_bytes", "mtime_ms * 1000000">>),
     Attach("photostaff_assets", "idx_photostaff_assets_timeline"),
     Attach("photostaff_assets", "idx_photostaff_assets_content_hash") >>

photostaff_jobs ==
  << Create("photostaff_jobs", Table({"worker_id", "lease_expires_at", "started_at", "finished_at",
       "scan_generation"}, {To("root_id", "nas_roots")},
       [status |-> {"queued", "running", "retrying", "completed", "failed"}])),
     Copy("photo_jobs", "photostaff_jobs",
       <<"id", "root_id", "payload", "status", "scan_generation", "worker_id", "lease_expires_at",
         "started_at", "finished_at">>,
       <<"id", "root_id", "payload", "requeued", "id", "null", "null",
         "started_at unless running", "finished_at unless running">>),
     Attach("photostaff_jobs", "idx_photostaff_jobs_claim"),
     Attach("photostaff_jobs", "idx_photostaff_jobs_library_created_at") >>

photostaff_upload_reservations ==
  << Create("photostaff_upload_reservations", Plain({})),
     Copy("photo_upload_reservations", "photostaff_upload_reservations",
       <<"id", "payload">>, <<"id", "payload">>),
     Attach("photostaff_upload_reservations", "idx_photostaff_upload_reservations_created_at") >>

\* Mutant: the rowid is not copied, and SQLite numbers the rows anew.
metadata_renumbered ==
  << Create("photostaff_asset_metadata", Plain({To("asset_id", "photostaff_assets")})),
     Copy("photo_asset_metadata", "photostaff_asset_metadata",
       <<"id", "asset_id", "payload">>, <<"new rowid", "asset_id", "payload">>),
     Attach("photostaff_asset_metadata", "idx_photostaff_asset_metadata_version"),
     Attach("photostaff_asset_metadata", "idx_photostaff_asset_metadata_camera"),
     Attach("photostaff_asset_metadata", "idx_photostaff_asset_metadata_lens"),
     Attach("photostaff_asset_metadata", "idx_photostaff_asset_metadata_capture"),
     Attach("photostaff_asset_metadata", "idx_photostaff_asset_metadata_rating") >>

\* "id" is the rowid, which the spatial index refers to.
photostaff_asset_metadata ==
  << Create("photostaff_asset_metadata", Plain({To("asset_id", "photostaff_assets")})),
     Copy("photo_asset_metadata", "photostaff_asset_metadata",
       <<"id", "asset_id", "payload">>, <<"id", "asset_id", "payload">>),
     Attach("photostaff_asset_metadata", "idx_photostaff_asset_metadata_version"),
     Attach("photostaff_asset_metadata", "idx_photostaff_asset_metadata_camera"),
     Attach("photostaff_asset_metadata", "idx_photostaff_asset_metadata_lens"),
     Attach("photostaff_asset_metadata", "idx_photostaff_asset_metadata_capture"),
     Attach("photostaff_asset_metadata", "idx_photostaff_asset_metadata_rating") >>

photostaff_metadata_indexes ==
  << Create("photostaff_keywords", Plain({To("asset_id", "photostaff_assets")})),
     Copy("photo_keywords", "photostaff_keywords",
       <<"id", "asset_id", "payload">>, <<"id", "asset_id", "payload">>),
     Attach("photostaff_keywords", "idx_photostaff_keywords_value"),
     Create("photostaff_metadata_values", Plain({To("asset_id", "photostaff_assets")})),
     Copy("photo_metadata_values", "photostaff_metadata_values",
       <<"id", "asset_id", "payload">>, <<"id", "asset_id", "payload">>),
     Attach("photostaff_metadata_values", "idx_photostaff_metadata_values_key_type"),
     Attach("photostaff_metadata_values", "idx_photostaff_metadata_values_text"),
     Attach("photostaff_metadata_values", "idx_photostaff_metadata_values_number"),
     Attach("photostaff_metadata_values", "idx_photostaff_metadata_values_date"),
     Create("photostaff_metadata_fts", Plain({Bare("asset_id", "photostaff_assets")})),
     Copy("photo_metadata_fts", "photostaff_metadata_fts",
       <<"id", "asset_id", "payload">>, <<"id", "asset_id", "payload">>),
     Create("photostaff_geo_index", Plain({Bare("metadata_rowid", "photostaff_asset_metadata")})),
     Copy("photo_geo_index", "photostaff_geo_index",
       <<"id", "metadata_rowid", "payload">>, <<"id", "metadata_rowid", "payload">>),
     Attach("photostaff_asset_metadata", "trg_photostaff_asset_metadata_delete_indexes") >>

photostaff_worker_state ==
  << Create("photostaff_scan_entries", Plain({To("job_id", "photostaff_jobs")})),
     Attach("photostaff_scan_entries", "idx_photostaff_scan_entries_claim"),
     Create("photostaff_publish_journal", Plain({To("job_id", "photostaff_jobs")})),
     Create("photostaff_space_reservations", Plain({To("job_id", "photostaff_jobs")})),
     Attach("photostaff_space_reservations", "idx_photostaff_space_reservations_pool"),
     Create("photostaff_workers", Plain({})),
     Attach("photostaff_workers", "idx_photostaff_workers_heartbeat") >>

photo_tables_dropped ==
  [i \in 1..8 |-> Drop(<<"photo_geo_index", "photo_metadata_fts", "photo_metadata_values", "photo_keywords",
     "photo_asset_metadata", "photo_upload_reservations", "photo_jobs", "photo_assets">>[i])]

m023_photostaff_reliability ==
  photostaff_assets \o photostaff_jobs \o photostaff_upload_reservations \o photostaff_asset_metadata
  \o photostaff_metadata_indexes \o photostaff_worker_state \o << Update("move_photo_settings") >>
  \o photo_tables_dropped

m024_rust_indexer ==
  << CreateIf("indexed_files", Plain({To("root_id", "nas_roots")})),
     CreateIf("indexed_text", Plain({Bare("file_id", "indexed_files"), Bare("root_id", "nas_roots")})) >> \o
  [i \in 1..10 |-> Add("indexed_files",
     <<"storage_pool_id", "source_device", "source_inode", "source_size_bytes", "source_mtime_ns",
       "source_ctime_ns", "scan_generation", "extraction_source", "extraction_status", "extraction_error">>[i],
     IF i = 9 THEN "pending" ELSE "null")] \o
  << Add("index_runs", "kind", "full"), Add("index_run_history", "kind", "full"),
     Create("index_queue", Plain({To("root_id", "nas_roots")})),
     Attach("index_queue", "idx_index_queue_claim"), Attach("index_queue", "idx_index_queue_root"),
     Create("index_content_state", Table({"legacy_total"}, {To("root_id", "nas_roots")}, <<>>)),
     Create("indexed_content_fts", Plain({Bare("file_id", "indexed_files"), Bare("root_id", "nas_roots")})),
     Create("indexer_workers", Plain({})), Attach("indexer_workers", "idx_indexer_workers_heartbeat"),
     Create("index_root_state", Plain({To("root_id", "nas_roots")})),
     Update("seed_index_state") >>

m025_ops_runs ==
  << Create("ops_runs", Plain({})), Attach("ops_runs", "idx_ops_runs_task_started_at"),
     Attach("ops_runs", "idx_ops_runs_status_heartbeat") >>

m026_file_batches ==
  << AddOneOf("jobs", "kind", "agent", {"agent", "file_batch"}), Update("drop_job_index"),
     Attach("jobs", "idx_jobs_kind_status_created_at"),
     Create("file_batches", Plain({To("job_id", "jobs"), To("session_id", "agent_sessions"),
                                   <<"root_id", "nas_roots", "RESTRICT">>})),
     Attach("file_batches", "idx_file_batches_scope_created_at"),
     Attach("file_batches", "idx_file_batches_session_created_at"),
     Create("file_batch_items", Plain({To("batch_id", "file_batches")})),
     Attach("file_batch_items", "idx_file_batch_items_claim"),
     Attach("file_batch_items", "idx_file_batch_items_source") >>

m027_agent_transcript_sequence ==
  << Create("agent_transcript_items", Plain({To("session_id", "agent_sessions"),
       To("message_id", "agent_messages"), To("event_id", "agent_events")})),
     Attach("agent_transcript_items", "idx_agent_transcript_items_session_sequence"),
     Attach("agent_transcript_items", "trg_agent_transcript_items_validate_insert"),
     Attach("agent_transcript_items", "trg_agent_transcript_items_validate_update"),
     Update("legacy_transcript") >>

migrations ==
  << m001_initial, m002_nas_roots_enabled, m003_system_settings, m004_pi_sessions_and_tool_approvals,
     m005_docker_management, m006_share_management, m006a_storage_management, m006b_vm_management,
     m007_indexer_status, m008_index_failure_root_guard,
     m009_p0_operations, m010_index_run_history_archive, m011_storage_pool_delete,
     m012_docker_resource_create, m013_download_tasks, m014_operation_notifications, m015_terminal_tabs,
     m016_hostd_config, m017_photo_library, m018_photo_upload_reservations, m019_photo_metadata_index,
     m020_docker_compose_apps, m021_vm_direct_actions, m022_downloader_reliability,
     m023_photostaff_reliability, m024_rust_indexer, m025_ops_runs, m026_file_batches,
     m027_agent_transcript_sequence >>

\* 005, 006, 006a, 006b, 011, 012, 021 and 023
disableForeignKeys == {5, 6, 7, 8, 13, 14, 23, 25}
-----------------------------------------------------------------------------
Run(d, i, fk) ==
  LET After[k \in 0..Len(migrations[i])] ==
        IF k = 0 THEN d
        ELSE CHOOSE e \in {Exec(before, migrations[i][k], fk) : before \in {After[k - 1]}} : TRUE
  IN  After[Len(migrations[i])]

\* The database as the first n migrations leave it.
At[n \in 0..Len(migrations)] ==
  IF n = 0 THEN <<>>
  ELSE CHOOSE d \in {Run(older, n, n \notin disableForeignKeys) : older \in {At[n - 1]}} : TRUE

Fresh == At[Len(migrations)]

\* One row in every table, with the wanted values where a CHECK lists them.
\* "event_first" is a transcript whose answer is older than its message.
Filled(d, wants) ==
  LET Pick(set) == IF set \intersect wants # {} THEN CHOOSE v \in set \intersect wants : TRUE
                   ELSE CHOOSE v \in set : TRUE
      Cell(t, c) ==
        CASE c = "id" -> t
          [] c = "created_at" -> IF t = "agent_messages" /\ "event_first" \in wants THEN 2 ELSE 1
          [] c = "type" -> Pick({"agent.message", "job.started"})
          [] \E r \in d[t].refs : r[1] = c -> (CHOOSE r \in d[t].refs : r[1] = c)[2]
          [] c \in DOMAIN d[t].check -> Pick(d[t].check[c])
          [] OTHER -> c
      Setting(key) == [id |-> key, payload |-> IF key = "share_settings" THEN "with socket" ELSE "payload"]
  IN  [t \in DOMAIN d |->
         [d[t] EXCEPT !.rows =
            IF t = "system_settings"
            THEN {Setting(key) : key \in {"share_settings", "photo_library", "photo_map_settings"}}
            ELSE {[c \in d[t].columns |-> Cell(t, c)]}]]

Found == [s \in Starts |-> IF s.version = 0 THEN <<>> ELSE Filled(At[s.version], s.wants)]

Off == [state |-> "off", at |-> 0, missing |-> FALSE, foreign_keys |-> TRUE]

Init ==
  /\ start \in Starts
  /\ db = Found[start]
  /\ applied = 1..start.version
  /\ proc = [p \in Procs |-> Off]
  /\ trouble = 0

openZosDb(p) ==
  /\ proc[p].state = "off"
  /\ proc' = [proc EXCEPT ![p] = [Off EXCEPT !.state = "migrating", !.at = 1]]
  /\ UNCHANGED <<db, applied, start, trouble>>

\* Mutant: foreign keys stay on while a table is rebuilt.
looks_with_foreign_keys(p) ==
  /\ proc[p].state = "migrating" /\ proc[p].at <= Len(migrations) /\ ~proc[p].missing
  /\ proc' = IF proc[p].at \in applied THEN [proc EXCEPT ![p].at = @ + 1]
             ELSE [proc EXCEPT ![p].missing = TRUE]
  /\ UNCHANGED <<db, applied, start, trouble>>

\* The look before the lock, and the pragma a transaction cannot change.
LooksFor(p) ==
  /\ proc[p].state = "migrating" /\ proc[p].at <= Len(migrations) /\ ~proc[p].missing
  /\ proc' = IF proc[p].at \in applied THEN [proc EXCEPT ![p].at = @ + 1]
             ELSE [proc EXCEPT ![p].missing = TRUE,
                               ![p].foreign_keys = proc[p].at \notin disableForeignKeys]
  /\ UNCHANGED <<db, applied, start, trouble>>

\* Mutant: no second look under the lock.
apply_unchecked(p) ==
  /\ proc[p].state = "migrating" /\ proc[p].missing
  /\ LET i == proc[p].at
         result == Run(db, i, proc[p].foreign_keys)
     IN  IF result = NONE
         THEN /\ proc' = [proc EXCEPT ![p] = [Off EXCEPT !.state = "failed"]]
              /\ UNCHANGED <<db, applied>>
         ELSE /\ db' = result /\ applied' = applied \union {i}
              /\ proc' = [proc EXCEPT ![p].at = i + 1, ![p].missing = FALSE, ![p].foreign_keys = TRUE]
  /\ UNCHANGED <<start, trouble>>

\* apply.immediate: the second look under the write lock, the statements and
\* the record in one transaction; the pragmas come back either way.
apply(p) ==
  /\ proc[p].state = "migrating" /\ proc[p].missing
  /\ LET i == proc[p].at
         result == IF i \in applied THEN db ELSE Run(db, i, proc[p].foreign_keys)
     IN  IF result = NONE
         THEN /\ proc' = [proc EXCEPT ![p] = [Off EXCEPT !.state = "failed"]]
              /\ UNCHANGED <<db, applied>>
         ELSE /\ db' = result /\ applied' = applied \union {i}
              /\ proc' = [proc EXCEPT ![p].at = i + 1, ![p].missing = FALSE, ![p].foreign_keys = TRUE]
  /\ UNCHANGED <<start, trouble>>

Opened(p) ==
  /\ proc[p].state = "migrating" /\ proc[p].at > Len(migrations)
  /\ proc' = [proc EXCEPT ![p] = [Off EXCEPT !.state = "up"]]
  /\ UNCHANGED <<db, applied, start, trouble>>

\* The process dies; an open transaction is rolled back.
Dies(p) ==
  /\ proc[p].state = "migrating" /\ trouble < MaxTrouble
  /\ proc' = [proc EXCEPT ![p] = Off]
  /\ trouble' = trouble + 1
  /\ UNCHANGED <<db, applied, start>>

Next == \E p \in Procs : openZosDb(p) \/ LooksFor(p) \/ apply(p) \/ Opened(p) \/ Dies(p)

Spec == Init /\ [][Next]_vars
-----------------------------------------------------------------------------
TypeOK ==
  /\ applied \subseteq 1..Len(migrations)
  /\ \A p \in Procs : /\ proc[p].state \in {"off", "migrating", "up", "failed"}
                      /\ proc[p].at \in 0..(Len(migrations) + 1)
  /\ start \in Starts /\ trouble \in 0..MaxTrouble

\* No start fails on a statement (a column that is already there, a table or
\* an index of that name, a copied row the new CHECK refuses), whoever runs
\* which migration, and a process that is through works on the tables, columns,
\* foreign keys and indexes a fresh installation has.
UpgradedIsFresh ==
  /\ \A p \in Procs : proc[p].state # "failed"
  /\ (\E p \in Procs : proc[p].state = "up") =>
       /\ DOMAIN db = DOMAIN Fresh
       /\ \A t \in DOMAIN db : /\ db[t].columns = Fresh[t].columns
                               /\ db[t].refs = Fresh[t].refs
                               /\ db[t].attached = Fresh[t].attached

Successor(t) ==
  CASE t = "photo_assets" -> "photostaff_assets" [] t = "photo_jobs" -> "photostaff_jobs"
    [] t = "photo_upload_reservations" -> "photostaff_upload_reservations"
    [] t = "photo_asset_metadata" -> "photostaff_asset_metadata"
    [] t = "photo_keywords" -> "photostaff_keywords"
    [] t = "photo_metadata_values" -> "photostaff_metadata_values"
    [] t = "photo_metadata_fts" -> "photostaff_metadata_fts"
    [] t = "photo_geo_index" -> "photostaff_geo_index"
    [] t = "photo_library" -> "photostaff_library_settings"
    [] t = "photo_map_settings" -> "photostaff_map_settings"
    [] OTHER -> t

\* What a migration may make of a value: a running photo job is queued again
\* without its worker, an open VM approval is retired with its operation, job
\* and notification, and the share settings lose the helper socket.
Becomes(t, c, old, new) ==
  \/ new = old
  \/ t = "photo_jobs" /\ c = "status" /\ old = "running" /\ new = "queued"
  \/ t = "photo_jobs" /\ c \in {"worker_id", "lease_expires_at", "started_at", "finished_at"} /\ new = "null"
  \/ t = "pending_approvals" /\ c = "status" /\ old \in {"pending", "approved"} /\ new = "expired"
  \/ t = "vm_operations" /\ c = "status" /\ old \in {"proposed", "approved"} /\ new = "failed"
  \/ t = "jobs" /\ c = "status" /\ old = "waiting_approval" /\ new = "cancelled"
  \/ t = "operation_notifications" /\ c = "status" /\ new = "cancelled"
  \/ t = "system_settings" /\ old = "with socket" /\ new = "payload"

\* Whatever release left the database behind and wherever the upgrade is
\* interrupted, every row is still there under its id, in its table or the
\* one that replaced it, with the values it had; and every reference, the
\* spatial index's to the metadata row included, finds its row.
LegacyDataSurvives ==
  /\ \A t \in DOMAIN Found[start] : \A old \in Found[start][t].rows :
       LET place == IF t \in DOMAIN db THEN t ELSE Successor(t)
           id == IF t = "system_settings" /\ (\A row \in db[t].rows : row.id # old.id)
                 THEN Successor(old.id) ELSE old.id
       IN  \E row \in db[place].rows :
             /\ row.id = id
             /\ \A c \in DOMAIN old \ {"id"} : Becomes(t, c, old[c], row[c])
  /\ \A t \in DOMAIN db : \A r \in db[t].refs :
       /\ r[2] \in DOMAIN db
       /\ \A row \in db[t].rows : row[r[1]] = "null" \/ \E parent \in db[r[2]].rows : parent.id = row[r[1]]
=============================================================================
