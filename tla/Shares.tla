------------------------------- MODULE Shares -------------------------------
(***************************************************************************)
(* Network shares: how share settings are applied, and what they mean.     *)
(***************************************************************************)
EXTENDS Naturals, Sequences, FiniteSets, FiniteSetsExt, SequencesExt

-----------------------------------------------------------------------------
(***************************************************************************)
(* Applying share settings: the API's serialized share mutations           *)
(* (apps/api/src/routes/shares.ts, the share branch of approvals.ts and    *)
(* lib/share-service.ts), hostd's shares.apply (apps/hostd/src/shares.rs   *)
(* with acl.rs, credentials.rs and files.rs) and the ACL script it runs    *)
(* (packaging/scripts/zos-share-acl.mjs).                                  *)
(*                                                                         *)
(* Settings say which services are on and which ACL grants the shared      *)
(* directories need; the account is a version number.  A service's managed *)
(* file is the settings it was rendered from.  Any command may fail; hostd *)
(* or the API may be killed between two steps.                             *)
(***************************************************************************)
CONSTANTS
  Settings,     \* share settings, records with fields on and grants
  ALL_SERVICES, \* the protocol services, in the order hostd handles them
  Stopped,      \* those that are stopped when they are not needed
  MaxAccounts,  \* bound on account updates
  MaxApplies,   \* bound on hostd requests
  NONE

VARIABLES
  saved,      \* share_settings in the database: settings and account
  proposals,  \* settings waiting for approval, each with the account it saw
  call,       \* the serialized mutation the API is running, or NONE
  hostd,      \* hostd's shares.apply in progress, or NONE
  files,      \* managed file of each service
  svc,        \* settings a service runs with, or NONE when it is stopped
  account,    \* the account version in htpasswd and smbpasswd
  acl,        \* ACL grants in force
  aclState,   \* grants the script's state file records
  dirty,      \* a process was killed or a command of a rollback failed
  applies

shareVars == <<saved, proposals, call, hostd, files, svc, account, acl, aclState, dirty, applies>>

Service == Range(ALL_SERVICES)

NoShares == [on |-> {}, grants |-> {}]

ApplyInit ==
  /\ saved = [settings |-> NoShares, account |-> 0]
  /\ proposals = {}
  /\ call = NONE /\ hostd = NONE
  /\ files = [s \in Service |-> NoShares]
  /\ svc = [s \in Service |-> IF s \in Stopped THEN NONE ELSE NoShares]
  /\ account = 0
  /\ acl = {} /\ aclState = {}
  /\ dirty = FALSE
  /\ applies = 0

hostVars == <<hostd, files, svc, account, acl, aclState>>

-----------------------------------------------------------------------------
(* The API.                                                                *)

\* POST /api/shares/proposals: the settings are normalized now and applied
\* when the approval is given.
Propose(settings) ==
  /\ applies < MaxApplies
  /\ proposals' = proposals \cup {[settings |-> settings, account |-> saved.account]}
  /\ UNCHANGED <<saved, call, dirty, applies>> /\ UNCHANGED hostVars

\* serializeShareMutation: one mutation at a time.
Serialized(kind, settings, acct) ==
  /\ call = NONE /\ hostd = NONE /\ applies < MaxApplies
  /\ applies' = applies + 1
  /\ call' = [kind |-> kind, settings |-> settings, account |-> acct]
  /\ hostd' = [pc |-> "credentials", settings |-> settings, account |-> acct,
               snapshot |-> files, transaction |-> NONE, todo |-> ALL_SERVICES, attempted |-> <<>>]
  /\ UNCHANGED <<saved, files, svc, account, acl, aclState, dirty>>

\* PUT /api/shares/account, for the revision that is saved.
UpdateAccount(expected) ==
  /\ saved.account < MaxAccounts
  /\ expected = saved
  /\ Serialized("account", saved.settings, saved.account + 1)
  /\ UNCHANGED proposals


\* Approval of a share operation: the account is the one saved now.
Approve(p) ==
  /\ p \in proposals
  /\ Serialized("approval", p.settings, saved.account)
  /\ proposals' = proposals \ {p}

\* hostd answered: saveShareSettings after a success, nothing otherwise.
Answered ==
  /\ call # NONE /\ hostd # NONE /\ hostd.pc \in {"done", "failed"}
  /\ saved' = IF hostd.pc = "done"
                THEN [settings |-> call.settings, account |-> call.account] ELSE saved
  /\ call' = NONE /\ hostd' = NONE
  /\ UNCHANGED <<proposals, files, svc, account, acl, aclState, dirty, applies>>

ApiKilled ==
  /\ call # NONE
  /\ call' = NONE
  /\ dirty' = TRUE
  /\ UNCHANGED <<saved, proposals, applies>> /\ UNCHANGED hostVars

-----------------------------------------------------------------------------
(* hostd.                                                                  *)

At(pc) == hostd # NONE /\ hostd.pc = pc

Goto(pc) == hostd' = [hostd EXCEPT !.pc = pc]

api == <<saved, proposals, call, applies>>

\* validate_request and resolve_shares refuse, or htpasswd fails.
Refuse ==
  /\ At("credentials")
  /\ Goto("failed")
  /\ UNCHANGED <<files, svc, account, acl, aclState, dirty>> /\ UNCHANGED api

\* htpasswd, useradd, smbpasswd.
apply_credentials ==
  /\ At("credentials")
  /\ account' = hostd.account
  /\ Goto("prepare")
  /\ UNCHANGED <<files, svc, acl, aclState, dirty>> /\ UNCHANGED api

\* An entry that the state file does not account for is an administrator's.
hasExistingEntry(desired) == (desired \ aclState) \cap acl # {}

\* prepare: snapshot, remove the previous grants, add the desired ones; on
\* failure the script restores the snapshot itself.
prepare ==
  /\ At("prepare")
  /\ LET desired == hostd.settings.grants
     IN \/ /\ ~hasExistingEntry(desired)
           /\ acl' = (acl \ aclState) \cup desired
           /\ hostd' = [hostd EXCEPT !.pc = "files", !.transaction = [before |-> acl, desired |-> desired]]
        \/ UNCHANGED acl /\ Goto("restore")
  /\ UNCHANGED <<files, svc, account, aclState, dirty>> /\ UNCHANGED api

\* The managed files, one after the other.
write_managed_file ==
  /\ At("files")
  /\ \E s \in Service :
       /\ files[s] # hostd.settings
       /\ files' = [files EXCEPT ![s] = hostd.settings]
  /\ UNCHANGED <<hostd, svc, account, acl, aclState, dirty>> /\ UNCHANGED api

FilesWritten ==
  /\ At("files")
  /\ \/ (\A s \in Service : files[s] = hostd.settings) /\ Goto("services")
     \/ Goto("restore")
  /\ UNCHANGED <<files, svc, account, acl, aclState, dirty>> /\ UNCHANGED api

\* What systemctl is asked to do with a service, given whether it is needed.
Needed(s) == s \in hostd.settings.on

AfterAction(s) == IF ~Needed(s) /\ s \in Stopped THEN NONE ELSE files[s]

\* One service: skipped when it is neither needed nor active.  It counts as
\* attempted before the command runs.
ApplyService ==
  /\ At("services") /\ hostd.todo # <<>>
  /\ LET s == Head(hostd.todo)
         active == svc[s] # NONE
     IN IF ~Needed(s) /\ ~active
          THEN hostd' = [hostd EXCEPT !.todo = Tail(@)] /\ UNCHANGED svc
          ELSE \/ /\ svc' = [svc EXCEPT ![s] = AfterAction(s)]
                  /\ hostd' = [hostd EXCEPT !.todo = Tail(@), !.attempted = Append(@, <<s, active>>)]
               \/ /\ svc' \in {svc, [svc EXCEPT ![s] = NONE]}
                  /\ hostd' = [hostd EXCEPT !.pc = "restore", !.attempted = Append(@, <<s, active>>)]
  /\ UNCHANGED <<files, account, acl, aclState, dirty>> /\ UNCHANGED api

\* commit: the state file records the grants.
commit ==
  /\ At("services") /\ hostd.todo = <<>>
  /\ \/ aclState' = hostd.transaction.desired /\ Goto("done")
     \/ UNCHANGED aclState /\ Goto("restore")
  /\ UNCHANGED <<files, svc, account, acl, dirty>> /\ UNCHANGED api

\* Mutant: the services are restarted before the files are back.
restore_services_first ==
  /\ At("restore")
  /\ Goto("undo_services")
  /\ files' = IF hostd.attempted = <<>> THEN hostd.snapshot ELSE files
  /\ acl' = IF hostd.transaction = NONE THEN acl ELSE hostd.transaction.before
  /\ UNCHANGED <<svc, account, aclState, dirty>> /\ UNCHANGED api

\* Rollback: the files, then the ACL ...
restore_files ==
  /\ At("restore")
  /\ files' = hostd.snapshot
  /\ \/ acl' = (IF hostd.transaction = NONE THEN acl ELSE hostd.transaction.before) /\ UNCHANGED dirty
     \/ hostd.transaction # NONE /\ UNCHANGED acl /\ dirty' = TRUE
  /\ Goto("undo_services")
  /\ UNCHANGED <<svc, account, aclState>> /\ UNCHANGED api

\* ... then the attempted services in reverse order.
UndoService ==
  /\ At("undo_services") /\ hostd.attempted # <<>>
  /\ LET s == Last(hostd.attempted)[1]
         active == Last(hostd.attempted)[2]
     IN \/ svc' = [svc EXCEPT ![s] = IF active THEN files[s] ELSE NONE] /\ UNCHANGED dirty
        \/ dirty' = TRUE /\ svc' \in {svc, [svc EXCEPT ![s] = NONE]}
  /\ hostd' = [hostd EXCEPT !.attempted = Front(@)]
  /\ UNCHANGED <<files, account, acl, aclState>> /\ UNCHANGED api

Undone ==
  /\ At("undo_services") /\ hostd.attempted = <<>>
  /\ Goto("failed")
  /\ UNCHANGED <<files, svc, account, acl, aclState, dirty>> /\ UNCHANGED api

\* hostd is killed: the API sees the connection close, nothing is undone.
HostdKilled ==
  /\ hostd # NONE
  /\ hostd' = NONE /\ call' = NONE
  /\ dirty' = TRUE
  /\ UNCHANGED <<saved, proposals, files, svc, account, acl, aclState, applies>>

\* hostd finished for an API that is no longer there.
Unheard ==
  /\ call = NONE /\ hostd # NONE /\ hostd.pc \in {"done", "failed"}
  /\ hostd' = NONE
  /\ UNCHANGED <<files, svc, account, acl, aclState, dirty>> /\ UNCHANGED api

ApplyNext ==
  \/ \E s \in Settings : Propose(s)
  \/ UpdateAccount(saved)
  \/ \E p \in proposals : Approve(p)
  \/ Answered \/ ApiKilled
  \/ Refuse \/ apply_credentials \/ prepare \/ write_managed_file \/ FilesWritten
  \/ ApplyService \/ commit \/ restore_files \/ UndoService \/ Undone
  \/ HostdKilled \/ Unheard

ApplySpec == ApplyInit /\ [][ApplyNext]_shareVars

-----------------------------------------------------------------------------
\* An account that was saved is never replaced by an older one, in the database
\* or by a request that hostd carries out, whatever proposals were made before it
\* and approved after it (approvals.ts, serializeShareMutation).
AccountNeverGoesBack ==
  [][/\ saved'.account >= saved.account
     /\ hostd' # NONE => hostd'.account >= saved'.account]_shareVars


-----------------------------------------------------------------------------
(***************************************************************************)
(* What share settings mean: their normalization and checks in the API     *)
(* (apps/api/src/lib/share-settings.ts), their storage                     *)
(* (packages/db/src/repositories/settings.ts, share-settings-mapper.ts),   *)
(* hostd's checks and service files (apps/hostd/src/shares/validation.rs,  *)
(* render.rs) and the ACL grants that let the services reach the shared    *)
(* directories (acl.rs, packaging/scripts/zos-share-acl.mjs).  How one     *)
(* apply succeeds, fails and rolls back is the first part; here an apply    *)
(* is one step that changes everything or nothing.                         *)
(*                                                                         *)
(* A directory is the sequence of names below its NAS root.  A protocol of *)
(* a share is NONE while disabled, else a record of its options, where     *)
(* NONE is an option the client left out.  A password is only present or   *)
(* absent.                                                                 *)
(***************************************************************************)
CONSTANTS
  Inputs,       \* settings a client sends: [enabled, username, password, shares]
  Files,        \* [shares] tables of config.toml: [enabled, shares]
  Dirs,         \* directories of the NAS root
  WebDavPort, FtpPort, PassivePorts, \* defaults of the ports
  MaxTrouble    \* bound on directories that disappear

VARIABLES
  file,        \* the [shares] table of this installation
  stored,      \* share_settings in system_settings, NONE before the first save
  operation,   \* settings of the share operation that waits for approval
  dirs,        \* directories that exist
  host,        \* what hostd last applied: settings, rendered files, grants
  credentials, \* htpasswd holds a password for the account
  trouble

inputVars == <<file, stored, operation, dirs, host, credentials, trouble>>

Default(value, default) == IF value = NONE THEN default ELSE value

On(share, protocol) == share[protocol] # NONE

\* A share with the options that were left out filled in.
WithDefaults(share, prefix) ==
  [share EXCEPT
     !.webdav = IF @ = NONE THEN NONE
                ELSE [@ EXCEPT !.port = Default(@, WebDavPort), !.prefix = Default(@, prefix)],
     !.ftp = IF @ = NONE THEN NONE
             ELSE [@ EXCEPT !.port = Default(@, FtpPort), !.passive = Default(@, PassivePorts)],
     !.name = Default(@, share.id)]

\* An item of config.toml: without a path it is dropped, and it is checked
\* no further.
normalizeShareItem(item) == WithDefaults(item, Default(item.name, item.id))

loadShareConfig(items) ==
  LET placed == SelectSeq(items, LAMBDA item : item.path # NONE)
  IN [i \in DOMAIN placed |-> normalizeShareItem(placed[i])]

\* The settings while none are stored.
defaultShareSettings ==
  [enabled |-> file.enabled, username |-> "zos-share", password |-> FALSE,
   shares |-> loadShareConfig(file.shares)]

\* A stored record is completed again whenever it is written or read.
normalizeShareSettings(settings) ==
  LET placed == SelectSeq(settings.shares, LAMBDA share : share.path # NONE)
  IN [settings EXCEPT !.shares =
        [i \in DOMAIN placed |-> WithDefaults(placed[i], Default(placed[i].name, placed[i].id))]]

getShareSettings == IF stored = NONE THEN defaultShareSettings ELSE normalizeShareSettings(stored)

-----------------------------------------------------------------------------
(* The API's checks.                                                       *)

normalizeProtocols(share) == WithDefaults(share, share.id)

\* The share's directory must exist below its root; NFS needs a network and
\* DLNA an interface.
normalizeShareDefinition(share) ==
  /\ Default(share.path, <<>>) \in dirs
  /\ On(share, "nfs") => share.nfs.cidrs # {}
  /\ On(share, "dlna") => share.dlna.bind # NONE
  /\ On(share, "ftp") /\ share.ftp.passive # NONE => share.ftp.passive[1] <= share.ftp.passive[2]

validateUnique(values) == IsInjective(values)

\* Some protocol of some share asks for the account.
needsPassword(shares) ==
  \E i \in DOMAIN shares : \E protocol \in {"smb", "webdav", "ftp"} :
    On(shares[i], protocol) /\ ~shares[i][protocol].guest

validateAuthCoverage(enabled, shares, password) == enabled /\ needsPassword(shares) => password

validateFtpCapacity(shares) == Cardinality({i \in DOMAIN shares : On(shares[i], "ftp")}) <= 1

\* The ports the enabled protocols of a list of shares listen on, in order.
Ports(shares) ==
  FlattenSeq([i \in DOMAIN shares |->
    (IF On(shares[i], "webdav") THEN <<shares[i].webdav.port>> ELSE <<>>) \o
    (IF On(shares[i], "ftp") THEN <<shares[i].ftp.port>> ELSE <<>>)])


validatePortConflicts(shares) == validateUnique(Ports(shares))

validateWebDavPrefixes(shares) ==
  LET served == SelectSeq(shares, LAMBDA share : On(share, "webdav"))
  IN validateUnique([i \in DOMAIN served |-> served[i].webdav.prefix])

Password(input, existing) ==
  CASE input.password = "clear" -> FALSE
    [] input.password = "set" -> TRUE
    [] OTHER -> existing.password

\* The settings the client's input stands for, NONE when it is refused.
normalizeShareSettingsInput(input, existing) ==
  LET given == Default(input.shares, existing.shares)
      shares == [i \in DOMAIN given |-> normalizeProtocols([given[i] EXCEPT !.path = Default(@, <<>>)])]
      settings == [enabled |-> Default(input.enabled, existing.enabled),
                   username |-> Default(input.username, existing.username),
                   password |-> Password(input, existing),
                   shares |-> shares]
  IN IF /\ \A i \in DOMAIN given : normalizeShareDefinition(given[i])
        /\ validateUnique([i \in DOMAIN shares |-> shares[i].id])
        /\ validateAuthCoverage(settings.enabled, shares, settings.password)
        /\ validateFtpCapacity(shares)
        /\ validatePortConflicts(shares)
        /\ validateWebDavPrefixes(shares)
     THEN settings ELSE NONE

-----------------------------------------------------------------------------
(* hostd: checks, service files and grants.                                *)

validate_request(settings) ==
  \A i \in DOMAIN settings.shares :
    LET nfs == settings.shares[i].nfs
    IN nfs # NONE => nfs.cidrs # {} /\ (nfs.ro \/ nfs.squash)

resolve_shares(settings) == \A i \in DOMAIN settings.shares : settings.shares[i].path \in dirs

Serving(settings, protocol) ==
  IF settings.enabled THEN SelectSeq(settings.shares, LAMBDA share : On(share, protocol)) ELSE <<>>

render_samba(settings) ==
  {[id |-> share.id, path |-> share.path, ro |-> share.smb.ro, guest |-> share.smb.guest] :
     share \in Range(Serving(settings, "smb"))}

\* One Listen per port, with the shares of that port.
render_webdav(settings) ==
  [port \in {share.webdav.port : share \in Range(Serving(settings, "webdav"))} |->
     {[prefix |-> share.webdav.prefix, path |-> share.path,
       ro |-> share.webdav.ro, guest |-> share.webdav.guest] :
        share \in {s \in Range(Serving(settings, "webdav")) : s.webdav.port = port}}]

\* vsftpd serves the first FTP share.
render_ftp(settings) ==
  IF Serving(settings, "ftp") = <<>> THEN NONE
  ELSE LET share == Head(Serving(settings, "ftp"))
       IN [port |-> share.ftp.port, passive |-> share.ftp.passive, path |-> share.path,
           ro |-> share.ftp.ro, guest |-> share.ftp.guest]

\* A writable export maps every client to zos-nfs.
render_nfs(settings) ==
  UNION {{[path |-> share.path, cidr |-> cidr, ro |-> share.nfs.ro, squash |-> share.nfs.squash] :
            cidr \in share.nfs.cidrs} : share \in Range(Serving(settings, "nfs"))}

render_dlna(settings) ==
  [media |-> {<<share.dlna.media, share.path>> : share \in Range(Serving(settings, "dlna"))},
   network_interface |-> {share.dlna.bind : share \in Range(Serving(settings, "dlna"))}]

\* Who serves a share, with which access.
Access(protocol) == IF protocol.ro THEN "read" ELSE "write"

identities(settings, share) ==
  (IF On(share, "smb")
     THEN {<<settings.username, Access(share.smb)>>}
            \cup (IF share.smb.guest THEN {<<"nobody", Access(share.smb)>>} ELSE {})
     ELSE {}) \cup
  (IF On(share, "ftp")
     THEN {<<settings.username, Access(share.ftp)>>}
            \cup (IF share.ftp.guest THEN {<<"ftp", Access(share.ftp)>>} ELSE {})
     ELSE {}) \cup
  (IF On(share, "webdav") THEN {<<"www-data", Access(share.webdav)>>} ELSE {}) \cup
  (IF On(share, "dlna") THEN {<<"minidlna", "read">>} ELSE {}) \cup
  (IF On(share, "nfs") THEN {<<"zos-nfs", Access(share.nfs)>>} ELSE {})

rank(access) == CASE access = "write" -> 3 [] access = "read" -> 2 [] access = "traverse" -> 1 [] OTHER -> 0

\* The grants asked for: the share's tree, and passage through its parents.
Wanted(settings) ==
  IF ~settings.enabled THEN {}
  ELSE UNION {UNION {
         {[path |-> share.path, principal |-> who[1], access |-> who[2], scope |-> "tree"]} \cup
         {[path |-> SubSeq(share.path, 1, n), principal |-> who[1], access |-> "traverse", scope |-> "parent"] :
            n \in 0..(Len(share.path) - 1)} :
         who \in identities(settings, share)} : share \in Range(settings.shares)}

\* Mutant: of two grants for a path and an identity the weaker one is kept.
insert_weaker(grants, grant) ==
  LET key == <<grant.path, grant.principal>>
  IN IF key \notin DOMAIN grants \/ rank(grant.access) < rank(grants[key].access)
     THEN [k \in DOMAIN grants \cup {key} |-> IF k = key THEN grant ELSE grants[k]]
     ELSE grants

\* One grant for a path and an identity: the stronger access, and a tree
\* before a parent.
insert(grants, grant) ==
  LET key == <<grant.path, grant.principal>>
  IN IF \/ key \notin DOMAIN grants
        \/ rank(grant.access) > rank(grants[key].access)
        \/ grant.scope = "tree" /\ grants[key].scope = "parent"
     THEN [k \in DOMAIN grants \cup {key} |-> IF k = key THEN grant ELSE grants[k]]
     ELSE grants

grants_for(settings) == FoldSet(LAMBDA grant, grants : insert(grants, grant), <<>>, Wanted(settings))

\* setfacl, the shortest path first: an entry is the last one set, so the one
\* of the longest path that reaches the directory.
change(grants, path, principal) ==
  LET reaching == {key \in DOMAIN grants :
                     /\ key[2] = principal
                     /\ key[1] = path \/ (grants[key].scope = "tree" /\ IsPrefix(key[1], path))}
  IN IF reaching = {} THEN "none"
     ELSE grants[CHOOSE key \in reaching : \A k \in reaching : Len(k[1]) <= Len(key[1])].access

-----------------------------------------------------------------------------
Applied(settings) ==
  [settings |-> settings,
   smb |-> render_samba(settings), webdav |-> render_webdav(settings), ftp |-> render_ftp(settings),
   nfs |-> render_nfs(settings), dlna |-> render_dlna(settings),
   grants |-> grants_for(settings)]

Off == [enabled |-> FALSE, username |-> "zos-share", password |-> FALSE, shares |-> <<>>]

InputInit ==
  /\ file \in Files
  /\ stored = NONE /\ operation = NONE
  /\ dirs = Dirs
  /\ host = Applied(Off)
  /\ credentials = FALSE
  /\ trouble = 0

\* hostd applies settings, which are then stored, or refuses them.
applyShareSettings(settings) ==
  \/ /\ validate_request(settings) /\ resolve_shares(settings)
     /\ host' = Applied(settings)
     /\ credentials' = (settings.password \/ credentials)
     /\ stored' = normalizeShareSettings(settings)
  \/ /\ ~(validate_request(settings) /\ resolve_shares(settings))
     /\ UNCHANGED <<host, credentials, stored>>

\* POST /api/shares/proposals.
ProposeInput(input) ==
  /\ operation = NONE
  /\ operation' = normalizeShareSettingsInput(input, getShareSettings)
  /\ operation' # NONE
  /\ UNCHANGED <<file, stored, dirs, host, credentials, trouble>>

\* The approval: the account is the one stored now, if any is.
applyShareOperation ==
  /\ operation # NONE
  /\ operation' = NONE
  /\ applyShareSettings(IF stored = NONE THEN operation
                        ELSE [operation EXCEPT !.username = stored.username, !.password = stored.password])
  /\ UNCHANGED <<file, dirs, trouble>>

\* The approval is rejected.
Reject ==
  /\ operation # NONE
  /\ operation' = NONE
  /\ UNCHANGED <<file, stored, dirs, host, credentials, trouble>>

\* PUT /api/shares/account: the stored shares are checked again.
UpdateUser(username, password) ==
  /\ LET settings == normalizeShareSettingsInput(
                       [enabled |-> NONE, username |-> username, shares |-> NONE,
                        password |-> IF password THEN "set" ELSE "keep"], getShareSettings)
     IN settings # NONE /\ applyShareSettings(settings)
  /\ UNCHANGED <<file, operation, dirs, trouble>>

\* A directory is removed, with everything below it.
DirectoryRemoved(dir) ==
  /\ trouble < MaxTrouble
  /\ dir \in dirs /\ dir # <<>>
  /\ trouble' = trouble + 1
  /\ dirs' = {d \in dirs : ~IsPrefix(dir, d)}
  /\ UNCHANGED <<file, stored, operation, host, credentials>>

InputNext ==
  \/ \E input \in Inputs : ProposeInput(input)
  \/ applyShareOperation \/ Reject
  \/ \E username \in {i.username : i \in Inputs} \ {NONE}, password \in BOOLEAN : UpdateUser(username, password)
  \/ \E dir \in Dirs : DirectoryRemoved(dir)

InputSpec == InputInit /\ [][InputNext]_inputVars

-----------------------------------------------------------------------------
\* What the service files of the host serve: directory, access, identities.
Served ==
  {<<e.path, Access(e), {host.settings.username} \cup (IF e.guest THEN {"nobody"} ELSE {})>> : e \in host.smb} \cup
  (UNION {{<<e.path, Access(e), {"www-data"}>> : e \in host.webdav[port]} : port \in DOMAIN host.webdav}) \cup
  (IF host.ftp = NONE THEN {}
   ELSE {<<host.ftp.path, Access(host.ftp),
           {host.settings.username} \cup (IF host.ftp.guest THEN {"ftp"} ELSE {})>>}) \cup
  {<<e.path, Access(e), {"zos-nfs"}>> : e \in host.nfs} \cup
  {<<e[2], "read", {"minidlna"}>> : e \in host.dlna.media}

\* Whatever shares overlap, what the host serves can be served: the
\* identities of a service may pass through all parents of a shared directory
\* and have at least the access its service file promises, and no two
\* services listen on one port (grants_for, insert, validatePortConflicts,
\* render_samba, render_webdav, render_ftp, render_nfs, render_dlna).
ServicesCanServe ==
  /\ \A e \in Served : \A who \in e[3] :
       /\ rank(change(host.grants, e[1], who)) >= rank(e[2])
       /\ \A n \in 0..(Len(e[1]) - 1) : rank(change(host.grants, SubSeq(e[1], 1, n), who)) >= 1
  /\ host.ftp # NONE => host.ftp.port \notin DOMAIN host.webdav
  /\ \A port \in DOMAIN host.webdav : Cardinality(host.webdav[port]) = 1

\* Settings that ask for the account are only applied with a password
\* (validateAuthCoverage).
\* The code does not keep this in every case: README.md says when.
AuthenticatedHasPassword ==
  host.settings.enabled /\ needsPassword(host.settings.shares) => host.settings.password

InputTypeOK ==
  /\ stored = NONE \/ DOMAIN stored = {"enabled", "username", "password", "shares"}
  /\ dirs \subseteq Dirs
  /\ credentials \in BOOLEAN /\ trouble \in 0..MaxTrouble
=============================================================================
