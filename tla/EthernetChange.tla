--------------------------- MODULE EthernetChange ---------------------------
(***************************************************************************)
(* The change of wired-network settings in hostd                           *)
(* (apps/hostd/src/network_manager/ethernet.rs).  The settings wanted for  *)
(* each port are saved first; an apply then writes the managed             *)
(* NetworkManager profiles, activates them under a NetworkManager          *)
(* checkpoint and waits for a confirmation.  Without one - the 90 seconds  *)
(* pass, the user rolls back, validation fails, hostd dies - the profiles  *)
(* and the connections go back to what they were.  hostd serialises these  *)
(* requests with network_lock, so `op' is the one request in progress; the *)
(* process may die between any two of its awaits, and NetworkManager runs  *)
(* its own clock.                                                          *)
(***************************************************************************)
EXTENDS Integers, FiniteSets

CONSTANTS
    Devices,      \* physical ports, by permanent MAC
    Configs,      \* the settings a client may ask for, valid or not
    External,     \* the profiles an administrator may keep for a port
    MaxApplies,   \* applies in a behaviour
    MaxTrouble,   \* crashes and failing commands in a behaviour
    NONE

VARIABLES
    desired,      \* ethernet-state.json: what each port should have
    file,         \* zos-ethernet-<mac>.nmconnection on disk
    loaded,       \* the managed profile as NetworkManager last read it
    ext,          \* the administrator's profile of the port
    dev,          \* runtime of the port: connection, addresses, routes
    checkpoint,   \* NetworkManager's checkpoint, with the runtime it keeps
    txn,          \* ethernet-transaction.json
    clock,        \* the 90 seconds of the newest transaction
    hostd,        \* "down", "starting" (recovering) or "up"
    op,           \* the request holding network_lock
    before,       \* history: files and runtime when the transaction began
    lost,         \* history: the checkpoint went away under a request
    trouble

vars == <<desired, file, loaded, ext, dev, checkpoint, txn, clock, hostd, op,
          before, lost, trouble>>

(***************************************************************************)
(* Settings of a port: a record for each address family.                   *)
(***************************************************************************)
EthernetConfig(enabled, v4, v6) == [enabled |-> enabled, v4 |-> v4, v6 |-> v6]

Blocked(f) == [f EXCEPT !.mode = "disabled", !.address = NONE, !.gateway = NONE,
                        !.dnsMode = "automatic", !.dns = 0, !.default = FALSE]

\* A disabled port is held by a profile with both families off.
render_profile(c) ==
    IF c.enabled THEN c ELSE EthernetConfig(TRUE, Blocked(c.v4), Blocked(c.v6))

validate_family(f) ==
    /\ f.metric \in 1 .. 65535 /\ f.dns <= 3
    /\ IF f.mode = "static"
         THEN f.address # NONE /\ (f.default => f.gateway # NONE)
         ELSE f.address = NONE /\ f.gateway = NONE
    /\ (f.dnsMode = "automatic") <=> (f.dns = 0)

validate_config(c) == validate_family(c.v4) /\ validate_family(c.v6)

family_default(c, f) == c.enabled /\ f.mode # "disabled" /\ f.default

\* Two present ports may not both be the default route with one metric.
validate_metric_conflicts(d) ==
    LET entries == {p \in Devices : d[p] # NONE} IN
      \A p, q \in entries : p # q =>
        LET a == d[p].config  b == d[q].config IN
          /\ ~(/\ family_default(a, a.v4) /\ family_default(b, b.v4)
               /\ a.v4.metric = b.v4.metric)
          /\ ~(/\ family_default(a, a.v6) /\ family_default(b, b.v6)
               /\ a.v6.metric = b.v6.metric)

is_blocking_profile(c) ==
    /\ c.enabled
    /\ \A f \in {c.v4, c.v6} : /\ f.mode = "disabled" /\ f.address = NONE
                               /\ f.gateway = NONE /\ f.dnsMode = "automatic"
                               /\ ~f.default

\* What NetworkManager reports of a profile: its settings and whether it keeps
\* to the features hostd manages.
profile_config(content, advanced) ==
    [config |-> content, supported |-> ~advanced /\ validate_config(content)]

default_config ==
    LET auto == [mode |-> "auto", address |-> NONE, gateway |-> NONE,
                 dnsMode |-> "automatic", dns |-> 0, default |-> FALSE, metric |-> 600]
    IN  EthernetConfig(TRUE, auto, auto)

(***************************************************************************)
(* Runtime of a port.  NetworkManager is external: activating a profile    *)
(* gives the addresses and routes the profile asks for, at once or later   *)
(* (DHCP, router advertisement), or fails.                                 *)
(***************************************************************************)
Family(f) ==
    [address |-> CASE f.mode = "disabled" -> NONE
                   [] f.mode = "static"   -> f.address
                   [] OTHER               -> "leased",
     gateway |-> IF f.mode = "static" /\ f.default THEN f.gateway ELSE NONE,
     metric  |-> IF f.mode # "disabled" /\ f.default THEN f.metric ELSE NONE]

Bare == [address |-> NONE, gateway |-> NONE, metric |-> NONE]

Installed(conn, c) == [conn |-> conn, v4 |-> Family(c.v4), v6 |-> Family(c.v6)]

Unsettled(conn) == [conn |-> conn, v4 |-> Bare, v6 |-> Bare]

Disconnected == Unsettled(NONE)

validate_family_addresses(f, r) ==
    CASE f.mode = "disabled" -> r.address = NONE
      [] f.mode = "static"   -> r.address = f.address
      [] OTHER               -> r.address # NONE

validate_static_gateway(f, r) ==
    (f.mode = "static" /\ f.default) => r.gateway = f.gateway

validate_default_route(f, r) ==
    r.metric = (IF f.mode # "disabled" /\ f.default THEN f.metric ELSE NONE)

validate_device_applied(entry, r) ==
    /\ r.conn = "managed"
    /\ IF entry.config.enabled
         THEN \A k \in {"v4", "v6"} :
                LET f == entry.config[k] IN
                  /\ validate_family_addresses(f, r[k])
                  /\ validate_static_gateway(f, r[k])
                  /\ validate_default_route(f, r[k])
         ELSE \A k \in {"v4", "v6"} : r[k].address = NONE /\ r[k].metric = NONE

\* The profile in use on port p, and the one kept for it.
Active(p) ==
    CASE dev[p].conn = "external" -> profile_config(ext[p].config, ext[p].advanced)
      [] dev[p].conn = "managed" /\ loaded[p] # NONE -> profile_config(loaded[p], FALSE)
      [] OTHER -> NONE

find_saved_profile(p) ==
    IF ext[p] = NONE THEN NONE ELSE profile_config(ext[p].config, ext[p].advanced)

desired_is_applied(p, entry) ==
    /\ dev[p].conn = "managed"
    /\ Active(p) # NONE /\ Active(p).supported
    /\ IF entry.config.enabled
         THEN Active(p).config = entry.config
         ELSE /\ is_blocking_profile(Active(p).config)
              /\ validate_device_applied(entry, dev[p])

source_profile_matches(p, entry) ==
    LET source == CASE entry.source = "external" -> find_saved_profile(p)
                    [] entry.source = "managed" /\ loaded[p] # NONE ->
                         profile_config(loaded[p], FALSE)
                    [] OTHER -> NONE
    IN  /\ dev[p].conn # NONE => entry.source = dev[p].conn
        /\ CASE entry.source = "managed" ->
                  /\ source # NONE /\ source.supported
                  /\ \/ is_blocking_profile(source.config)
                     \/ source.config = entry.applied
             [] entry.source = "external" ->
                  source # NONE /\ source.supported /\ entry.sourceRevision = ext[p]
             [] OTHER -> entry.sourceRevision = NONE /\ dev[p].conn = NONE

new_desired(config, source, revision) ==
    [config |-> config, applied |-> NONE, source |-> source, sourceRevision |-> revision]

(***************************************************************************)
(* The persisted transaction.                                              *)
(***************************************************************************)
IsActive(t) == t # NONE /\ t.status \in {"applying", "awaiting_confirmation", "rolling_back"}

ensure_no_active_transaction == ~IsActive(txn)

Expired == txn # NONE /\ txn.status = "awaiting_confirmation" /\ (txn.deadline => clock = "passed")

Idle == hostd = "up" /\ op = NONE

Doing(pc) == op # NONE /\ op.pc = pc

AtPc(pc) == op' = [op EXCEPT !.pc = pc]

Fails == trouble < MaxTrouble /\ trouble' = trouble + 1

Init ==
    /\ desired = [p \in Devices |-> NONE]
    /\ file = [p \in Devices |-> NONE]
    /\ loaded = file
    /\ ext \in [Devices -> External]
    /\ dev = [p \in Devices |-> IF ext[p] = NONE THEN Disconnected
                                ELSE Installed("external", ext[p].config)]
    /\ checkpoint = NONE /\ txn = NONE /\ clock = "stopped"
    /\ hostd = "up" /\ op = NONE
    /\ before = NONE /\ lost = FALSE /\ trouble = 0

(***************************************************************************)
(* Requests that write ethernet-state.json only.                           *)
(***************************************************************************)

\* A port seen for the first time is adopted from its profile, or from the
\* defaults; a profile with other features is left alone.
Adopted(p) ==
    LET active == Active(p)
        source == IF active # NONE THEN active ELSE find_saved_profile(p)
        from   == IF active # NONE THEN dev[p].conn ELSE "external"
    IN  IF desired[p] = NONE
          THEN CASE source = NONE -> new_desired(default_config, NONE, NONE)
                 [] source # NONE /\ source.supported ->
                      new_desired(source.config, from,
                                  IF from = "external" THEN ext[p] ELSE source.config)
                 [] OTHER -> NONE
          ELSE IF /\ desired[p].sourceRevision = NONE
                  /\ desired[p].source = dev[p].conn
                  /\ active # NONE /\ active.supported
            THEN [desired[p] EXCEPT !.sourceRevision =
                    IF dev[p].conn = "external" THEN ext[p] ELSE active.config]
            ELSE desired[p]

status ==
    /\ Idle /\ ~Expired
    /\ desired' = [p \in Devices |-> Adopted(p)]
    /\ UNCHANGED <<file, loaded, ext, dev, checkpoint, txn, clock, hostd, op,
                   before, lost, trouble>>

\* save answers with the status it then reads, which may adopt other ports.
save(p, config, expectedRevision) ==
    LET entry == [desired[p] EXCEPT !.config = config]
        next  == [desired EXCEPT ![p] = entry]
    IN  /\ Idle /\ ensure_no_active_transaction
        /\ validate_config(config)
        /\ Active(p) # NONE => Active(p).supported
        /\ desired[p] # NONE /\ desired[p].config = expectedRevision
        /\ validate_metric_conflicts(next)
        /\ desired' = [next EXCEPT ![p] =
             IF /\ entry.sourceRevision = NONE /\ entry.source = dev[p].conn
                /\ Active(p) # NONE
               THEN [entry EXCEPT !.sourceRevision =
                       IF dev[p].conn = "external" THEN ext[p] ELSE Active(p).config]
               ELSE entry]
        /\ UNCHANGED <<file, loaded, ext, dev, checkpoint, txn, clock, hostd, op,
                       before, lost, trouble>>

(***************************************************************************)
(* apply.                                                                  *)
(***************************************************************************)
Pending ==
    {p \in Devices : /\ desired[p] # NONE
                     /\ \/ desired[p].applied # desired[p].config
                        \/ file[p] = NONE
                        \/ ~desired_is_applied(p, desired[p])}

\* Checks, backups and the checkpoint; NetworkManager refuses a checkpoint on
\* a port that already has one.
ApplyStart ==
    /\ Idle /\ ensure_no_active_transaction
    /\ validate_metric_conflicts(desired)
    /\ Pending # {}
    /\ \A p \in Pending : \/ dev[p].conn = "managed"
                          \/ source_profile_matches(p, desired[p])
    /\ checkpoint = NONE
    /\ (IF txn = NONE THEN 0 ELSE txn.id) < MaxApplies
    /\ checkpoint' = [p \in Pending |-> dev[p]]
    /\ clock' = "running"
    /\ op' = [pc |-> "record", left |-> Pending, plan |-> desired,
              t |-> [id |-> IF txn = NONE THEN 1 ELSE txn.id + 1,
                     status |-> "applying", devices |-> Pending, deadline |-> TRUE,
                     checkpoint |-> TRUE, backups |-> [p \in Pending |-> file[p]],
                     rollback |-> "not_required"]]
    /\ before' = [file |-> file, dev |-> dev] /\ lost' = FALSE
    /\ UNCHANGED <<desired, file, loaded, ext, dev, txn, hostd, trouble>>

write_transaction ==
    /\ Doing("record")
    /\ txn' = op.t /\ AtPc("files")
    /\ UNCHANGED <<desired, file, loaded, ext, dev, checkpoint, clock, hostd,
                   before, lost, trouble>>

WriteProfile(p) ==
    /\ Doing("files") /\ p \in op.left
    /\ \/ /\ file' = [file EXCEPT ![p] = render_profile(op.plan[p].config)]
          /\ op' = [op EXCEPT !.left = @ \ {p},
                              !.pc = IF op.left = {p} THEN "reload" ELSE "files"]
          /\ UNCHANGED trouble
       \/ /\ Fails /\ AtPc("undo") /\ UNCHANGED file
    /\ UNCHANGED <<desired, loaded, ext, dev, checkpoint, txn, clock, hostd, before, lost>>

\* nmcli connection reload: a port whose managed profile is gone loses it.
Reloaded(r, p) ==
    IF r.conn = "managed" /\ file[p] = NONE
      THEN IF ext[p] = NONE THEN Disconnected ELSE Installed("external", ext[p].config)
      ELSE r

ApplyReload ==
    /\ Doing("reload")
    /\ \/ /\ loaded' = file /\ dev' = [p \in Devices |-> Reloaded(dev[p], p)]
          /\ op' = [op EXCEPT !.pc = "up", !.left = op.t.devices]
          /\ UNCHANGED trouble
       \/ /\ Fails /\ AtPc("undo") /\ UNCHANGED <<loaded, dev>>
    /\ UNCHANGED <<desired, file, ext, checkpoint, txn, clock, hostd, before, lost>>

ConnectionUp(p) ==
    /\ Doing("up") /\ p \in op.left
    /\ \/ /\ \E r \in {Installed("managed", loaded[p]), Unsettled("managed")} :
               dev' = [dev EXCEPT ![p] = r]
          /\ op' = [op EXCEPT !.left = @ \ {p},
                              !.pc = IF op.left = {p} THEN "wait" ELSE "up"]
          /\ UNCHANGED trouble
       \/ /\ Fails /\ AtPc("undo")
          /\ dev' = [dev EXCEPT ![p] = Disconnected]
    /\ UNCHANGED <<desired, file, loaded, ext, checkpoint, txn, clock, hostd, before, lost>>

\* wait_for_applied: success as soon as every port validates, failure when the
\* last attempt still does not.
wait_for_applied ==
    /\ Doing("wait")
    /\ AtPc(IF \A p \in op.t.devices : validate_device_applied(op.plan[p], dev[p])
              THEN "await" ELSE "undo")
    /\ UNCHANGED <<desired, file, loaded, ext, dev, checkpoint, txn, clock, hostd,
                   before, lost, trouble>>

AwaitConfirmation ==
    /\ Doing("await")
    /\ txn' = [op.t EXCEPT !.status = "awaiting_confirmation"]
    /\ op' = NONE
    /\ UNCHANGED <<desired, file, loaded, ext, dev, checkpoint, clock, hostd,
                   before, lost, trouble>>

(***************************************************************************)
(* confirm: the checkpoint goes first, then the state, then the record.    *)
(***************************************************************************)
\* Mutant: the checkpoint is left to NetworkManager.
confirm_keeps_checkpoint(id) ==
    /\ Idle /\ ~Expired
    /\ txn # NONE /\ txn.id = id /\ txn.status = "awaiting_confirmation"
    /\ checkpoint # NONE
    /\ lost' = TRUE
    /\ op' = [pc |-> "confirm_state", left |-> {}, plan |-> desired, t |-> txn]
    /\ UNCHANGED <<desired, file, loaded, ext, dev, checkpoint, txn, clock, hostd, before, trouble>>

confirm(id) ==
    /\ Idle /\ ~Expired
    /\ txn # NONE /\ txn.id = id /\ txn.status = "awaiting_confirmation"
    /\ checkpoint # NONE
    /\ checkpoint' = NONE /\ lost' = TRUE
    /\ op' = [pc |-> "confirm_state", left |-> {}, plan |-> desired, t |-> txn]
    /\ UNCHANGED <<desired, file, loaded, ext, dev, txn, clock, hostd, before, trouble>>

ConfirmState ==
    /\ Doing("confirm_state")
    /\ desired' = [p \in Devices |->
         IF p \in op.t.devices /\ desired[p] # NONE
           THEN [desired[p] EXCEPT !.applied = desired[p].config,
                                   !.source = "managed", !.sourceRevision = NONE]
           ELSE desired[p]]
    /\ AtPc("confirm_record")
    /\ UNCHANGED <<file, loaded, ext, dev, checkpoint, txn, clock, hostd,
                   before, lost, trouble>>

ConfirmRecord ==
    /\ Doing("confirm_record")
    /\ txn' = [op.t EXCEPT !.status = "confirmed", !.deadline = FALSE,
                           !.checkpoint = FALSE, !.backups = <<>>]
    /\ clock' = IF checkpoint = NONE THEN "stopped" ELSE clock
    /\ op' = NONE
    /\ UNCHANGED <<desired, file, loaded, ext, dev, checkpoint, hostd,
                   before, lost, trouble>>

(***************************************************************************)
(* rollback_persisted: profiles, then the runtime, then the record.        *)
(***************************************************************************)
Undoing == op' = [pc |-> "undo", left |-> {}, plan |-> desired, t |-> txn]

rollback(id) ==
    /\ Idle /\ txn # NONE /\ txn.id = id
    /\ txn.status \in {"applying", "awaiting_confirmation"}
    /\ Undoing
    /\ UNCHANGED <<desired, file, loaded, ext, dev, checkpoint, txn, clock, hostd,
                   before, lost, trouble>>

\* The one-second timer; status and confirm call it first as well.
recover_expired ==
    /\ Idle /\ Expired /\ Undoing
    /\ UNCHANGED <<desired, file, loaded, ext, dev, checkpoint, txn, clock, hostd,
                   before, lost, trouble>>

\* Mutant: a profile that had no file before is not removed.
RestoreExistingProfiles ==
    /\ Doing("undo")
    /\ file' = [p \in Devices |-> IF p \in DOMAIN op.t.backups /\ op.t.backups[p] # NONE
                                    THEN op.t.backups[p] ELSE file[p]]
    /\ AtPc("undo_runtime")
    /\ UNCHANGED <<desired, loaded, ext, dev, checkpoint, txn, clock, hostd, before, lost, trouble>>

RestoreProfiles ==
    /\ Doing("undo")
    /\ \/ /\ file' = [p \in Devices |-> IF p \in DOMAIN op.t.backups
                                          THEN op.t.backups[p] ELSE file[p]]
          /\ AtPc("undo_runtime") /\ UNCHANGED trouble
       \/ /\ Fails /\ AtPc("undo_runtime_failed") /\ UNCHANGED file
    /\ UNCHANGED <<desired, loaded, ext, dev, checkpoint, txn, clock, hostd, before, lost>>

\* A checkpoint that is gone, or a call that fails, counts as done once the
\* deadline has passed: NetworkManager restores the runtime by itself.
rollback_persisted ==
    LET disk == Doing("undo_runtime")
        Done(ok) ==
          LET good == disk /\ (ok \/ clock = "passed") IN
            op' = [op EXCEPT !.pc = "undo_record",
                     !.t = [@ EXCEPT !.status = IF good THEN "rolled_back" ELSE "failed",
                              !.rollback = IF good THEN "succeeded" ELSE "failed",
                              !.deadline = FALSE,
                              !.checkpoint = IF good THEN FALSE ELSE @,
                              !.backups = IF good THEN <<>> ELSE @]]
    IN  /\ disk \/ Doing("undo_runtime_failed")
        /\ loaded' = file
        /\ \/ /\ checkpoint # NONE
              /\ dev' = [p \in Devices |-> IF p \in DOMAIN checkpoint THEN checkpoint[p]
                                           ELSE Reloaded(dev[p], p)]
              /\ checkpoint' = NONE /\ Done(TRUE) /\ UNCHANGED trouble
           \/ /\ IF checkpoint = NONE THEN UNCHANGED trouble ELSE Fails
              /\ dev' = [p \in Devices |-> Reloaded(dev[p], p)]
              /\ Done(FALSE) /\ UNCHANGED checkpoint
        /\ UNCHANGED <<desired, file, ext, txn, clock, hostd, before, lost>>

RecordRollback ==
    /\ Doing("undo_record")
    /\ txn' = op.t /\ op' = NONE /\ hostd' = "up"
    /\ UNCHANGED <<desired, file, loaded, ext, dev, checkpoint, clock,
                   before, lost, trouble>>

(***************************************************************************)
(* The process, NetworkManager and time.                                   *)
(***************************************************************************)
Crash ==
    /\ hostd # "down" /\ Fails
    /\ hostd' = "down" /\ op' = NONE
    /\ UNCHANGED <<desired, file, loaded, ext, dev, checkpoint, txn, clock, before, lost>>

\* Mutant: only a transaction that waits for confirmation is recovered.
recover_awaiting ==
    /\ hostd = "down"
    /\ IF IsActive(txn) /\ txn.status = "awaiting_confirmation"
         THEN hostd' = "starting" /\ Undoing
         ELSE hostd' = "up" /\ UNCHANGED op
    /\ UNCHANGED <<desired, file, loaded, ext, dev, checkpoint, txn, clock,
                   before, lost, trouble>>

\* hostd recovers before it listens.
recover_on_startup ==
    /\ hostd = "down"
    /\ IF IsActive(txn)
         THEN hostd' = "starting" /\ Undoing
         ELSE hostd' = "up" /\ UNCHANGED op
    /\ UNCHANGED <<desired, file, loaded, ext, dev, checkpoint, txn, clock,
                   before, lost, trouble>>

DeadlinePasses ==
    /\ clock = "running" /\ clock' = "passed"
    /\ UNCHANGED <<desired, file, loaded, ext, dev, checkpoint, txn, hostd, op,
                   before, lost, trouble>>

\* hostd's deadline is set before the checkpoint is created, so it passes first.
CheckpointExpires ==
    /\ checkpoint # NONE /\ clock = "passed"
    /\ dev' = [p \in Devices |-> IF p \in DOMAIN checkpoint THEN checkpoint[p] ELSE dev[p]]
    /\ checkpoint' = NONE /\ lost' = (lost \/ op # NONE)
    /\ UNCHANGED <<desired, file, loaded, ext, txn, clock, hostd, op, before, trouble>>

\* A lease or a router advertisement arrives.
AddressArrives(p) ==
    /\ dev[p] = Unsettled("managed") /\ loaded[p] # NONE
    /\ dev' = [dev EXCEPT ![p] = Installed("managed", loaded[p])]
    /\ dev' # dev
    /\ UNCHANGED <<desired, file, loaded, ext, checkpoint, txn, clock, hostd, op,
                   before, lost, trouble>>

Next ==
    \/ status
    \/ \E p \in Devices, c, r \in Configs \union {default_config}
                              \union {ext[q].config : q \in {x \in Devices : ext[x] # NONE}} :
         save(p, c, r)
    \/ ApplyStart \/ write_transaction \/ ApplyReload
    \/ \E p \in Devices : WriteProfile(p) \/ ConnectionUp(p) \/ AddressArrives(p)
    \/ wait_for_applied \/ AwaitConfirmation
    \/ \E id \in 1 .. MaxApplies : confirm(id) \/ rollback(id)
    \/ ConfirmState \/ ConfirmRecord
    \/ recover_expired \/ RestoreProfiles \/ rollback_persisted \/ RecordRollback
    \/ Crash \/ recover_on_startup \/ DeadlinePasses \/ CheckpointExpires

\* The request in progress, the restart and the timer, which all run on without
\* a client.
HostdRuns ==
    \/ write_transaction \/ ApplyReload \/ wait_for_applied \/ AwaitConfirmation
    \/ \E p \in Devices : WriteProfile(p) \/ ConnectionUp(p)
    \/ ConfirmState \/ ConfirmRecord \/ recover_expired
    \/ RestoreProfiles \/ rollback_persisted \/ RecordRollback
    \/ recover_on_startup

Spec == Init /\ [][Next]_vars /\ WF_vars(HostdRuns) /\ WF_vars(DeadlinePasses)

RuntimeIsBack ==
    \A p \in txn.devices : dev[p] = before.dev[p] \/ before.dev[p] = Unsettled("managed")

(***************************************************************************)
(* Properties.                                                             *)
(***************************************************************************)

\* A transaction recorded as rolled back has put every managed profile back,
\* and the connections with them, unless NetworkManager's own timeout is still
\* to restore those, or the checkpoint went away under a request of hostd: in a
\* confirm it died in, or in an apply that outlasted the 90 seconds
\* (rollback_persisted, recover_on_startup).
RollbackRestores ==
    (txn # NONE /\ txn.status = "rolled_back" /\ op = NONE) =>
      /\ file = before.file
      /\ checkpoint # NONE \/ lost \/ RuntimeIsBack

\* "A timeout, a manual rollback, a failed validation or a restart of hostd
\* restores the managed keyfiles and the running connection" (the API
\* reference): a transaction recorded as rolled back, with no checkpoint left
\* to expire, has the connections it began with.
\* The code does not keep this in every case: README.md says when.
RestartRestoresConnections ==
    (txn # NONE /\ txn.status = "rolled_back" /\ op = NONE /\ checkpoint = NONE)
      => RuntimeIsBack

\* A revision is recorded as applied only when the managed profile on disk
\* holds it: nothing is saved between an apply and its confirmation (confirm
\* stamps the revision found in ethernet-state.json, not the one applied).
AppliedIsOnDisk ==
    [][\A p \in Devices :
         (desired'[p] # NONE /\ desired'[p].applied # NONE
            /\ (desired[p] = NONE \/ desired[p].applied # desired'[p].applied))
         => file[p] = render_profile(desired'[p].applied)]_vars

\* A confirmed change is kept: neither NetworkManager's timeout nor a restart
\* of hostd takes it back (confirm destroys the checkpoint and ends the
\* transaction).
ConfirmedStays ==
    [][(txn # NONE /\ txn.status = "confirmed" /\ txn' = txn)
         => \A p \in txn.devices : /\ file'[p] = file[p]
                                   /\ dev'[p].conn = dev[p].conn]_vars

\* A change nobody confirms does not stay: an active transaction always ends,
\* through the deadline timer or the recovery at start.
Settled == ~IsActive(txn)

\* See Settled: changes end, once no more are asked for.
UnconfirmedEnds == <>[]Settled
=============================================================================
