---------------------------- MODULE WifiProfiles ----------------------------
(***************************************************************************)
(* Wi-Fi profiles and the hotspot of one wireless device, as hostd manages *)
(* them through NetworkManager (apps/hostd/src/network_manager.rs with     *)
(* profiles.rs, nmcli.rs, store.rs and validation.rs).                     *)
(*                                                                         *)
(* hostd handles one network request at a time.  A request that leaves     *)
(* something on disk before it runs the next nmcli command is two steps,   *)
(* so that hostd can be killed in between; any nmcli command may fail, and *)
(* the link may drop or be reconnected by NetworkManager at any time.      *)
(* File system errors are not modelled.  A keyfile is its mode and its     *)
(* content, and the content stands for its SHA-256 revision.               *)
(***************************************************************************)
EXTENDS Naturals

CONSTANTS
  Foreign,      \* client profiles other tools manage
  Clients,      \* uuids ZOS may give to its own client profiles
  Hotspot,      \* the uuid ZOS gives to the hotspot profile
  Contents,     \* contents of a keyfile
  MaxRequests,  \* bound on requests that change something
  NONE

VARIABLES
  file,      \* the zos-*.nmconnection keyfiles, by uuid
  loaded,    \* the profiles NetworkManager knows, by uuid
  active,    \* the profile active on the device, or NONE
  radio,     \* the Wi-Fi radio is on
  recovery,  \* the device's entry of state.json, or NONE
  op,        \* the request between its two steps, or NONE
  answer,    \* what the request that just ended told its client, or NONE
  from,      \* the client profile the running hotspot was started from
  requests   \* requests so far

wifi == <<file, loaded, active, radio, recovery, op, answer, from, requests>>

Ids == Foreign \cup Clients \cup {Hotspot}

Keyfile == [mode : {"client", "hotspot"}, content : Contents]

Init ==
  /\ file = [id \in Ids |-> NONE]
  /\ loaded = [id \in Ids |-> IF id \in Foreign
                                THEN [mode |-> "client", content |-> CHOOSE c \in Contents : TRUE]
                                ELSE NONE]
  /\ active \in Foreign \cup {NONE}
  /\ radio = TRUE
  /\ recovery = NONE
  /\ op = NONE
  /\ answer = NONE
  /\ from = NONE
  /\ requests = 0

-----------------------------------------------------------------------------
(* nmcli.                                                                  *)

\* nmcli connection up: it can succeed for a profile NetworkManager knows.
CanUp(known, id) == id # NONE /\ known[id] # NONE /\ radio

\* A connection up that failed left the device as it was or disconnected.
AfterFailedUp(was) == {was, NONE}

\* nmcli connection reload: NetworkManager reads the keyfiles again.
Reloaded(files) == [id \in Ids |-> IF id \in Foreign THEN loaded[id] ELSE files[id]]

\* reload, or the reload that safe_reload ignores the failure of.
safe_reload(files) == {loaded, Reloaded(files)}

\* Bring the profile that was active before the request up again: the status
\* it reports and the profile active after it.
restore_connection(known, id, now) ==
  IF id = NONE
    THEN {<<"not_required", now>>}
    ELSE {<<"failed", a>> : a \in AfterFailedUp(now)} \cup
         (IF CanUp(known, id) THEN {<<"succeeded", id>>} ELSE {})

-----------------------------------------------------------------------------
(* Requests.                                                               *)

\* The next request is accepted: hostd holds the network lock for it.
Accepted ==
  /\ op = NONE
  /\ requests < MaxRequests
  /\ requests' = requests + 1

Ended(ok, rollback, was, files) ==
  /\ op' = NONE
  /\ answer' = [ok |-> ok, rollback |-> rollback, was |-> was, files |-> files]

success_result == Ended(TRUE, "not_required", active, file)

\* read_profiles finds the keyfile of the id.
find_profile(id) == file[id] # NONE

\* NetworkManager knows the profile and it is not an access point.
assert_client_profile(id) == loaded[id] # NONE /\ loaded[id].mode = "client"

\* Connect to a profile NetworkManager knows; on failure the connection that
\* was active is brought up again.
ConnectKnown(id) ==
  /\ Accepted
  /\ assert_client_profile(id)
  /\ \/ /\ CanUp(loaded, id)
        /\ active' = id
        /\ success_result
     \/ \E now \in AfterFailedUp(active) : \E r \in restore_connection(loaded, active, now) :
          /\ active' = r[2]
          /\ Ended(FALSE, r[1], active, file)
  /\ UNCHANGED <<file, loaded, radio, recovery, from>>

\* A network not seen before: create_keyfile and atomic_write first.
connect(id, content) ==
  /\ Accepted
  /\ id \in Clients /\ file[id] = NONE /\ loaded[id] = NONE
  /\ file' = [file EXCEPT ![id] = [mode |-> "client", content |-> content]]
  /\ op' = [kind |-> "connect", id |-> id, was |-> active, files |-> file]
  /\ answer' = NONE
  /\ UNCHANGED <<loaded, active, radio, recovery, from>>

\* Mutant: the keyfile of a failed connect stays.
ConnectNewKeeps ==
  /\ op # NONE /\ op.kind = "connect"
  /\ \/ /\ loaded' = [loaded EXCEPT ![op.id] = file[op.id]]
        /\ CanUp(loaded', op.id)
        /\ active' = op.id
        /\ Ended(TRUE, "not_required", op.was, op.files)
        /\ UNCHANGED file
     \/ \E now \in AfterFailedUp(active) :
          /\ file' = file
          /\ loaded' \in safe_reload(file') \cup {[loaded EXCEPT ![op.id] = file[op.id]]}
          /\ \E r \in restore_connection(loaded', op.was, now) :
               /\ active' = r[2]
               /\ Ended(FALSE, r[1], op.was, op.files)
  /\ UNCHANGED <<radio, recovery, from, requests>>

\* ... then load and up.  When either fails the keyfile is removed again.
ConnectNew ==
  /\ op # NONE /\ op.kind = "connect"
  /\ \/ /\ loaded' = [loaded EXCEPT ![op.id] = file[op.id]]
        /\ CanUp(loaded', op.id)
        /\ active' = op.id
        /\ Ended(TRUE, "not_required", op.was, op.files)
        /\ UNCHANGED file
     \/ \E now \in AfterFailedUp(active) :
          /\ file' = [file EXCEPT ![op.id] = NONE]
          /\ loaded' \in safe_reload(file') \cup {[loaded EXCEPT ![op.id] = file[op.id]]}
          /\ \E r \in restore_connection(loaded', op.was, now) :
               /\ active' = r[2]
               /\ Ended(FALSE, r[1], op.was, op.files)
  /\ UNCHANGED <<radio, recovery, from, requests>>

\* Replace a keyfile whose revision the client saw; an active profile needs
\* the client's confirmation, because applying it restarts the connection.
replace_profile(id, expectedRevision, content, confirmed) ==
  /\ Accepted
  /\ find_profile(id) /\ file[id].content = expectedRevision
  /\ active = id => confirmed
  /\ file' = [file EXCEPT ![id].content = content]
  /\ op' = [kind |-> "replace", id |-> id, was |-> active, files |-> file]
  /\ answer' = NONE
  /\ UNCHANGED <<loaded, active, radio, recovery, from>>

update_profile(id, expectedRevision, content, confirmed) ==
  /\ find_profile(id) /\ file[id].mode = "client"
  /\ replace_profile(id, expectedRevision, content, confirmed)

\* Reload, and up when the profile was active; on failure the previous
\* content is written back, reloaded and brought up.
ApplyReplaced ==
  /\ op # NONE /\ op.kind = "replace"
  /\ LET restart == op.was = op.id
     IN \/ /\ loaded' = Reloaded(file)
           /\ restart => CanUp(loaded', op.id)
           /\ active' = IF restart THEN op.id ELSE active
           /\ Ended(TRUE, "not_required", op.was, op.files)
           /\ UNCHANGED file
        \/ /\ file' = op.files
           /\ loaded' = Reloaded(op.files)
           /\ restart => CanUp(loaded', op.id)
           /\ active' = IF restart THEN op.id ELSE active
           /\ Ended(FALSE, "succeeded", IF restart THEN op.was ELSE active, op.files)
        \/ /\ file' = op.files
           /\ loaded' \in {loaded, Reloaded(file), Reloaded(op.files)}
           /\ active' \in IF restart THEN AfterFailedUp(active) ELSE {active}
           /\ Ended(FALSE, "failed", op.was, op.files)
  /\ UNCHANGED <<radio, recovery, from, requests>>

\* nmcli connection delete of a ZOS profile, then its keyfile.
Deleted(id) ==
  /\ loaded' = [loaded EXCEPT ![id] = NONE]
  /\ file' = [file EXCEPT ![id] = NONE]
  /\ active' = IF active = id THEN NONE ELSE active

delete_profile(id) ==
  /\ Accepted
  /\ find_profile(id) /\ file[id].mode = "client"
  /\ \/ loaded[id] # NONE /\ Deleted(id) /\ Ended(TRUE, "not_required", active, file)
     \/ UNCHANGED <<file, loaded, active>> /\ Ended(FALSE, "not_required", active, file)
  /\ UNCHANGED <<radio, recovery, from>>

\* Save the hotspot.  The first save creates its keyfile and loads it, and
\* removes the keyfile when it cannot be loaded.
update_hotspot(content) ==
  /\ Accepted
  /\ file[Hotspot] = NONE
  /\ LET saved == [file EXCEPT ![Hotspot] = [mode |-> "hotspot", content |-> content]]
     IN \/ /\ file' = saved
           /\ loaded' = [loaded EXCEPT ![Hotspot] = saved[Hotspot]]
           /\ success_result
        \/ /\ loaded' \in safe_reload(file)
           /\ Ended(FALSE, "succeeded", active, file)
           /\ UNCHANGED file
  /\ UNCHANGED <<active, radio, recovery, from>>

\* Mutant: starting the hotspot that is active already is not recognised.
start_hotspot_again ==
  /\ Accepted
  /\ find_profile(Hotspot)
  /\ recovery' = [restore |-> active, hotspot |-> Hotspot]
  /\ op' = [kind |-> "start", id |-> Hotspot, was |-> active, files |-> file]
  /\ answer' = NONE
  /\ UNCHANGED <<file, loaded, active, radio, from>>

\* The recovery entry names the client to restore before the device leaves
\* it; starting the hotspot that is active already changes nothing.
start_hotspot ==
  /\ Accepted
  /\ find_profile(Hotspot)
  /\ IF active = Hotspot
       THEN success_result /\ UNCHANGED <<recovery, from>>
       ELSE /\ recovery' = [restore |-> active, hotspot |-> Hotspot]
            /\ op' = [kind |-> "start", id |-> Hotspot, was |-> active, files |-> file]
            /\ answer' = NONE
            /\ from' = NONE
  /\ UNCHANGED <<file, loaded, active, radio>>

\* Disconnect, ignoring a failure, then bring the hotspot up; on failure
\* restore the client and drop the entry unless the restore failed.
ActivateHotspot ==
  /\ op # NONE /\ op.kind = "start"
  /\ \/ /\ CanUp(loaded, Hotspot)
        /\ active' = Hotspot
        /\ from' = recovery.restore
        /\ Ended(TRUE, "not_required", op.was, op.files)
        /\ UNCHANGED recovery
     \/ \E now \in AfterFailedUp(active) :
        \E r \in restore_connection(loaded, recovery.restore, now) :
          /\ active' = r[2]
          /\ recovery' = IF r[1] = "failed" THEN recovery ELSE NONE
          /\ Ended(FALSE, r[1], op.was, op.files)
          /\ UNCHANGED from
  /\ UNCHANGED <<file, loaded, radio, requests>>

\* Take the hotspot down when it is active, for a stop or for a delete.
stop_hotspot(kind) ==
  /\ Accepted
  /\ find_profile(Hotspot)
  /\ \/ /\ active' = IF active = Hotspot THEN NONE ELSE active
        /\ op' = [kind |-> kind, id |-> Hotspot, was |-> active, files |-> file]
        /\ answer' = NONE
     \/ /\ active = Hotspot
        /\ UNCHANGED active
        /\ Ended(FALSE, "not_required", active, file)
  /\ UNCHANGED <<file, loaded, radio, recovery, from>>

RestoreId == IF recovery = NONE THEN NONE ELSE recovery.restore

\* Then restore the client.  The entry stays while the restore fails, and a
\* delete goes on only after a stop that succeeded.
StopRestores ==
  /\ op # NONE /\ op.kind \in {"stop", "delete"}
  /\ \E r \in restore_connection(loaded, RestoreId, active) :
       /\ active' = r[2]
       /\ recovery' = IF r[1] = "failed" THEN recovery ELSE NONE
       /\ from' = IF r[1] = "failed" THEN from ELSE NONE
       /\ IF op.kind = "delete" /\ r[1] # "failed"
            THEN op' = [op EXCEPT !.kind = "remove"] /\ answer' = NONE
            ELSE Ended(r[1] # "failed", r[1], op.was, op.files)
  /\ UNCHANGED <<file, loaded, radio, requests>>

delete_hotspot ==
  /\ op # NONE /\ op.kind = "remove"
  /\ \/ loaded[Hotspot] # NONE /\ Deleted(Hotspot) /\ Ended(TRUE, "not_required", op.was, op.files)
     \/ UNCHANGED <<file, loaded, active>> /\ Ended(FALSE, "not_required", op.was, op.files)
  /\ UNCHANGED <<radio, recovery, from, requests>>

\* Disconnect the device, or switch the radio.
Disconnect ==
  /\ Accepted
  /\ active' = NONE
  /\ Ended(TRUE, "not_required", active, file)
  /\ UNCHANGED <<file, loaded, radio, recovery, from>>

Radio(enabled) ==
  /\ Accepted
  /\ radio' = enabled
  /\ active' = IF enabled THEN active ELSE NONE
  /\ Ended(TRUE, "not_required", active, file)
  /\ UNCHANGED <<file, loaded, recovery, from>>

-----------------------------------------------------------------------------
(* hostd killed between two steps, and NetworkManager by itself.           *)

Killed ==
  /\ op # NONE
  /\ op' = NONE
  /\ answer' = NONE
  /\ UNCHANGED <<file, loaded, active, radio, recovery, from, requests>>

LinkLost ==
  /\ active # NONE
  /\ active' = NONE
  /\ answer' = NONE
  /\ UNCHANGED <<file, loaded, radio, recovery, op, from, requests>>

Autoconnect(id) ==
  /\ active = NONE /\ CanUp(loaded, id)
  /\ active' = id
  /\ answer' = NONE
  /\ UNCHANGED <<file, loaded, radio, recovery, op, from, requests>>

Next ==
  \/ \E id \in Ids : ConnectKnown(id)
  \/ \E id \in Clients, c \in Contents : connect(id, c)
  \/ ConnectNew
  \/ \E id \in Clients, rev, c \in Contents, ok \in BOOLEAN : update_profile(id, rev, c, ok)
  \/ \E rev, c \in Contents, ok \in BOOLEAN : replace_profile(Hotspot, rev, c, ok)
  \/ ApplyReplaced
  \/ \E id \in Clients : delete_profile(id)
  \/ \E c \in Contents : update_hotspot(c)
  \/ start_hotspot
  \/ ActivateHotspot
  \/ \E kind \in {"stop", "delete"} : stop_hotspot(kind)
  \/ StopRestores
  \/ delete_hotspot
  \/ Disconnect
  \/ \E on \in BOOLEAN : Radio(on)
  \/ Killed
  \/ LinkLost
  \/ \E id \in Ids : Autoconnect(id)

Spec == Init /\ [][Next]_wifi

-----------------------------------------------------------------------------
\* A keyfile, and a profile NetworkManager has loaded, is one that
\* create_keyfile writes, and only the hotspot's is an access point.
TypeOK ==
  /\ \A id \in Ids : file[id] # NONE => file[id] \in Keyfile
  /\ \A id \in Ids : loaded[id] # NONE => loaded[id] \in Keyfile
  /\ \A id \in Clients : file[id] # NONE => file[id].mode = "client"
  /\ active \in Ids \cup {NONE}
  /\ radio \in BOOLEAN

\* While the hotspot runs, state.json names the client profile it was started
\* from: that is what stop_hotspot restores, whatever requests, failures and
\* restarts of hostd came in between (start_hotspot, stop_hotspot).
HotspotRemembersClient ==
  active = Hotspot /\ from # NONE => recovery = [restore |-> from, hotspot |-> Hotspot]

\* A request that fails and reports rollback "succeeded" has put the keyfiles
\* back as they were when it arrived, and the connection too when it had
\* taken it down (connect, replace_profile, update_hotspot, start_hotspot).
FailureIsUndone ==
  answer # NONE /\ ~answer.ok /\ answer.rollback = "succeeded" =>
    active = answer.was /\ file = answer.files
=============================================================================
