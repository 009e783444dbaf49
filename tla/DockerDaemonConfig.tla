------------------------- MODULE DockerDaemonConfig -------------------------
(***************************************************************************)
(* Changing /etc/docker/daemon.json through hostd                          *)
(* (apps/hostd/src/docker_daemon.rs and docker_daemon/store.rs).           *)
(*                                                                         *)
(* hostd holds the Docker lock for a whole update, but an administrator    *)
(* may edit the file over SSH at any time, and hostd may be killed between *)
(* any two writes.  A content stands for its SHA-256 revision, Missing for *)
(* the revision of a file that does not exist.  The revision check that    *)
(* atomic_write_checked makes just before its rename is one step with it.  *)
(***************************************************************************)
EXTENDS Naturals

CONSTANTS
  Contents,    \* contents of daemon.json
  Bad,         \* those docker.service does not start with
  Rejected,    \* those dockerd --validate refuses
  MaxUpdates,  \* bound on updates
  MaxEdits,    \* bound on edits by hand
  Missing, NONE

VARIABLES
  conf,      \* daemon.json, or Missing
  baseline,  \* baseline.json, or Missing
  txn,       \* transaction.json, or NONE
  running,   \* the configuration docker.service runs with, or NONE
  ran,       \* the configurations it has run with
  byHand,    \* the contents an administrator wrote
  upd,       \* the update in progress, or NONE
  told,      \* how the last update ended
  updates, edits

daemon == <<conf, baseline, txn, running, ran, byHand, upd, told, updates, edits>>

Init ==
  /\ conf = Missing
  /\ baseline = Missing
  /\ txn = NONE
  /\ running = Missing
  /\ ran = {Missing}
  /\ byHand = {}
  /\ upd = NONE
  /\ told = "nothing"
  /\ updates = 0 /\ edits = 0

At(pc) == upd # NONE /\ upd.pc = pc

Goto(pc) == upd' = [upd EXCEPT !.pc = pc]

End(message) == upd' = NONE /\ told' = message

ensure_revision(expected) == conf = expected

\* read, ensure_revision, dockerd --version, dockerd --validate; the API has
\* checked the request with validateDockerDaemonConfigUpdate.
update(content, expected, restart) ==
  /\ upd = NONE /\ updates < MaxUpdates
  /\ updates' = updates + 1
  /\ IF ensure_revision(expected) /\ content \notin Rejected
       THEN /\ upd' = [pc |-> "prepare", content |-> content, expected |-> expected,
                       restart |-> restart, edited |-> FALSE]
            /\ UNCHANGED told
       ELSE told' = "refused" /\ UNCHANGED upd
  /\ UNCHANGED <<conf, baseline, txn, running, ran, byHand, edits>>

\* Mutant: every save takes a new baseline.
create_baseline_always ==
  /\ At("prepare")
  /\ IF ~ensure_revision(upd.expected)
       THEN End("conflict") /\ UNCHANGED baseline
       ELSE IF conf # upd.content \/ upd.restart
              THEN baseline' = conf /\ Goto("begin") /\ UNCHANGED told
              ELSE UNCHANGED <<baseline, told>> /\ Goto("write")
  /\ UNCHANGED <<conf, txn, running, ran, byHand, updates, edits>>

\* Read again; without a transaction the file as it is becomes the baseline.
create_baseline ==
  /\ At("prepare")
  /\ IF ~ensure_revision(upd.expected)
       THEN End("conflict") /\ UNCHANGED baseline
       ELSE IF txn = NONE /\ (conf # upd.content \/ upd.restart)
              THEN baseline' = conf /\ Goto("begin") /\ UNCHANGED told
              ELSE UNCHANGED <<baseline, told>> /\ Goto("write")
  /\ UNCHANGED <<conf, txn, running, ran, byHand, updates, edits>>

\* transaction.json; pending is the revision the baseline was taken at.
BeginTransaction ==
  /\ At("begin")
  /\ txn' = [baseline |-> baseline, pending |-> baseline]
  /\ Goto("write")
  /\ UNCHANGED <<conf, baseline, running, ran, byHand, told, updates, edits>>

\* Write the new content unless the file is no longer the expected one.
WriteConfig ==
  /\ At("write")
  /\ IF conf = upd.content
       THEN UNCHANGED <<conf, told>> /\ Goto(IF upd.restart THEN "pending" ELSE "snapshot")
       ELSE IF ensure_revision(upd.expected)
              THEN conf' = upd.content /\ UNCHANGED told /\ Goto("pending")
              ELSE End("conflict") /\ UNCHANGED conf
  /\ UNCHANGED <<baseline, txn, running, ran, byHand, updates, edits>>

\* Mutant: only the update that wrote the file records the pending revision.
write_transaction_once ==
  /\ At("pending")
  /\ txn' = IF upd.expected = upd.content THEN txn ELSE [txn EXCEPT !.pending = upd.content]
  /\ Goto(IF upd.restart THEN "restart" ELSE "snapshot")
  /\ UNCHANGED <<conf, baseline, running, ran, byHand, told, updates, edits>>

\* The pending revision: what a rollback expects to find.
write_transaction ==
  /\ At("pending")
  /\ txn' = [txn EXCEPT !.pending = upd.content]
  /\ Goto(IF upd.restart THEN "restart" ELSE "snapshot")
  /\ UNCHANGED <<conf, baseline, running, ran, byHand, told, updates, edits>>

\* An update without restart ends with the snapshot it answers.
read_snapshot ==
  /\ At("snapshot")
  /\ End(IF conf = upd.content THEN "saved" ELSE "conflict")
  /\ UNCHANGED <<conf, baseline, txn, running, ran, byHand, updates, edits>>

\* systemctl restart docker.service, for the content that was checked.
Restart ==
  /\ At("restart")
  /\ IF ~ensure_revision(upd.content)
       THEN End("conflict") /\ UNCHANGED <<running, ran>>
       ELSE \/ /\ conf \notin Bad
               /\ running' = conf /\ ran' = ran \cup {conf}
               /\ Goto("clear") /\ UNCHANGED told
            \/ running' = NONE /\ UNCHANGED <<ran, told>> /\ Goto("rollback")
  /\ UNCHANGED <<conf, baseline, txn, byHand, updates, edits>>

\* The baseline is written back, or the file removed, if nobody else changed it.
rollback_config ==
  /\ At("rollback")
  /\ IF txn.baseline = baseline /\ ensure_revision(txn.pending)
       THEN conf' = txn.baseline /\ UNCHANGED told /\ Goto("restart_baseline")
       ELSE End("manual recovery") /\ UNCHANGED conf
  /\ UNCHANGED <<baseline, txn, running, ran, byHand, updates, edits>>

RestartBaseline ==
  /\ At("restart_baseline")
  /\ \/ /\ conf \notin Bad
        /\ running' = conf /\ ran' = ran \cup {conf}
        /\ upd' = [upd EXCEPT !.pc = "clear", !.restart = FALSE]
        /\ UNCHANGED told
     \/ running' = NONE /\ UNCHANGED ran /\ End("manual recovery")
  /\ UNCHANGED <<conf, baseline, txn, byHand, updates, edits>>

\* transaction.json goes first, then baseline.json.
clear_transaction ==
  \/ /\ At("clear")
     /\ txn' = NONE
     /\ Goto("clear_baseline")
     /\ UNCHANGED <<conf, baseline, running, ran, byHand, told, updates, edits>>
  \/ /\ At("clear_baseline")
     /\ baseline' = Missing
     /\ End(IF upd.restart THEN "restarted" ELSE "restored")
     /\ UNCHANGED <<conf, txn, running, ran, byHand, updates, edits>>

Killed ==
  /\ upd # NONE
  /\ End("unavailable")
  /\ UNCHANGED <<conf, baseline, txn, running, ran, byHand, updates, edits>>

EditByHand(content) ==
  /\ edits < MaxEdits /\ content # conf
  /\ edits' = edits + 1
  /\ conf' = content
  /\ byHand' = byHand \cup {content}
  /\ upd' = IF upd = NONE THEN NONE ELSE [upd EXCEPT !.edited = TRUE]
  /\ UNCHANGED <<baseline, txn, running, ran, told, updates>>

Next ==
  \/ \E c \in Contents, e \in Contents \cup {Missing}, restart \in BOOLEAN : update(c, e, restart)
  \/ create_baseline
  \/ BeginTransaction
  \/ WriteConfig
  \/ write_transaction
  \/ read_snapshot
  \/ Restart
  \/ rollback_config
  \/ RestartBaseline
  \/ clear_transaction
  \/ Killed
  \/ \E c \in Contents : EditByHand(c)

Spec == Init /\ [][Next]_daemon

-----------------------------------------------------------------------------
\* The baseline a failed restart goes back to is a configuration that
\* docker.service has run with or that somebody wrote by hand, never one that
\* was only proposed: later saves, failures and crashes do not replace it
\* (create_baseline, update).
BaselineWasApplied ==
  txn # NONE => txn.baseline \in ran \cup byHand

\* When a restart fails and nobody edited the file during the update, the
\* rollback finds the revision it expects, also after a crash between the
\* rename of daemon.json and the write of transaction.json (rollback_config).
RollbackIsPossible ==
  At("rollback") /\ ~upd.edited => txn.baseline = baseline /\ ensure_revision(txn.pending)
=============================================================================
