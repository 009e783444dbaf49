--------------------------- MODULE FileMutations ---------------------------
(***************************************************************************)
(* File operations of the API: move, copy, trash, restore and rollback.    *)
(* Each is an async handler that checks the two paths, changes the file    *)
(* system (a rename, or across file systems a copy, a rename and a removal *)
(* of the source) and then writes its rows: the trash entry, the           *)
(* file_operations record and the status of the operation it undoes.       *)
(* Handlers interleave at every await.  The last statements of a handler   *)
(* run without one, so only a crash can come between them.                 *)
(*                                                                         *)
(* A location is a path of the NAS or a slot of the trash directory; every *)
(* trash entry has a slot of its own, named by a fresh uuid.               *)
(***************************************************************************)
EXTENDS Naturals, Sequences

CONSTANTS Handlers,     \* requests that may be in flight together
          Paths,        \* paths of the NAS roots
          Files,        \* the files; Home[f] is the path f starts at
          Home,
          NoFile,
          CrossDevice,  \* whether the trash is on a file system of its own
          MaxOps,       \* bound on file_operations records
          MaxTrash,     \* bound on trash entries
          MaxCrashes

ASSUME FileAssumption ==
  /\ NoFile \notin Files
  /\ Home \in [Files -> Paths]
  /\ \A f, g \in Files : Home[f] = Home[g] => f = g

Slots == 1 .. MaxTrash
Locations == Paths \cup Slots

VARIABLES fs,      \* the file at every location
          entry,   \* trash_entries: status and original path of every slot
          op,      \* file_operations, in the order of their insertion
          h,       \* the handlers in flight
          tmp,     \* the temporary copy of a handler's move
          slots,   \* trash slots taken
          crashes

vars == <<fs, entry, op, h, tmp, slots, crashes>>

Idle == [pc |-> "idle", kind |-> "none", src |-> 0, dst |-> 0, undo |-> 0, file |-> NoFile]

Init ==
  /\ fs = [l \in Locations |->
             IF \E f \in Files : Home[f] = l THEN CHOOSE f \in Files : Home[f] = l ELSE NoFile]
  /\ entry = [s \in Slots |-> [status |-> "none", origin |-> NoFile]]
  /\ op = <<>>
  /\ h = [x \in Handlers |-> Idle]
  /\ tmp = [x \in Handlers |-> NoFile]
  /\ slots = 0
  /\ crashes = 0

At(l) == fs[l] # NoFile

(* No handler is between two statements of one turn of the event loop.     *)
Turn == \A x \in Handlers : h[x].pc \notin {"written", "recorded"}

InFlight == { x \in Handlers : h[x].pc # "idle" }
RecordsLeft(n) == Len(op) + n <= MaxOps - (IF InFlight = {} THEN 0 ELSE 1)

----------------------------------------------------------------------------
(* A request arrives.  Request is what every route has in common.          *)
Request(x, kind, src, dst, undo) ==
  /\ h[x].pc = "idle" /\ Turn /\ RecordsLeft(1)
  /\ h' = [h EXCEPT ![x] = [pc |-> "check", kind |-> kind, src |-> src, dst |-> dst,
                            undo |-> undo, file |-> NoFile]]
  /\ UNCHANGED <<fs, entry, op, tmp, crashes>>

(* applyMove (also rename) and applyCopy.                                  *)
Transfer(x, kind, p, q) == p # q /\ Request(x, kind, p, q, 0) /\ UNCHANGED slots

(* Mutant: a slot whose file is gone is used again.                        *)
TrashReusesSlot(x, p) ==
  \E s \in Slots : ~At(s) /\ slots' = s /\ Request(x, "trash", p, s, 0)

(* applyTrash: the destination is a fresh slot, trashPathFor.              *)
Trash(x, p) ==
  slots < MaxTrash /\ slots' = slots + 1 /\ Request(x, "trash", p, slots + 1, 0)

(* POST /api/trash/:id/restore: the entry must not be restored yet.        *)
Restore(x, s) ==
  entry[s].status = "active" /\ Request(x, "restore", s, entry[s].origin, 0) /\ UNCHANGED slots

(* Mutant: the entry trashed last is restored, not the operation's own.    *)
UndoLatestEntry(x, n) ==
  /\ op[n].kind = "trash" /\ entry[slots].status = "active"
  /\ Request(x, "restore", slots, entry[slots].origin, n) /\ UNCHANGED slots

(* What undoes an operation: a move goes back, a trash operation restores  *)
(* its entry, and what a copy or a restore produced is trashed.            *)
Undo(x, n) ==
  \/ /\ op[n].kind = "move"
     /\ Request(x, "move", op[n].dst, op[n].src, n) /\ UNCHANGED slots
  \/ /\ op[n].kind = "trash" /\ entry[op[n].dst].status = "active"
     /\ Request(x, "restore", op[n].dst, entry[op[n].dst].origin, n) /\ UNCHANGED slots
  \/ /\ op[n].kind \in {"copy", "restore"} /\ slots < MaxTrash
     /\ slots' = slots + 1
     /\ Request(x, "trash", op[n].dst, slots + 1, n)

(* POST /api/operations/:id/rollback.                                      *)
Rollback(x, n) == op[n].status = "applied" /\ Undo(x, n)

----------------------------------------------------------------------------
(* The handler.                                                            *)

Goto(x, pc) == h' = [h EXCEPT ![x].pc = pc]
Fail(x) == h' = [h EXCEPT ![x] = Idle] /\ tmp' = [tmp EXCEPT ![x] = NoFile]

(* resolveSafeExistingPath of the source and assertTargetDoesNotExist.     *)
Check(x) ==
  /\ h[x].pc = "check" /\ Turn
  /\ IF At(h[x].src) /\ ~At(h[x].dst)
     THEN Goto(x, "mutate") /\ UNCHANGED tmp
     ELSE Fail(x)
  /\ UNCHANGED <<fs, entry, op, slots, crashes>>

(* A rename between the NAS and a trash on another file system meets EXDEV. *)
Far(src, dst) == CrossDevice /\ (src \in Slots <=> dst \in Paths)

(* The change itself.  rename takes whatever is at the source and replaces *)
(* whatever is at the target; cp refuses an existing target.               *)
Mutate(x) ==
  LET src == h[x].src
      dst == h[x].dst
      take == h' = [h EXCEPT ![x].pc = "moved", ![x].file = fs[src]] /\ UNCHANGED tmp
  IN  /\ h[x].pc = "mutate" /\ Turn
      /\ \/ /\ ~At(src) /\ Fail(x) /\ UNCHANGED fs
         \/ /\ At(src) /\ h[x].kind # "copy" /\ ~Far(src, dst)
            /\ fs' = [fs EXCEPT ![dst] = fs[src], ![src] = NoFile] /\ take
         \/ /\ At(src) /\ h[x].kind = "copy" /\ ~At(dst)
            /\ fs' = [fs EXCEPT ![dst] = fs[src]] /\ take
         \/ /\ h[x].kind = "copy" /\ At(dst) /\ Fail(x) /\ UNCHANGED fs
         \/ /\ At(src) /\ Far(src, dst)
            /\ h' = [h EXCEPT ![x].pc = "copied", ![x].file = fs[src]]
            /\ tmp' = [tmp EXCEPT ![x] = fs[src]]
            /\ UNCHANGED fs
      /\ UNCHANGED <<entry, op, slots, crashes>>

(* movePath across file systems: the temporary copy becomes the target.    *)
PlaceCopy(x) ==
  /\ h[x].pc = "copied" /\ Turn
  /\ fs' = [fs EXCEPT ![h[x].dst] = tmp[x]]
  /\ tmp' = [tmp EXCEPT ![x] = NoFile]
  /\ Goto(x, "placed")
  /\ UNCHANGED <<entry, op, slots, crashes>>

(* Mutant: the target is removed whatever became of the source.            *)
RemoveBoth(x) ==
  /\ h[x].pc = "placed" /\ Turn
  /\ fs' = [fs EXCEPT ![h[x].src] = NoFile, ![h[x].dst] = NoFile]
  /\ Fail(x)
  /\ UNCHANGED <<entry, op, slots, crashes>>

(* Then the source is removed.  rm fails when nothing is there, and may    *)
(* fail otherwise; the target is removed again and the handler fails.      *)
RemoveSource(x) ==
  /\ h[x].pc = "placed" /\ Turn
  /\ \/ /\ At(h[x].src)
        /\ fs' = [fs EXCEPT ![h[x].src] = NoFile]
        /\ Goto(x, "moved") /\ UNCHANGED tmp
     \/ fs' = [fs EXCEPT ![h[x].dst] = NoFile] /\ Fail(x)
  /\ UNCHANGED <<entry, op, slots, crashes>>

(* Mutant: restoring leaves the trash entry as it is.                      *)
WriteEntryForgetsRestore(x) ==
  /\ h[x].pc = "moved" /\ Turn
  /\ entry' = IF h[x].kind = "trash"
              THEN [entry EXCEPT ![h[x].dst] = [status |-> "active", origin |-> h[x].src]]
              ELSE entry
  /\ Goto(x, "written")
  /\ UNCHANGED <<fs, op, tmp, slots, crashes>>

(* The rows, first the trash entry: createTrashEntry, or                   *)
(* markTrashEntryRestored.                                                 *)
WriteEntry(x) ==
  /\ h[x].pc = "moved" /\ Turn
  /\ entry' = CASE h[x].kind = "trash" ->
                     [entry EXCEPT ![h[x].dst] = [status |-> "active", origin |-> h[x].src]]
                [] h[x].kind = "restore" -> [entry EXCEPT ![h[x].src].status = "restored"]
                [] OTHER -> entry
  /\ Goto(x, "written")
  /\ UNCHANGED <<fs, op, tmp, slots, crashes>>

(* recordAppliedOperation; "file" and "undo" are history.                  *)
WriteOperation(x) ==
  /\ h[x].pc = "written"
  /\ op' = Append(op, [kind |-> h[x].kind, src |-> h[x].src, dst |-> h[x].dst,
                       status |-> "applied", file |-> h[x].file, undo |-> h[x].undo])
  /\ Goto(x, IF h[x].undo = 0 THEN "idle" ELSE "recorded")
  /\ UNCHANGED <<fs, entry, tmp, slots, crashes>>

(* markFileOperationRolledBack, and the reply.                             *)
MarkRolledBack(x) ==
  /\ h[x].pc = "recorded"
  /\ op' = [op EXCEPT ![h[x].undo].status = "rolled_back"]
  /\ h' = [h EXCEPT ![x] = Idle]
  /\ UNCHANGED <<fs, entry, tmp, slots, crashes>>

(* The API dies and is started again: the requests are gone.               *)
Crash ==
  /\ crashes < MaxCrashes /\ InFlight # {}
  /\ h' = [x \in Handlers |-> Idle]
  /\ tmp' = [x \in Handlers |-> NoFile]
  /\ crashes' = crashes + 1
  /\ UNCHANGED <<fs, entry, op, slots>>

Handle(x) ==
  \/ Check(x) \/ Mutate(x) \/ PlaceCopy(x) \/ RemoveSource(x)
  \/ WriteEntry(x) \/ WriteOperation(x) \/ MarkRolledBack(x)

Next ==
  \/ \E x \in Handlers :
       \/ \E p, q \in Paths, k \in {"move", "copy"} : Transfer(x, k, p, q)
       \/ \E p \in Paths : Trash(x, p)
       \/ \E s \in Slots : Restore(x, s)
       \/ \E n \in DOMAIN op : Rollback(x, n)
       \/ Handle(x)
  \/ Crash

Spec == Init /\ [][Next]_vars

----------------------------------------------------------------------------
HandlerAt == {"idle", "check", "mutate", "copied", "placed", "moved", "written", "recorded"}
Kinds == {"move", "copy", "trash", "restore"}

(* Every row and every position is one the code can write.                 *)
TypeOK ==
  /\ fs \in [Locations -> Files \cup {NoFile}]
  /\ \A s \in Slots : /\ entry[s].status \in {"none", "active", "restored"}
                      /\ entry[s].origin \in Paths \cup {NoFile}
  /\ \A n \in DOMAIN op : /\ op[n].kind \in Kinds /\ op[n].file \in Files
                          /\ {op[n].src, op[n].dst} \subseteq Locations
                          /\ op[n].status \in {"applied", "rolled_back"}
  /\ \A x \in Handlers : h[x].pc \in HandlerAt /\ h[x].kind \in Kinds \cup {"none"}
  /\ tmp \in [Handlers -> Files \cup {NoFile}]
  /\ slots \in 0 .. MaxTrash /\ Len(op) <= MaxOps

(* No operation, no failure of one and no crash destroys a file: it stays  *)
(* on the NAS or in the trash.                                             *)
NothingLost == \A f \in Files : \E l \in Locations : fs[l] = f

Untouched(s) == \A x \in Handlers : s \notin {h[x].src, h[x].dst}

(* The trash that the UI lists is the trash on disk, as long as the API    *)
(* does not die in the middle of an operation: a listed entry that no      *)
(* request is working on can be restored, and nothing is in the trash      *)
(* directory without being listed.                                         *)
TrashIsListed ==
  crashes = 0 => \A s \in Slots : Untouched(s) => (entry[s].status = "active" <=> At(s))

(* A trash entry that was restored is at rest: nothing is put back into    *)
(* its slot, and the entry is not listed again.                            *)
RestoredStays ==
  [][\A s \in Slots : entry[s].status = "restored" =>
        entry'[s] = entry[s] /\ (fs'[s] = fs[s] \/ fs'[s] = NoFile)]_vars

(* Rolling back a trash operation brings back the file that it trashed, to *)
(* the path it was taken from.                                             *)
TrashRollbackReturnsFile ==
  [][\A n \in DOMAIN op :
       /\ op[n].kind = "trash" /\ op[n].status = "applied" /\ op'[n].status = "rolled_back"
       => fs[op[n].src] = op[n].file]_vars
=============================================================================
