---------------------------- MODULE StoragePool ----------------------------
(***************************************************************************)
(* Creating and deleting RAID pools: hostd's storage.operation             *)
(* (apps/hostd/src/storage.rs, storage/devices.rs, storage/fstab.rs) and   *)
(* the proposals the API builds from its inventory                         *)
(* (apps/api/src/lib/storage-service.ts).                                  *)
(*                                                                         *)
(* hostd runs one storage operation at a time.  Any command may fail, and  *)
(* one that fails has changed nothing; hostd or the host may go down       *)
(* between two commands.  A disk is blank or a RAID member; the array an   *)
(* md superblock belongs to, not the data in it, is what matters here.     *)
(***************************************************************************)
EXTENDS Naturals, FiniteSets

CONSTANTS
  Disks,       \* whole disks
  Pools,       \* pool names
  Minimum,     \* disks the RAID level needs (RAID_MINIMUMS)
  MaxOps,      \* bound on operations
  NONE

VARIABLES
  member,     \* the pool whose md superblock a disk carries, or NONE
  array,      \* the members of the assembled array of a pool, or NONE
  mounted,    \* pools that are mounted
  fstab,      \* pools with an entry in /etc/fstab
  inventory,  \* the arrays as the API last saw them
  op,         \* the operation hostd runs, or NONE
  ops

pool == <<member, array, mounted, fstab, inventory, op, ops>>

Init ==
  /\ member = [d \in Disks |-> NONE]
  /\ array = [p \in Pools |-> NONE]
  /\ mounted = {} /\ fstab = {}
  /\ inventory = array
  /\ op = NONE
  /\ ops = 0

Holders(d) == {p \in Pools : array[p] # NONE /\ d \in array[p]}

At(kind, pc) == op # NONE /\ op.kind = kind /\ op.pc = pc

Goto(pc) == op' = [op EXCEPT !.pc = pc]

-----------------------------------------------------------------------------
(* The API.                                                                *)

CollectInventory ==
  /\ inventory # array
  /\ inventory' = array
  /\ UNCHANGED <<member, array, mounted, fstab, op, ops>>

\* Enough disks, none of which the inventory shows in an array.
buildStoragePoolProposal(devices) ==
  /\ Cardinality(devices) >= Minimum
  /\ \A q \in Pools : inventory[q] # NONE => devices \cap inventory[q] = {}

\* The pool is in the inventory, and its members are the devices.
buildStoragePoolDeleteProposal(p, devices) == inventory[p] # NONE /\ devices = inventory[p]

-----------------------------------------------------------------------------
(* Create.                                                                 *)

\* Mutant: a member disk is stale whatever holds it.
assert_no_holders(devices) == TRUE

\* A disk with a RAID superblock may be used only if no array holds it.
assert_devices_available(devices) == \A d \in devices : Holders(d) = {}

create_pool(p, devices) ==
  /\ op = NONE /\ ops < MaxOps
  /\ buildStoragePoolProposal(devices)
  /\ assert_devices_available(devices)
  /\ p \notin mounted /\ array[p] = NONE
  /\ ops' = ops + 1
  /\ op' = [kind |-> "create", pc |-> "zero", name |-> p, devices |-> devices,
            created |-> FALSE, mounted |-> FALSE, entry |-> FALSE]
  /\ UNCHANGED <<member, array, mounted, fstab, inventory>>

\* mdadm --zero-superblock of the stale members, then mdadm --create.
ZeroStale ==
  /\ At("create", "zero")
  /\ member' = [d \in Disks |-> IF d \in op.devices THEN NONE ELSE member[d]]
  /\ Goto("array")
  /\ UNCHANGED <<array, mounted, fstab, inventory, ops>>

CreateArray ==
  /\ At("create", "array")
  /\ array' = [array EXCEPT ![op.name] = op.devices]
  /\ member' = [d \in Disks |-> IF d \in op.devices THEN op.name ELSE member[d]]
  /\ op' = [op EXCEPT !.pc = "mount", !.created = TRUE]
  /\ UNCHANGED <<mounted, fstab, inventory, ops>>

\* mkfs, mkdir, mount, findmnt.
FormatAndMount ==
  /\ At("create", "mount")
  /\ mounted' = mounted \cup {op.name}
  /\ op' = [op EXCEPT !.pc = "entry", !.mounted = TRUE]
  /\ UNCHANGED <<member, array, fstab, inventory, ops>>

\* chown, setfacl, blkid, then the fstab entry.
append_entry ==
  /\ At("create", "entry")
  /\ fstab' = fstab \cup {op.name}
  /\ op' = [op EXCEPT !.pc = "start", !.entry = TRUE]
  /\ UNCHANGED <<member, array, mounted, inventory, ops>>

\* daemon-reload, start of the mount unit, findmnt.
CreateDone ==
  /\ At("create", "start")
  /\ op' = NONE
  /\ UNCHANGED <<member, array, mounted, fstab, inventory, ops>>

\* A command failed: undo what was done, as far as the commands succeed.
CreateFails ==
  /\ op # NONE /\ op.kind = "create"
  /\ op.pc \in {"zero", "array", "mount", "entry", "start"}
  /\ Goto("undo_entry")
  /\ UNCHANGED <<member, array, mounted, fstab, inventory, ops>>

UndoEntry ==
  /\ At("create", "undo_entry")
  /\ fstab' = IF op.entry THEN fstab \ {op.name} ELSE fstab
  /\ Goto("undo_mount")
  /\ UNCHANGED <<member, array, mounted, inventory, ops>>

UndoMount ==
  /\ At("create", "undo_mount")
  /\ mounted' \in IF op.mounted THEN {mounted, mounted \ {op.name}} ELSE {mounted}
  /\ Goto("undo_array")
  /\ UNCHANGED <<member, array, fstab, inventory, ops>>

\* mdadm --stop fails on a mounted array; the superblocks are zeroed then too.
UndoArray ==
  /\ At("create", "undo_array")
  /\ IF op.created
       THEN /\ array' \in {array} \cup
                 (IF op.name \in mounted THEN {} ELSE {[array EXCEPT ![op.name] = NONE]})
            /\ member' \in {member, [d \in Disks |-> IF d \in op.devices THEN NONE ELSE member[d]]}
       ELSE UNCHANGED <<array, member>>
  /\ op' = NONE
  /\ UNCHANGED <<mounted, fstab, inventory, ops>>

-----------------------------------------------------------------------------
(* Delete.                                                                 *)

assert_array_members(p, devices) == array[p] # NONE /\ array[p] = devices

\* Mutant: the entry goes only after the array was stopped.
delete_pool_late(p, devices) ==
  /\ op = NONE /\ ops < MaxOps
  /\ buildStoragePoolDeleteProposal(p, devices)
  /\ assert_array_members(p, devices)
  /\ ops' = ops + 1
  /\ op' = [kind |-> "delete", pc |-> "umount", name |-> p, devices |-> devices,
            created |-> FALSE, mounted |-> FALSE, entry |-> p \in fstab]
  /\ UNCHANGED <<member, array, mounted, fstab, inventory>>

\* The fstab entry goes first.
delete_pool(p, devices) ==
  /\ op = NONE /\ ops < MaxOps
  /\ buildStoragePoolDeleteProposal(p, devices)
  /\ assert_array_members(p, devices)
  /\ ops' = ops + 1
  /\ fstab' = fstab \ {p}
  /\ op' = [kind |-> "delete", pc |-> "umount", name |-> p, devices |-> devices,
            created |-> FALSE, mounted |-> FALSE, entry |-> p \in fstab]
  /\ UNCHANGED <<member, array, mounted, inventory>>

Umount ==
  /\ At("delete", "umount")
  /\ op.name \in mounted
  /\ mounted' = mounted \ {op.name}
  /\ Goto("stop")
  /\ UNCHANGED <<member, array, fstab, inventory, ops>>

StopArray ==
  /\ At("delete", "stop")
  /\ array' = [array EXCEPT ![op.name] = NONE]
  /\ Goto("erase")
  /\ UNCHANGED <<member, mounted, fstab, inventory, ops>>

\* udevadm settle and mdadm --zero-superblock; a failure leaves the superblocks.
EraseMembers ==
  /\ At("delete", "erase")
  /\ member' \in {member, [d \in Disks |-> IF d \in op.devices THEN NONE ELSE member[d]]}
  /\ op' = NONE
  /\ UNCHANGED <<array, mounted, fstab, inventory, ops>>

\* A failure before the array is stopped puts the entry and the mount back.
DeleteFails ==
  /\ op # NONE /\ op.kind = "delete" /\ op.pc \in {"umount", "stop"}
  /\ fstab' = IF op.entry THEN fstab \cup {op.name} ELSE fstab
  /\ mounted' \in {mounted, IF op.entry THEN mounted \cup {op.name} ELSE mounted}
  /\ op' = NONE
  /\ UNCHANGED <<member, array, inventory, ops>>

-----------------------------------------------------------------------------
\* hostd is killed between two commands.
Killed ==
  /\ op # NONE
  /\ op' = NONE
  /\ UNCHANGED <<member, array, mounted, fstab, inventory, ops>>

\* The host restarts: superblocks are assembled, the entries of fstab mounted.
Reboot ==
  /\ op' = NONE
  /\ array' = [p \in Pools |-> LET ds == {d \in Disks : member[d] = p}
                               IN IF ds = {} THEN NONE ELSE ds]
  /\ mounted' = {p \in fstab : array'[p] # NONE}
  /\ UNCHANGED <<member, fstab, inventory, ops>>

Next ==
  \/ CollectInventory
  \/ \E p \in Pools, ds \in SUBSET Disks : create_pool(p, ds)
  \/ ZeroStale \/ CreateArray \/ FormatAndMount \/ append_entry \/ CreateDone
  \/ CreateFails \/ UndoEntry \/ UndoMount \/ UndoArray
  \/ \E p \in Pools, ds \in SUBSET Disks : delete_pool(p, ds)
  \/ Umount \/ StopArray \/ EraseMembers \/ DeleteFails
  \/ Killed
  \/ Reboot

Spec == Init /\ [][Next]_pool

-----------------------------------------------------------------------------
\* No operation takes or erases a disk of another pool's assembled array,
\* however old the inventory the proposal was made from (create_pool).
OthersKeepDisks ==
  [][op # NONE => \A q \in Pools \ {op.name}, d \in Disks :
       q \in Holders(d) => member'[d] = member[d]]_pool

\* Every entry of fstab is the entry of an array that is assembled, at every
\* point where hostd or the host may go down: a create adds the entry last and
\* takes it back first, a delete removes it first (create_pool, delete_pool).
EntryHasArray == \A p \in fstab : array[p] # NONE
=============================================================================
