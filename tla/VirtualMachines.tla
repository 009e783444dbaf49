-------------------------- MODULE VirtualMachines ---------------------------
(***************************************************************************)
(* Virtual machines: POST /api/vms/actions (apps/api/src/routes/vms.ts)    *)
(* and the commands it runs (apps/api/src/lib/vm-service.ts).  A request   *)
(* reads a summary of the host, records an operation, and runs virsh,      *)
(* qemu-img and virt-install one after the other; other requests run in    *)
(* between.  Whoever works at the host itself does so too.                 *)
(*                                                                         *)
(* A command that fails, or is killed by its time limit, has had its whole *)
(* effect by then or never has it.  Two machines are given the same        *)
(* existing disk by nobody.                                                *)
(***************************************************************************)
EXTENDS Integers, Sequences, FiniteSets, SequencesExt

CONSTANTS Reqs,       \* requests that may be in flight at once
          Domains,    \* names of virtual machines
          Bodies,     \* options of a create request
          Arm,        \* the host is an arm64 machine
          MaxCpus,    \* 128
          OldDisk,    \* an existing disk in the storage path
          MaxSnapshots,
          MaxTrouble, \* bound on failures, restarts and commands of others
          NONE

VARIABLES domain,    \* the machines libvirt knows: NONE or what it is
          disks,     \* disk files in the storage path
          ops,       \* vm_operations: the operation of every request
          jobs,      \* jobs.status of every request
          req,       \* the handlers
          auth,      \* vm_console_authorizations: the latest one
          trouble

vars == <<domain, disks, ops, jobs, req, auth, trouble>>

Idle == [pc |-> "idle", action |-> NONE, d |-> NONE, body |-> NONE, chain |-> {}]
Commands == [start |-> "running", shutdown |-> "shutoff", stop |-> "shutoff",
             pause |-> "paused", resume |-> "running"]
Actions == DOMAIN Commands \cup {"restart", "reset", "snapshot", "delete", "create", "console"}
NewDisk(d) == <<d, 0>>

Init ==
  /\ domain = [d \in Domains |-> NONE]
  /\ disks = {OldDisk}
  /\ ops = [r \in Reqs |-> NONE] /\ jobs = [r \in Reqs |-> "none"]
  /\ req = [r \in Reqs |-> Idle] /\ auth = "none"
  /\ trouble = 0

Trouble == trouble < MaxTrouble /\ trouble' = trouble + 1
State(d) == IF domain[d] = NONE THEN NONE ELSE domain[d].state
Goto(r, pc) == req' = [req EXCEPT ![r].pc = pc]

-----------------------------------------------------------------------------
(* The options of a new machine.                                           *)

Product(t) == t[1] * t[2] * t[3]

(* Mutant: the number of CPUs need not agree with the topology.            *)
options_unmatched(o) ==
  IF \/ o.topology # NONE /\ Product(o.topology) > MaxCpus
     \/ Arm /\ (o.cpuMode = "host-model" \/ o.firmware = "bios")
  THEN {}
  ELSE {[o EXCEPT !.cpuMode = IF @ = NONE /\ Arm THEN "host-passthrough" ELSE @,
                  !.firmware = IF @ = NONE /\ Arm THEN "uefi" ELSE @]}

(* validateCreateOptions: {} when it throws.  The topology, when there is  *)
(* one, stands for all CPUs; arm64 has no host-model CPU and no BIOS.      *)
validateCreateOptions(o) ==
  IF \/ o.topology # NONE /\ Product(o.topology) > MaxCpus
     \/ o.topology # NONE /\ o.vcpu # NONE /\ Product(o.topology) # o.vcpu
     \/ Arm /\ (o.cpuMode = "host-model" \/ o.firmware = "bios")
  THEN {}
  ELSE {[o EXCEPT !.cpuMode = IF @ = NONE /\ Arm THEN "host-passthrough" ELSE @,
                  !.firmware = IF @ = NONE /\ Arm THEN "uefi" ELSE @]}

(* buildVmCreateArgs: --vcpus is the number asked for, the product of the  *)
(* topology, or two.                                                       *)
buildVmCreateArgs(o) ==
  [cpus |-> IF o.vcpu # NONE THEN o.vcpu
            ELSE IF o.topology # NONE THEN Product(o.topology) ELSE 2,
   topology |-> o.topology]

(* collectVmSummary: the machines there are, and the state of each.        *)
collectVmSummary == [d \in {e \in Domains : domain[e] # NONE} |-> State(d)]

DiskOf(r) == IF req[r].body.existing THEN OldDisk ELSE NewDisk(req[r].d)

(* The assumption on existing disks.                                       *)
Unused(disk) == \A d \in Domains : domain[d] # NONE => \A k \in DOMAIN domain[d].chain :
                                                        domain[d].chain[k] # disk

-----------------------------------------------------------------------------
(* The request.                                                            *)

(* buildVmProposal: the summary of the host is awaited.                    *)
buildVmProposal(r, action, d, body) ==
  /\ req[r].pc = "idle"
  /\ (action = "create") = (d \notin DOMAIN collectVmSummary) /\ (action = "create") = (body # NONE)
  /\ action = "create" =>
       /\ validateCreateOptions(body) # {}
       /\ body.existing => Unused(OldDisk) /\ \A q \in Reqs : req[q].body = NONE
  /\ req' = [req EXCEPT ![r] = [Idle EXCEPT !.pc = "record", !.action = action, !.d = d,
                 !.body = IF action = "create"
                          THEN CHOOSE o \in validateCreateOptions(body) : TRUE ELSE NONE]]
  /\ UNCHANGED <<domain, disks, ops, jobs, auth, trouble>>


(* getProposedVmOperationForTarget and createVmOperationRecord, in one go. *)
createVmOperationRecord(r) ==
  /\ req[r].pc = "record"
  /\ IF \E q \in Reqs : ops[q] = "proposed" /\ req[q].d = req[r].d
     THEN req' = [req EXCEPT ![r] = Idle] /\ UNCHANGED <<ops, jobs>>
     ELSE /\ ops' = [ops EXCEPT ![r] = "proposed"] /\ jobs' = [jobs EXCEPT ![r] = "running"]
          /\ Goto(r, "ready")
  /\ UNCHANGED <<domain, disks, auth, trouble>>

Done(r, status) ==
  /\ ops' = [ops EXCEPT ![r] = status]
  /\ jobs' = [jobs EXCEPT ![r] = IF status = "applied" THEN "completed" ELSE "failed"]
  /\ req' = [req EXCEPT ![r] = Idle]
Applied(r) == Done(r, "applied")
Failed(r) == Done(r, "failed")

(* prepareVmExecution and the head of applyVmOperation: all but console    *)
(* and delete need a host that is ready.                                   *)
Prepare(r) ==
  /\ req[r].pc = "ready"
  /\ \/ /\ Goto(r, IF req[r].action \in DOMAIN Commands THEN "state" ELSE req[r].action)
        /\ UNCHANGED <<ops, jobs, trouble>>
     \/ req[r].action \notin {"console", "delete"} /\ Trouble /\ Failed(r)
  /\ UNCHANGED <<domain, disks, auth>>

Set(d, state) == domain' = [domain EXCEPT ![d].state = state]

(* What virsh can do to a machine in its present state.                    *)
Possible(d, action) ==
  CASE action = "start" -> State(d) = "shutoff"
    [] action \in {"shutdown", "pause", "restart"} -> State(d) = "running"
    [] action = "resume" -> State(d) = "paused"
    [] OTHER -> State(d) \in {"running", "paused"}

(* A virsh command: refused, done, or done and reported as failed.         *)
virsh(r, action, state, next) ==
  LET d == req[r].d
  IN  \/ ~Possible(d, action) /\ Goto(r, "recheck") /\ UNCHANGED <<domain, trouble>>
      \/ Possible(d, action) /\ Set(d, state) /\ Goto(r, next) /\ UNCHANGED trouble
      \/ Possible(d, action) /\ Set(d, state) /\ Goto(r, "recheck") /\ Trouble

(* runVirshTransition: nothing is done when the state is reached already,  *)
(* and an error does not matter when it is reached afterwards.             *)
ReadState(r) ==
  /\ req[r].pc = "state"
  /\ IF State(req[r].d) = Commands[req[r].action] THEN Applied(r)
     ELSE Goto(r, "command") /\ UNCHANGED <<ops, jobs>>
  /\ UNCHANGED <<domain, disks, auth, trouble>>

Command(r) ==
  /\ req[r].pc = "command"
  /\ virsh(r, req[r].action, Commands[req[r].action], "applied")
  /\ UNCHANGED <<disks, ops, jobs, auth>>

Recheck(r) ==
  /\ req[r].pc = "recheck"
  /\ CASE req[r].action \in DOMAIN Commands /\ State(req[r].d) = Commands[req[r].action] ->
            Applied(r)
       [] req[r].action = "reset" /\ State(req[r].d) = "shutoff" ->
            Goto(r, "restarts") /\ UNCHANGED <<ops, jobs>>
       [] OTHER -> Failed(r)
  /\ UNCHANGED <<domain, disks, auth, trouble>>

Restart(r) ==
  /\ req[r].pc = "restart"
  /\ IF Possible(req[r].d, "restart") THEN Applied(r) ELSE Failed(r)
  /\ UNCHANGED <<domain, disks, auth, trouble>>

(* reset: destroy, unless it is off ...                                    *)
ResetDestroys(r) ==
  /\ req[r].pc = "reset"
  /\ IF State(req[r].d) = "shutoff" THEN Goto(r, "restarts") /\ UNCHANGED <<domain, trouble>>
     ELSE virsh(r, "stop", "shutoff", "restarts")
  /\ UNCHANGED <<disks, ops, jobs, auth>>

(* ... then start, unless it runs.                                         *)
ResetStarts(r) ==
  /\ req[r].pc = "restarts"
  /\ CASE State(req[r].d) = "running" -> Applied(r) /\ UNCHANGED domain
       [] State(req[r].d) = "shutoff" -> Applied(r) /\ Set(req[r].d, "running")
       [] OTHER -> Failed(r) /\ UNCHANGED domain
  /\ UNCHANGED <<disks, auth, trouble>>

(* The end of applyVmOperation.                                            *)
Finish(r) ==
  /\ req[r].pc = "applied" /\ Applied(r)
  /\ UNCHANGED <<domain, disks, auth, trouble>>

(* snapshot-create-as --disk-only: the machine goes on with an overlay.    *)
Snapshot(r) ==
  LET d == req[r].d
      overlay == <<d, Len(domain[d].chain)>>
  IN  /\ req[r].pc = "snapshot"
      /\ IF State(d) # NONE /\ Len(domain[d].chain) <= MaxSnapshots
         THEN /\ domain' = [domain EXCEPT ![d].chain = <<overlay>> \o @]
              /\ disks' = disks \cup {overlay} /\ Applied(r)
         ELSE Failed(r) /\ UNCHANGED <<domain, disks>>
      /\ UNCHANGED <<auth, trouble>>

(* Mutant: the disks that snapshots made are overlooked.                   *)
chain_base_only(d) == {Last(domain[d].chain)}

(* collectDomainDiskChain: every disk and what it is backed by.            *)
collectDomainDiskChain(d) == ToSet(domain[d].chain)

(* delete: read the disks, destroy, undefine, unlink.                      *)
DeleteReads(r) ==
  /\ req[r].pc = "delete"
  /\ IF domain[req[r].d] = NONE THEN Failed(r)
     ELSE /\ req' = [req EXCEPT ![r].pc = "undefine",
                                ![r].chain = collectDomainDiskChain(req[r].d)]
          /\ UNCHANGED <<ops, jobs>>
  /\ UNCHANGED <<domain, disks, auth, trouble>>

DeleteUndefines(r) ==
  /\ req[r].pc = "undefine"
  /\ \/ domain[req[r].d] # NONE /\ domain' = [domain EXCEPT ![req[r].d] = NONE]
        /\ Goto(r, "unlink") /\ UNCHANGED <<ops, jobs, trouble>>
     \/ domain[req[r].d] = NONE /\ Failed(r) /\ UNCHANGED <<domain, trouble>>
     \/ domain[req[r].d] # NONE /\ Trouble /\ Failed(r)
        /\ domain' \in {domain, [domain EXCEPT ![req[r].d].state = "shutoff"],
                        [domain EXCEPT ![req[r].d] = NONE]}
  /\ UNCHANGED <<disks, auth>>

DeleteUnlinks(r) ==
  /\ req[r].pc = "unlink"
  /\ disks' = disks \ req[r].chain /\ Applied(r)
  /\ UNCHANGED <<domain, auth, trouble>>

(* create: a new disk must not exist, an existing one must.                *)
CreateDisk(r) ==
  /\ req[r].pc = "create"
  /\ IF (DiskOf(r) \in disks) # req[r].body.existing
     THEN Failed(r) /\ UNCHANGED disks
     ELSE disks' = disks \cup {DiskOf(r)} /\ Goto(r, "install") /\ UNCHANGED <<ops, jobs>>
  /\ UNCHANGED <<domain, auth, trouble>>

Defined(r) ==
  [domain EXCEPT ![req[r].d] =
     [state |-> "running", chain |-> <<DiskOf(r)>>] @@ buildVmCreateArgs(req[r].body)]

(* virt-install: refused when the name is taken; it may be killed before   *)
(* or after the machine is defined.                                        *)
CreateInstalls(r) ==
  /\ req[r].pc = "install"
  /\ \/ domain[req[r].d] = NONE /\ domain' = Defined(r) /\ Goto(r, "applied") /\ UNCHANGED trouble
     \/ domain[req[r].d] = NONE /\ domain' \in {domain, Defined(r)} /\ Goto(r, "rollback")
        /\ Trouble
     \/ domain[req[r].d] # NONE /\ Goto(r, "rollback") /\ UNCHANGED <<domain, trouble>>
  /\ UNCHANGED <<disks, ops, jobs, auth>>

(* Mutant: the disk is removed whether or not the machine is there.        *)
rollback_always(r) ==
  /\ req[r].pc = "rollback"
  /\ disks' = IF req[r].body.existing THEN disks ELSE disks \ {DiskOf(r)}
  /\ Failed(r)
  /\ UNCHANGED <<domain, auth, trouble>>

(* The disk this request made is removed unless the machine exists.        *)
CreateRollsBack(r) ==
  /\ req[r].pc = "rollback"
  /\ disks' = IF req[r].body.existing \/ domain[req[r].d] # NONE
              THEN disks ELSE disks \ {DiskOf(r)}
  /\ Failed(r)
  /\ UNCHANGED <<domain, auth, trouble>>

(* console: an authorization, which the WebSocket uses once, or too late.   *)
Console(r) ==
  /\ req[r].pc = "console" /\ auth' = "active" /\ Applied(r)
  /\ UNCHANGED <<domain, disks, trouble>>

consumeVmConsoleAuthorization ==
  /\ auth = "active" /\ auth' \in {"used", "expired"}
  /\ UNCHANGED <<domain, disks, ops, jobs, req, trouble>>

-----------------------------------------------------------------------------
(* The API stops: what its handlers were about to do is forgotten, their   *)
(* operations stay proposed.                                               *)
ApiRestarts ==
  /\ Trouble /\ \E r \in Reqs : req[r].pc # "idle"
  /\ req' = [r \in Reqs |-> [req[r] EXCEPT !.pc = IF ops[r] = "proposed" THEN "gone" ELSE "idle"]]
  /\ UNCHANGED <<domain, disks, ops, jobs, auth>>

(* A guest, or somebody at the host, starts or stops a machine.            *)
OthersAct ==
  /\ Trouble /\ \E d \in Domains : /\ domain[d] # NONE
                                   /\ \E s \in {"running", "shutoff"} : State(d) # s /\ Set(d, s)
  /\ UNCHANGED <<disks, ops, jobs, req, auth>>

Next ==
  \/ ApiRestarts \/ OthersAct \/ consumeVmConsoleAuthorization
  \/ \E r \in Reqs :
       \/ \E action \in Actions, d \in Domains, body \in Bodies \cup {NONE} :
            buildVmProposal(r, action, d, body)
       \/ createVmOperationRecord(r) \/ Prepare(r) \/ ReadState(r) \/ Command(r) \/ Recheck(r)
       \/ Restart(r) \/ ResetDestroys(r) \/ ResetStarts(r) \/ Finish(r) \/ Snapshot(r)
       \/ DeleteReads(r) \/ DeleteUndefines(r) \/ DeleteUnlinks(r)
       \/ CreateDisk(r) \/ CreateInstalls(r) \/ CreateRollsBack(r)
       \/ Console(r)

Spec == Init /\ [][Next]_vars

-----------------------------------------------------------------------------
TypeOK ==
  /\ ops \in [Reqs -> {NONE, "proposed", "applied", "failed"}]
  /\ jobs \in [Reqs -> {"none", "running", "completed", "failed"}]
  /\ auth \in {"none", "active", "used", "expired"}
  /\ trouble \in 0 .. MaxTrouble

(* A machine that libvirt knows has every disk of its chain, whatever      *)
(* operations were under way on it: neither the rollback of a create nor a *)
(* delete takes a disk from a machine that stays.                          *)
MachinesKeepDisks == \A d \in Domains : domain[d] # NONE => ToSet(domain[d].chain) \subseteq disks

(* A machine has as many CPUs as its topology has places for.              *)
CpusFillTopology ==
  \A d \in Domains : domain[d] # NONE /\ domain[d].topology # NONE =>
    domain[d].cpus = Product(domain[d].topology) /\ domain[d].cpus <= MaxCpus

(* A disk that a snapshot made belongs to a machine, to an operation that  *)
(* has not ended, or to one that was cut off: deleting a machine leaves    *)
(* nothing of its chain behind.                                            *)
NoOverlayIsForgotten ==
  \A disk \in disks \ {OldDisk} :
    disk[2] > 0 /\ trouble = 0 =>
      \/ \E d \in Domains : domain[d] # NONE /\ disk \in ToSet(domain[d].chain)
      \/ \E r \in Reqs : req[r].pc # "idle" /\ req[r].d = disk[1]
=============================================================================
