----------------------------- MODULE MCServices -----------------------------
(*****************************************************************************)
(* The search index, containers and virtual machines for TLC.  They share no *)
(* state, so a behaviour is about one of them: `part' says which, and the    *)
(* others stay as they began.                                                *)
(*****************************************************************************)
EXTENDS Integers, Sequences, FiniteSets, TLC

CONSTANTS q1, q2, OldDisk, NONE

(* Requests are interchangeable.                                              *)
Alike == Permutations({q1, q2})

(* "d" holds "a"; "b" and the ignored "g" are at the top.                     *)
IndexScope ==
  [p \in {".", "d", "a", "b", "g"} |->
     CASE p = "." -> {"a", "b", "g"} [] p = "d" -> {"a"} [] OTHER -> {p}]

(* A volume, a network, and containers that pull an image always, only when   *)
(* it is missing, or never, and that need the network or the volume.          *)
NewContainer(policy, start, volume, network) ==
  [kind |-> "container", name |-> "c", image |-> "i", policy |-> policy, start |-> start,
   volume |-> volume, network |-> network]

DockerRequests ==
  {[kind |-> "volume", name |-> "v"], [kind |-> "network", name |-> "w"],
   NewContainer("always", TRUE, NONE, "w"), NewContainer("missing", TRUE, NONE, NONE),
   NewContainer("never", FALSE, "v", NONE)}

(* The addresses of two families, of two bytes and of one; a byte has two     *)
(* bits.                                                                      *)
IpAddresses == <<{<<a, b>> : a, b \in 0 .. 3}, {<<a>> : a \in 0 .. 3}>>

(* Machines with a topology, with one that does not fit the CPUs asked for,   *)
(* with one that is too large, and on a disk that exists.                     *)
VmBody(topology, vcpu, mode, existing) ==
  [topology |-> topology, vcpu |-> vcpu, cpuMode |-> mode, firmware |-> NONE, existing |-> existing]

VmBodies ==
  {VmBody(<<1, 1, 2>>, NONE, NONE, FALSE), VmBody(<<1, 1, 2>>, 3, NONE, FALSE),
   VmBody(<<1, 2, 2>>, NONE, NONE, FALSE), VmBody(NONE, NONE, "host-model", TRUE)}

VARIABLE part     \* the component this behaviour is about

VARIABLES
  i_disk, i_stamp, i_mounted, i_rows, i_legacy, i_content, i_queue, i_due,
  i_requested, i_channel, i_pending, i_work, i_run, i_reported, i_missed,
  i_changes, i_trouble

VARIABLES
  a_apps, a_dirs, a_containers, a_job, a_proposals, a_ran, a_up, a_mounted,
  a_revisions, a_asked, a_trouble

VARIABLES
  r_containers, r_volumes, r_networks, r_images, r_cred, r_creates,
  r_removing, r_approved, r_trouble

VARIABLES
  s_configs

VARIABLES
  v_domain, v_disks, v_ops, v_jobs, v_req, v_auth, v_trouble

Idx == INSTANCE Indexer WITH
  disk <- i_disk, stamp <- i_stamp, mounted <- i_mounted, rows <- i_rows,
  legacy <- i_legacy, content <- i_content, queue <- i_queue, due <- i_due,
  requested <- i_requested, channel <- i_channel, pending <- i_pending,
  work <- i_work, run <- i_run, reported <- i_reported, missed <- i_missed,
  changes <- i_changes, trouble <- i_trouble, Files <- {"a", "b", "g"},
  Dirs <- {".", "d"}, Scope <- IndexScope, RootFiles <- {"b"},
  Ignored <- {"g"}, Workers <- {"daemon"}, ScanConcurrency <- 2,
  Retries <- 1, MaxChanges <- 1, MaxTrouble <- 1

App == INSTANCE ComposeApps WITH
  apps <- a_apps, dirs <- a_dirs, containers <- a_containers, job <- a_job,
  proposals <- a_proposals, ran <- a_ran, up <- a_up, mounted <- a_mounted,
  revisions <- a_revisions, asked <- a_asked, trouble <- a_trouble,
  Keys <- {"k"}, Services <- {"s", "t"},
  Definitions <- {{"bind"}, {"local_files"}}, MaxRevisions <- 3,
  MaxProposals <- 2, MaxTrouble <- 1

Docker == INSTANCE DockerResources WITH
  containers <- r_containers, volumes <- r_volumes, networks <- r_networks,
  images <- r_images, cred <- r_cred, creates <- r_creates,
  removing <- r_removing, approved <- r_approved, trouble <- r_trouble,
  configs <- s_configs, Ops <- {q1, q2}, Images <- {"i"}, Private <- {"i"},
  Requests <- DockerRequests, MaxTrouble <- 1, ByteBits <- 2,
  Length <- <<2, 1>>, Addresses <- IpAddresses, MaxConfigs <- 2

Vm == INSTANCE VirtualMachines WITH
  domain <- v_domain, disks <- v_disks, ops <- v_ops, jobs <- v_jobs,
  req <- v_req, auth <- v_auth, trouble <- v_trouble, Reqs <- {q1, q2},
  Domains <- {"a"}, Bodies <- VmBodies, Arm <- FALSE, MaxCpus <- 3,
  MaxSnapshots <- 1, MaxTrouble <- 1

indexVars ==
  <<i_disk, i_stamp, i_mounted, i_rows, i_legacy, i_content, i_queue, i_due,
    i_requested, i_channel, i_pending, i_work, i_run, i_reported, i_missed,
    i_changes, i_trouble>>

appsVars ==
  <<a_apps, a_dirs, a_containers, a_job, a_proposals, a_ran, a_up, a_mounted,
    a_revisions, a_asked, a_trouble>>

resourcesVars ==
  <<r_containers, r_volumes, r_networks, r_images, r_cred, r_creates,
    r_removing, r_approved, r_trouble>>

subnetsVars ==
  <<s_configs>>

machinesVars ==
  <<v_domain, v_disks, v_ops, v_jobs, v_req, v_auth, v_trouble>>

mcVars ==
  <<part, indexVars, appsVars, resourcesVars, subnetsVars, machinesVars>>

MCInit ==
  /\ part \in {"index", "apps", "resources", "subnets", "machines"}
  /\ Idx!Init
  /\ part # "index" => i_legacy = {}
  /\ App!Init
  /\ Docker!ResourceInit
  /\ Docker!IpamInit
  /\ Vm!Init

OnlyIdx ==
  /\ part = "index"
  /\ UNCHANGED <<part, appsVars, resourcesVars, subnetsVars, machinesVars>>

OnlyApp ==
  /\ part = "apps"
  /\ UNCHANGED <<part, indexVars, resourcesVars, subnetsVars, machinesVars>>

OnlyResource ==
  /\ part = "resources"
  /\ UNCHANGED <<part, indexVars, appsVars, subnetsVars, machinesVars>>

OnlySubnet ==
  /\ part = "subnets"
  /\ UNCHANGED <<part, indexVars, appsVars, resourcesVars, machinesVars>>

OnlyVm ==
  /\ part = "machines"
  /\ UNCHANGED <<part, indexVars, appsVars, resourcesVars, subnetsVars>>

MCNext ==
  \/ OnlyIdx /\ Idx!Next
  \/ OnlyApp /\ App!Next
  \/ OnlyResource /\ Docker!ResourceNext
  \/ OnlySubnet /\ Docker!IpamNext
  \/ OnlyVm /\ Vm!Next

MCSpec == MCInit /\ [][MCNext]_mcVars

-----------------------------------------------------------------------------


\* See DockerResources: an operation acts on the object the user approved, not on
\* another one that has its name by then.
ActsOnWhatWasApproved == Docker!ActsOnWhatWasApproved

=============================================================================
