-------------------------- MODULE DockerResources --------------------------
(***************************************************************************)
(* Docker resources made from the web, and the addresses of its networks.  *)
(***************************************************************************)
EXTENDS Naturals, Sequences, FiniteSets, SequencesExt

-----------------------------------------------------------------------------
(***************************************************************************)
(* Creating Docker resources from the Web (routes/docker.ts with            *)
(* docker-create.ts and docker-client.ts): a request is checked against a   *)
(* summary of the engine, recorded as a running job with a proposed          *)
(* operation, carried out by calls to the engine, and its outcome recorded.  *)
(* Several requests, image removal, credential changes and approved container *)
(* actions interleave at every call to the engine, and a call may time out    *)
(* although the engine carries it out.                                       *)
(***************************************************************************)
CONSTANTS Ops,        \* create requests, each with its operation record
          Images,     \* image references
          Private,    \* those that need a credential
          Requests,   \* what a request may ask for
          MaxTrouble, \* bound: faults
          NONE

VARIABLES containers, \* the engine's containers, by name
          volumes,    \* the engine's volumes: name -> operation label
          networks,   \* the engine's networks: name -> operation label
          images,     \* images the engine holds
          cred,       \* a registry credential is stored
          creates,    \* the create requests
          removing,   \* images/remove requests past the check of containers
          approved,   \* approved start, stop, restart and remove operations
          trouble     \* faults so far

engine == <<containers, volumes, networks, images>>
resourceVars == <<containers, volumes, networks, images, cred, creates, removing, approved, trouble>>

ContainerNames == {r.name : r \in {q \in Requests : q.kind = "container"}}
VolumeNames == {r.name : r \in {q \in Requests : q.kind = "volume"}}
NetworkNames == {r.name : r \in {q \in Requests : q.kind = "network"}}

Unused == [pc |-> "none", req |-> NONE, seen |-> NONE, operation |-> NONE, job |-> NONE,
           made |-> FALSE, started |-> FALSE]

ResourceInit ==
    /\ containers = [n \in ContainerNames |-> NONE]
    /\ volumes = [n \in VolumeNames |-> NONE]
    /\ networks = [n \in NetworkNames |-> NONE]
    /\ images = {}
    /\ cred = FALSE
    /\ creates = [o \in Ops |-> Unused]
    /\ removing = {}
    /\ approved = {}
    /\ trouble = 0

Fault == trouble < MaxTrouble /\ trouble' = trouble + 1

Present(f) == {n \in DOMAIN f : f[n] # NONE}

-----------------------------------------------------------------------------
\* The summary a request is validated against is taken once, when it arrives.
collectDockerSummary(o, r) ==
    /\ creates[o].pc = "none"
    /\ creates' = [creates EXCEPT ![o].pc = "prepare", ![o].req = r,
                     ![o].seen = [containers |-> Present(containers),
                                  volumes |-> Present(volumes),
                                  networks |-> Present(networks)]]
    /\ UNCHANGED <<engine, cred, removing, approved, trouble>>

\* A named volume must exist; bind and tmpfs mounts name none.
containerMounts(r, seen) == r.volume # NONE => r.volume \in seen.volumes

containerNetwork(r, seen) == r.network # NONE => r.network \in seen.networks

prepareContainer(r, seen) ==
    r.name \notin seen.containers /\ containerMounts(r, seen) /\ containerNetwork(r, seen)

prepareVolume(r, seen) == r.name \notin seen.volumes

\* Its address configuration: module DockerIpam.
prepareNetwork(r, seen) == r.name \notin seen.networks

\* A valid request becomes a running job with a proposed operation.
prepareDockerCreate(o) ==
    /\ creates[o].pc = "prepare"
    /\ LET r == creates[o].req
           seen == creates[o].seen
           ok == CASE r.kind = "container" -> prepareContainer(r, seen)
                   [] r.kind = "volume" -> prepareVolume(r, seen)
                   [] r.kind = "network" -> prepareNetwork(r, seen)
       IN creates' = [creates EXCEPT ![o] =
                        IF ok THEN [@ EXCEPT !.seen = NONE, !.operation = "proposed", !.job = "running",
                                             !.pc = IF r.kind = "container" THEN "image" ELSE "create"]
                        ELSE [Unused EXCEPT !.pc = "answered"]]
    /\ UNCHANGED <<engine, cred, removing, approved, trouble>>

-----------------------------------------------------------------------------
(* The outcome is recorded in the turn of the event loop in which the last  *)
(* call returns, or not at all when the database refuses it.                *)

Outcome(c, op, job) == [c EXCEPT !.pc = "answered", !.operation = op, !.job = job]

Failed(o) == creates' = [creates EXCEPT ![o] = Outcome(@, "failed", "failed")]

partial_is_applied(c) == Outcome(c, "applied", "completed")

\* A container that was created but not started is a failure with partialSuccess.
PartialSuccess(c) == Outcome(c, "failed", "failed")

Finished(o, c) ==
    \/ creates' = [creates EXCEPT ![o] = c] /\ UNCHANGED trouble
    \/ /\ Fault
       /\ creates' = [creates EXCEPT ![o] = [c EXCEPT !.operation = "proposed", !.job = "running"]]

\* policy always pulls; missing pulls what is absent; never refuses what is absent.
imageExists(o) ==
    /\ creates[o].pc = "image"
    /\ LET r == creates[o].req IN
       CASE r.policy = "always" \/ (r.policy = "missing" /\ r.image \notin images) ->
              creates' = [creates EXCEPT ![o].pc = "pull"]
         [] r.policy = "never" /\ r.image \notin images -> Failed(o)
         [] OTHER -> creates' = [creates EXCEPT ![o].pc = "create"]
    /\ UNCHANGED <<engine, cred, removing, approved, trouble>>

\* The credential is read when the pull begins; an error in the progress stream
\* or a timeout fails it, and the engine may hold the image all the same.
requestNdjson(image) == image \in Private => cred

pullImage(o) ==
    /\ creates[o].pc = "pull"
    /\ LET i == creates[o].req.image IN
       \/ /\ requestNdjson(i) /\ images' = images \cup {i}
          /\ creates' = [creates EXCEPT ![o].pc = "create"]
          /\ UNCHANGED trouble
       \/ /\ ~requestNdjson(i) /\ Failed(o) /\ UNCHANGED <<images, trouble>>
       \/ /\ Fault /\ images' \in {images, images \cup {i}} /\ Failed(o)
    /\ UNCHANGED <<containers, volumes, networks, cred, removing, approved>>

\* The engine refuses a container whose name is taken, or that needs an image, a
\* volume or a network it no longer has.
EngineAccepts(r) ==
    /\ containers[r.name] = NONE /\ r.image \in images
    /\ r.volume # NONE => volumes[r.volume] # NONE
    /\ r.network # NONE => networks[r.network] # NONE

createContainer(o) ==
    LET r == creates[o].req
        new == [containers EXCEPT ![r.name] = [op |-> o, image |-> r.image, running |-> FALSE]]
        c == [creates[o] EXCEPT !.made = TRUE]
    IN /\ creates[o].pc = "create" /\ r.kind = "container"
       /\ \/ /\ EngineAccepts(r) /\ containers' = new
             /\ IF r.start THEN creates' = [creates EXCEPT ![o] = [c EXCEPT !.pc = "start"]]
                                /\ UNCHANGED trouble
                           ELSE Finished(o, Outcome(c, "applied", "completed"))
          \/ /\ ~EngineAccepts(r) /\ Failed(o) /\ UNCHANGED <<containers, trouble>>
          \/ /\ EngineAccepts(r) /\ Fault /\ Failed(o) /\ containers' = new
       /\ UNCHANGED <<volumes, networks, images, cred, removing, approved>>

startContainer(o) ==
    LET n == creates[o].req.name
        there == containers[n] # NONE /\ containers[n].op = o
    IN /\ creates[o].pc = "start"
       /\ \/ /\ there
             /\ containers' = [containers EXCEPT ![n].running = TRUE]
             /\ Finished(o, Outcome([creates[o] EXCEPT !.started = TRUE], "applied", "completed"))
          \/ /\ ~there
             /\ Finished(o, PartialSuccess(creates[o])) /\ UNCHANGED containers
          \/ /\ there /\ Fault
             /\ containers' \in {containers, [containers EXCEPT ![n].running = TRUE]}
             /\ creates' = [creates EXCEPT ![o] = PartialSuccess(@)]
       /\ UNCHANGED <<volumes, networks, images, cred, removing, approved>>

\* The engine returns a volume that exists already.
createVolume(o) ==
    LET n == creates[o].req.name
        c == [creates[o] EXCEPT !.made = (volumes[n] = NONE)]
    IN /\ creates[o].pc = "create" /\ creates[o].req.kind = "volume"
       /\ volumes' = [volumes EXCEPT ![n] = IF @ = NONE THEN o ELSE @]
       /\ (Finished(o, Outcome(c, "applied", "completed")) \/ (Fault /\ Failed(o)))
       /\ UNCHANGED <<containers, networks, images, cred, removing, approved>>

createNetwork(o) ==
    LET n == creates[o].req.name
        c == [creates[o] EXCEPT !.made = TRUE]
    IN /\ creates[o].pc = "create" /\ creates[o].req.kind = "network"
       /\ \/ /\ networks[n] # NONE /\ Failed(o) /\ UNCHANGED <<networks, trouble>>
          \/ /\ networks[n] = NONE /\ networks' = [networks EXCEPT ![n] = o]
             /\ (Finished(o, Outcome(c, "applied", "completed")) \/ (Fault /\ Failed(o)))
       /\ UNCHANGED <<containers, volumes, images, cred, removing, approved>>

-----------------------------------------------------------------------------
(* Images: pulled by hand, and removed when no container uses them.         *)

pullRoute(i) ==
    /\ requestNdjson(i) /\ i \notin images
    /\ images' = images \cup {i}
    /\ UNCHANGED <<containers, volumes, networks, cred, creates, removing, approved, trouble>>

Uses(i) == {n \in DOMAIN containers : containers[n] # NONE /\ containers[n].image = i}

\* The check of removeImage, then its DELETE without force, which the engine
\* refuses when a container has come to use the image.
removeImage(i) ==
    /\ \/ /\ i \in images /\ i \notin removing /\ Uses(i) = {}
          /\ removing' = removing \cup {i}
          /\ UNCHANGED images
       \/ /\ i \in removing
          /\ removing' = removing \ {i}
          /\ images' = IF Uses(i) = {} THEN images \ {i} ELSE images
    /\ UNCHANGED <<containers, volumes, networks, cred, creates, approved, trouble>>

\* An empty password in an update keeps the stored one.
createDockerRegistryCredential ==
    /\ ~cred /\ cred' = TRUE
    /\ UNCHANGED <<engine, creates, removing, approved, trouble>>

deleteDockerRegistryCredential ==
    /\ cred /\ cred' = FALSE
    /\ UNCHANGED <<engine, creates, removing, approved, trouble>>

-----------------------------------------------------------------------------
(* Approved actions name a container by its id, here the operation that     *)
(* created it.                                                              *)

buildDockerProposal(n, a) ==
    /\ containers[n] # NONE
    /\ approved' = approved \cup {[id |-> containers[n].op, name |-> n, action |-> a]}
    /\ approved' # approved
    /\ UNCHANGED <<engine, cred, creates, removing, trouble>>

apply_by_name(p) ==
    /\ p \in approved
    /\ approved' = approved \ {p}
    /\ containers' =
         IF containers[p.name] = NONE THEN containers
         ELSE CASE p.action \in {"start", "restart"} -> [containers EXCEPT ![p.name].running = TRUE]
                [] p.action = "stop" -> [containers EXCEPT ![p.name].running = FALSE]
                [] p.action = "remove" -> [containers EXCEPT ![p.name] = NONE]
    /\ UNCHANGED <<volumes, networks, images, cred, creates, removing, trouble>>

\* Removal is without force: the engine refuses it while the container runs.
applyDockerOperation(p) ==
    /\ p \in approved
    /\ approved' = approved \ {p}
    /\ containers' =
         IF containers[p.name] # NONE => containers[p.name].op # p.id
         THEN containers
         ELSE CASE p.action \in {"start", "restart"} -> [containers EXCEPT ![p.name].running = TRUE]
                [] p.action = "stop" -> [containers EXCEPT ![p.name].running = FALSE]
                [] p.action = "remove" /\ ~containers[p.name].running ->
                     [containers EXCEPT ![p.name] = NONE]
                [] OTHER -> containers
    /\ UNCHANGED <<volumes, networks, images, cred, creates, removing, trouble>>

\* The API stops: the requests it was serving are gone, their rows stay.
Crash ==
    /\ Fault
    /\ \E o \in Ops : creates[o].pc \notin {"none", "answered"}
    /\ creates' = [o \in Ops |-> IF creates[o].pc \in {"none", "answered"} THEN creates[o]
                                 ELSE IF creates[o].pc = "prepare" THEN [Unused EXCEPT !.pc = "answered"]
                                 ELSE [creates[o] EXCEPT !.pc = "answered"]]
    /\ removing' = {}
    /\ UNCHANGED <<engine, cred, approved>>

ResourceNext ==
    \/ \E o \in Ops :
         \/ \E r \in Requests : collectDockerSummary(o, r)
         \/ prepareDockerCreate(o) \/ imageExists(o) \/ pullImage(o)
         \/ createContainer(o) \/ startContainer(o) \/ createVolume(o) \/ createNetwork(o)
    \/ \E i \in Images : pullRoute(i) \/ removeImage(i)
    \/ createDockerRegistryCredential \/ deleteDockerRegistryCredential
    \/ \E n \in ContainerNames, a \in {"start", "stop", "restart", "remove"} :
         buildDockerProposal(n, a)
    \/ \E p \in approved : applyDockerOperation(p)
    \/ Crash

ResourceSpec == ResourceInit /\ [][ResourceNext]_resourceVars

-----------------------------------------------------------------------------
\* An operation recorded as applied is true, and so is the job that ended with
\* it: the container or network was created for this operation, and was started
\* when the request asked for that (executeDockerCreate, the /proposals handler).
AppliedIsTrue ==
    \A o \in Ops :
      /\ (creates[o].operation = "applied") = (creates[o].job = "completed")
      /\ (creates[o].operation = "applied" /\ creates[o].req.kind # "volume") =>
           creates[o].made
      /\ (creates[o].operation = "applied" /\ creates[o].req.kind = "container") =>
           creates[o].started = creates[o].req.start

\* An approved container action changes the container it was approved for and no
\* other, although another may carry its name by then (applyDockerOperation goes
\* by container id).
ActsOnWhatWasApproved ==
    [][\A p \in approved \ approved' :
         \A n \in DOMAIN containers :
           containers[n] # containers'[n] => containers[n].op = p.id]_resourceVars

-----------------------------------------------------------------------------
(***************************************************************************)
(* The address configuration of a new Docker network (ipamConfigs in         *)
(* docker-create.ts): configurations are accepted one after another, by       *)
(* comparing prefixes byte by byte and by a mask.  The reference is the set   *)
(* of addresses a CIDR stands for.                                           *)
(***************************************************************************)
CONSTANTS
  ByteBits,     \* bits of a byte (8)
  Length,       \* bytes of an address, by family
  Addresses,    \* addresses a request may name, by family
  MaxConfigs    \* bound: configurations of one request

VARIABLE configs  \* the configurations accepted so far

ipamVars == <<configs>>

Families == DOMAIN Length

Cidrs(fam) == [family : {fam}, prefix : 0 .. ByteBits * Length[fam], bytes : Addresses[fam]]

-----------------------------------------------------------------------------
\* The upper n bits of a byte, in place: (0xff << (8 - n)) & 0xff as a mask.
Masked(byte, n) == byte - (byte % (2 ^ (ByteBits - n)))


cidrContains(cidr, address) ==
    LET whole == cidr.prefix \div ByteBits
        rest == cidr.prefix % ByteBits
    IN /\ Len(cidr.bytes) = Len(address)
       /\ \A i \in 1 .. whole : cidr.bytes[i] = address[i]
       /\ rest # 0 => Masked(cidr.bytes[whole + 1], rest) = Masked(address[whole + 1], rest)

overlaps_one_way(left, right) ==
    left.family = right.family /\ cidrContains(left, right.bytes)

cidrOverlaps(left, right) ==
    /\ left.family = right.family
    /\ cidrContains(left, right.bytes) \/ cidrContains(right, left.bytes)

\* One configuration, given those accepted before it.
Accepts(before, c) ==
    LET subnets == {before[i].subnet : i \in 1 .. Len(before)}
        ranges == {before[i].range : i \in 1 .. Len(before)} \ {NONE}
    IN /\ \A s \in subnets : ~cidrOverlaps(s, c.subnet)
       /\ c.range # NONE =>
            /\ c.range.family = c.subnet.family
            /\ c.range.prefix >= c.subnet.prefix
            /\ cidrContains(c.subnet, c.range.bytes)
            /\ \A r \in ranges : ~cidrOverlaps(r, c.range)
       /\ c.gateway # NONE => cidrContains(c.subnet, c.gateway)

IpamInit == configs = <<>>

\* Inputs: a range or a gateway is tried in a request of one configuration.
Plain(c) == c.range = NONE /\ c.gateway = NONE
Inputs(fam) ==
    {[subnet |-> s, range |-> NONE, gateway |-> NONE] : s \in Cidrs(fam)} \cup
    IF configs # <<>> THEN {}
    ELSE {[subnet |-> s, range |-> r, gateway |-> NONE] : s, r \in Cidrs(fam)} \cup
         {[subnet |-> s, range |-> NONE, gateway |-> g] : s \in Cidrs(fam), g \in Addresses[fam]}

\* A configuration that is not accepted refuses the request.
ipamConfigs ==
    /\ Len(configs) < MaxConfigs
    /\ \A i \in 1 .. Len(configs) : Plain(configs[i])
    /\ \E fam \in Families : \E c \in Inputs(fam) :
         Accepts(configs, c) /\ configs' = Append(configs, c)

IpamNext == ipamConfigs

IpamSpec == IpamInit /\ [][IpamNext]_ipamVars

-----------------------------------------------------------------------------
NumberOf(bytes) == FoldLeft(LAMBDA high, byte : high * 2 ^ ByteBits + byte, 0, bytes)

\* The addresses of a CIDR: those in the block of 2^(bits - prefix) it lies in.
Block(cidr) ==
    LET size == 2 ^ (ByteBits * Length[cidr.family] - cidr.prefix)
    IN {a \in Addresses[cidr.family] : NumberOf(a) \div size = NumberOf(cidr.bytes) \div size}

\* What is accepted is sound: no address lies in two subnets of a network, and a
\* subnet holds its range and its gateway (ipamConfigs, cidrOverlaps,
\* cidrContains), whatever the prefixes and wherever they cut a byte.
SubnetsAreDisjoint ==
    \A i \in 1 .. Len(configs) :
      LET c == configs[i] IN
      /\ c.range # NONE => Block(c.range) \subseteq Block(c.subnet)
      /\ c.gateway # NONE => c.gateway \in Block(c.subnet)
      /\ \A j \in 1 .. i - 1 :
           configs[j].subnet.family = c.subnet.family =>
             Block(c.subnet) \cap Block(configs[j].subnet) = {}
=============================================================================
