---------------------------- MODULE NetworkPanel ----------------------------
(***************************************************************************)
(* The network panel of the web application: the status it shows and the   *)
(* forms it sends.                                                         *)
(***************************************************************************)
EXTENDS Integers, Sequences, FiniteSets

-----------------------------------------------------------------------------
(***************************************************************************)
(* What the network panel of the web application shows: the API puts a     *)
(* status together from several reads of hostd, of the kernel and of       *)
(* NetworkManager (network-manager.ts, ethernet-manager.ts), samples it    *)
(* every second for an event stream that writes only what changed          *)
(* (routes/system.ts) and answers it to GET /api/system/network            *)
(* (system-management.ts); the panel (SystemManagementPanel,               *)
(* SystemWifiManagement, SystemEthernetManagement) takes the status from   *)
(* the stream, from its own GETs and after each change it asks for.        *)
(*                                                                         *)
(* Wi-Fi and Ethernet have a stream each, with the same code: `feed` is    *)
(* the one a behaviour follows.  One wireless device; the Ethernet status  *)
(* is one number hostd answers with.                                       *)
(***************************************************************************)
CONSTANTS
  Profile,    \* the managed client profile
  Hotspot,    \* the managed hotspot profile
  MaxChanges, \* bound on changes of the network, asked for in the panel or not
  MaxTrouble, \* bound on lost connections of the browser
  Unread,     \* a value not read yet
  NONE

VARIABLES
  feed,    \* "wifi" or "ethernet"
  nm,      \* NetworkManager: running, radio, active profile, default route on the device
  hostd,   \* hostd: up, the profiles of its keyfiles, its Ethernet state
  reader,  \* the statuses being put together
  stream,  \* the event stream: open, the last signature, what is on the wire
  told,    \* the last status an event brought
  reply,   \* the answer to the panel's GET on its way, or NONE
  panel,   \* the status the panel shows, or NONE
  request, \* the change the panel asked for, or NONE
  changes, trouble

panelVars == <<feed, nm, hostd, reader, stream, told, reply, panel, request, changes, trouble>>

\* A sample of the stream, a GET, and the status a connect is checked with.
Readers == {"sample", "get", "check"}

Nothing == [inspection |-> Unread, path |-> Unread, radio |-> Unread]

-----------------------------------------------------------------------------
(* A status.                                                               *)

unavailableWifiStatus ==
  [backend |-> "unknown", radioEnabled |-> NONE, hostdReady |-> FALSE, device |-> NONE, hotspots |-> {}]

collectNetworkManagerStatus(seen, active) ==
  LET profiles == IF seen.inspection = NONE THEN {} ELSE seen.inspection
  IN  [backend |-> "NetworkManager",
       radioEnabled |-> seen.radio,
       hostdReady |-> seen.inspection # NONE,
       device |-> [mode |-> IF active = Hotspot /\ Hotspot \in profiles THEN "hotspot"
                            ELSE IF active # NONE THEN "client" ELSE "idle",
                   activeConnectionId |-> active,
                   managementPath |-> seen.path],
       hotspots |-> {[profileId |-> h, active |-> active = h] : h \in profiles \cap {Hotspot}}]

unavailableEthernetStatus == [backend |-> "unknown", hostdReady |-> FALSE, devices |-> NONE]

ethernetStatus == [backend |-> "NetworkManager", hostdReady |-> TRUE, devices |-> hostd.ethernet]

\* The status of the present moment.
Truth ==
  IF feed = "ethernet"
    THEN IF hostd.up /\ nm.running THEN ethernetStatus ELSE unavailableEthernetStatus
    ELSE IF ~nm.running THEN unavailableWifiStatus
         ELSE collectNetworkManagerStatus(
                [inspection |-> IF hostd.up THEN hostd.keyfiles ELSE NONE,
                 path |-> nm.path, radio |-> nm.radio], nm.active)

\* All of a status but the time it was collected at.
wifiStatusSignature(status) == status

-----------------------------------------------------------------------------
(* Reading a status.                                                       *)

PanelInit ==
  /\ feed \in {"wifi", "ethernet"}
  /\ \E active \in {NONE, Profile} :
       nm = [running |-> TRUE, radio |-> TRUE, active |-> active, path |-> active # NONE]
  /\ hostd = [up |-> TRUE, keyfiles |-> {Profile, Hotspot}, ethernet |-> 0]
  /\ reader = [r \in Readers |-> NONE]
  /\ stream = [open |-> FALSE, last |-> NONE, wire |-> <<>>]
  /\ told = NONE /\ reply = NONE /\ panel = NONE /\ request = NONE
  /\ changes = 0 /\ trouble = 0

\* What a status is for: the sampler writes it when its signature is new, a
\* GET answers it, a connect is refused when the device carries the default
\* route and the panel did not confirm.
sample(status) ==
  /\ stream' = IF wifiStatusSignature(status) = stream.last THEN stream
               ELSE [stream EXCEPT !.last = wifiStatusSignature(status), !.wire = Append(@, status)]
  /\ UNCHANGED <<reply, request>>

collectSystemNetwork(status) == reply' = status /\ UNCHANGED <<stream, request>>

requireManagementPathConfirmation(status) ==
  /\ request' = IF status.device # NONE /\ status.device.managementPath /\ ~request.confirmed
                  THEN NONE ELSE [request EXCEPT !.stage = "hostd"]
  /\ UNCHANGED <<stream, reply>>

Done(r, status) ==
  /\ reader' = [reader EXCEPT ![r] = NONE]
  /\ CASE r = "sample" -> sample(status)
       [] r = "get" -> collectSystemNetwork(status)
       [] OTHER -> requireManagementPathConfirmation(status)

Reading(r) == reader[r] # NONE

\* Promise.all: hostd's inspection and the default routes, in either order.
inspect(r) ==
  /\ Reading(r) /\ feed = "wifi" /\ reader[r].inspection = Unread
  /\ reader' = [reader EXCEPT ![r].inspection = IF hostd.up THEN hostd.keyfiles ELSE NONE]
  /\ UNCHANGED <<stream, reply, request>>

collectDefaultRouteDevices(r) ==
  /\ Reading(r) /\ feed = "wifi" /\ reader[r].path = Unread
  /\ reader' = [reader EXCEPT ![r].path = nm.path]
  /\ UNCHANGED <<stream, reply, request>>

general(r) ==
  /\ Reading(r) /\ feed = "wifi"
  /\ reader[r].inspection # Unread /\ reader[r].path # Unread /\ reader[r].radio = Unread
  /\ IF nm.running
       THEN /\ reader' = [reader EXCEPT ![r].radio = nm.radio]
            /\ UNCHANGED <<stream, reply, request>>
       ELSE Done(r, unavailableWifiStatus)

\* nmcli device status and what is read of each device; a failure is the
\* unavailable status of the sampler's catch and of the GET's issue list.
deviceStatus(r) ==
  /\ Reading(r) /\ feed = "wifi" /\ reader[r].radio # Unread
  /\ Done(r, IF nm.running THEN collectNetworkManagerStatus(reader[r], nm.active)
             ELSE unavailableWifiStatus)

\* SystemEthernetManagerRuntime.getStatus: one request to hostd.
ethernet_status(r) ==
  /\ Reading(r) /\ feed = "ethernet"
  /\ Done(r, IF hostd.up /\ nm.running THEN ethernetStatus ELSE unavailableEthernetStatus)

Reads(r) ==
  /\ inspect(r) \/ collectDefaultRouteDevices(r) \/ general(r) \/ deviceStatus(r) \/ ethernet_status(r)
  /\ UNCHANGED <<feed, nm, hostd, told, panel, changes, trouble>>

-----------------------------------------------------------------------------
(* The stream.                                                             *)

\* The timer of the stream starts a sample unless one is running.
SampleStarts ==
  /\ stream.open /\ ~Reading("sample")
  /\ reader' = [reader EXCEPT !["sample"] = Nothing]
  /\ UNCHANGED <<feed, nm, hostd, stream, told, reply, panel, request, changes, trouble>>

opens_with_signature ==
  /\ ~stream.open
  /\ stream' = [open |-> TRUE, last |-> stream.last, wire |-> <<>>]
  /\ UNCHANGED <<feed, nm, hostd, reader, told, reply, panel, request, changes, trouble>>

\* The browser opens the stream, or opens it again after 2 s.
EventSourceOpens ==
  /\ ~stream.open
  /\ stream' = [open |-> TRUE, last |-> NONE, wire |-> <<>>]
  /\ UNCHANGED <<feed, nm, hostd, reader, told, reply, panel, request, changes, trouble>>

\* The connection is lost with what is on the wire; a sample that is running
\* finds the stream closed.
EventSourceDrops ==
  /\ stream.open /\ trouble < MaxTrouble
  /\ trouble' = trouble + 1
  /\ stream' = [stream EXCEPT !.open = FALSE, !.wire = <<>>]
  /\ reader' = [reader EXCEPT !["sample"] = NONE]
  /\ UNCHANGED <<feed, nm, hostd, told, reply, panel, request, changes>>

\* handleWifiStatus, handleEthernetStatus: a summary that is there takes the
\* status of the event.
EventArrives ==
  /\ stream.wire # <<>>
  /\ told' = Head(stream.wire)
  /\ panel' = IF panel = NONE THEN panel ELSE told'
  /\ stream' = [stream EXCEPT !.wire = Tail(@)]
  /\ UNCHANGED <<feed, nm, hostd, reader, reply, request, changes, trouble>>

-----------------------------------------------------------------------------
(* The panel.                                                              *)

\* loadSummary at the start, the Refresh button, and the GET that ends a change.
GetStarts ==
  /\ ~Reading("get") /\ reply = NONE
  /\ IF request # NONE THEN request.stage = "refresh" ELSE changes < MaxChanges \/ panel = NONE
  /\ reader' = [reader EXCEPT !["get"] = Nothing]
  /\ request' = IF request = NONE THEN NONE ELSE [request EXCEPT !.stage = "refreshing"]
  /\ UNCHANGED <<feed, nm, hostd, stream, told, reply, panel, changes, trouble>>

refreshSummary ==
  /\ reply # NONE
  /\ panel' = reply
  /\ reply' = NONE
  /\ request' = IF request # NONE /\ request.stage = "refreshing" THEN NONE ELSE request
  /\ UNCHANGED <<feed, nm, hostd, reader, stream, told, changes, trouble>>

\* connectSaved and submitConnect: confirmed when the panel shows that the
\* device carries the default route, which it asks about first.
connect ==
  /\ panel.device # NONE
  /\ request' = [op |-> "connect", confirmed |-> panel.device.managementPath, stage |-> "check"]
  /\ reader' = [reader EXCEPT !["check"] = Nothing]

\* Nothing is read before hostd is asked for anything else.
Asks(op) ==
  /\ request' = [op |-> op, confirmed |-> TRUE, stage |-> "hostd"]
  /\ UNCHANGED reader

requestDisconnect == Asks("disconnect") \/ Asks("radio")

hotspotAction == Asks("start_hotspot") \/ Asks("stop_hotspot") \/ Asks("delete_hotspot")

forgetProfile == Asks("delete_profile")

runMutation ==
  /\ panel # NONE /\ panel.backend = "NetworkManager" /\ panel.hostdReady
  /\ request = NONE /\ changes < MaxChanges
  /\ changes' = changes + 1
  /\ \/ feed = "wifi" /\ (connect \/ requestDisconnect \/ hotspotAction \/ forgetProfile)
     \/ feed = "ethernet" /\ Asks("save")
  /\ UNCHANGED <<feed, nm, hostd, stream, told, reply, panel, trouble>>

\* NetworkManager once hostd has done what it was asked.
Brought(op) ==
  CASE op = "connect" /\ nm.radio /\ Profile \in hostd.keyfiles -> [nm EXCEPT !.active = Profile]
    [] op = "start_hotspot" /\ nm.radio /\ Hotspot \in hostd.keyfiles ->
         [nm EXCEPT !.active = Hotspot, !.path = FALSE]
    [] op = "radio" -> [nm EXCEPT !.radio = ~@, !.active = NONE, !.path = FALSE]
    [] \/ op = "disconnect"
       \/ op \in {"stop_hotspot", "delete_hotspot"} /\ nm.active = Hotspot
       \/ op = "delete_profile" /\ nm.active = Profile -> [nm EXCEPT !.active = NONE, !.path = FALSE]
    [] OTHER -> nm

\* hostd carries the request out or refuses it; the API then collects a
\* status for its answer, which the panel does not look at.
mutate ==
  /\ request # NONE /\ request.stage = "hostd"
  /\ \/ /\ hostd.up /\ nm.running
        /\ nm' = Brought(request.op)
        /\ hostd' = CASE request.op = "delete_hotspot" -> [hostd EXCEPT !.keyfiles = @ \ {Hotspot}]
                      [] request.op = "delete_profile" -> [hostd EXCEPT !.keyfiles = @ \ {Profile}]
                      [] request.op = "save" -> [hostd EXCEPT !.ethernet = @ + 1]
                      [] OTHER -> hostd
        /\ request' = [request EXCEPT !.stage = "refresh"]
     \/ request' = NONE /\ UNCHANGED <<nm, hostd>>
  /\ UNCHANGED <<feed, reader, stream, told, reply, panel, changes, trouble>>

-----------------------------------------------------------------------------

\* The network changes by itself: the default route moves, the link is lost,
\* a profile connects, hostd or NetworkManager stops or starts, a port changes.
World ==
  /\ changes < MaxChanges
  /\ changes' = changes + 1
  /\ \/ nm.active # NONE /\ nm' = [nm EXCEPT !.path = ~@] /\ UNCHANGED hostd
     \/ nm.active # NONE /\ nm' = [nm EXCEPT !.active = NONE, !.path = FALSE] /\ UNCHANGED hostd
     \/ nm.active = NONE /\ nm.radio /\ nm' = [nm EXCEPT !.active = Profile] /\ UNCHANGED hostd
     \/ nm' = [nm EXCEPT !.running = ~@] /\ UNCHANGED hostd
     \/ hostd' = [hostd EXCEPT !.up = ~@] /\ UNCHANGED nm
     \/ hostd' = [hostd EXCEPT !.ethernet = @ + 1] /\ UNCHANGED nm
  /\ UNCHANGED <<feed, reader, stream, told, reply, panel, request, trouble>>

Sampling == SampleStarts \/ Reads("sample")

Getting == GetStarts \/ Reads("get")

PanelNext ==
  \/ Sampling \/ Getting \/ Reads("check")
  \/ EventSourceOpens \/ EventSourceDrops \/ EventArrives
  \/ refreshSummary \/ runMutation \/ mutate \/ World

\* The timer of an open stream, the browser's reconnection and delivery, and
\* requests that are answered.
PanelFairness ==
  /\ WF_panelVars(Sampling) /\ WF_panelVars(EventSourceOpens) /\ WF_panelVars(EventArrives)
  /\ WF_panelVars(Reads("get")) /\ WF_panelVars(refreshSummary)

PanelSpec == PanelInit /\ [][PanelNext]_panelVars /\ PanelFairness

-----------------------------------------------------------------------------

\* Type correctness.
PanelTypeOK ==
  /\ feed \in {"wifi", "ethernet"}
  /\ nm.active \in {NONE, Profile, Hotspot}
  /\ hostd.keyfiles \subseteq {Profile, Hotspot}
  /\ request # NONE => request.stage \in {"check", "hostd", "refresh", "refreshing"}
  /\ \A r \in Readers : Reading(r) => reader[r].inspection \in {Unread, NONE} \cup SUBSET {Profile, Hotspot}
  /\ changes \in 0..MaxChanges /\ trouble \in 0..MaxTrouble

(* Once the network is quiet, the last status the event stream brought is  *)
(* the status of the network, whatever the sampler read half before and    *)
(* half after a change, and whatever was on the wire of a lost connection: *)
(* streamWifiEvents and streamEthernetEvents compare with what they last   *)
(* wrote on this connection, over everything the status says.              *)
Settled == told = Truth

\* See Settled: the stream catches up with the network.
StreamCatchesUp == <>[]Settled

-----------------------------------------------------------------------------
(***************************************************************************)
(* The forms of the network panel on their way to hostd: the Ethernet      *)
(* editor and the dialogs of the Wi-Fi panel (SystemEthernetManagement,    *)
(* SystemWifiManagement), the checks of the API (ethernet-manager.ts,      *)
(* network-manager.ts), those of hostd (validation.rs, ethernet.rs) and    *)
(* the parser the API applies to hostd's answer (hostd-protocol.ts).  The  *)
(* three programs check the same form each with its own code.              *)
(*                                                                         *)
(* An address is what the three readers of addresses tell apart: an        *)
(* address of the family ("own"), one with blanks around it ("padded"), an *)
(* IPv6 address with a zone ("zoned"), one of the other family ("other"),  *)
(* and other text ("junk").  A network name is its number of bytes, a      *)
(* password its length and its characters.  The editor shows one address   *)
(* family of one port; a second port keeps a default route of metric 1.    *)
(***************************************************************************)
CONSTANTS
  MaxEdits,     \* bound on the changes made in one dialog
  MaxSubmits    \* bound on the forms sent, those of another browser included

VARIABLES
  family,   \* the address family the editor shows, 4 or 6
  desired,  \* hostd's saved settings of the port for that family
  hotspot,  \* hostd's hotspot profile of the wireless device, or NONE
  dialog,   \* the open dialog, or NONE
  answer,   \* the answer to the last form sent
  submits   \* forms sent so far

formVars == <<family, desired, hotspot, dialog, answer, submits>>

Lengths == {NONE, 0, 32, 33, 128, 129}

Ethernet ==
  [mode : {"disabled", "dhcp", "automatic", "static"},
   address : {NONE, "own", "padded", "zoned", "other", "junk"},
   prefixLength : Lengths,
   gateway : {NONE, "own", "padded", "zoned", "other", "junk"},
   dnsMode : {"automatic", "manual"},
   dns : {<<>>, <<"own">>, <<"own", "other">>, <<"zoned">>, <<"own", "own", "own">>},
   useDefaultRoute : BOOLEAN,
   routeMetric : {0, 1, 100, 600, 65535, 65536}]

automaticMode == IF family = 4 THEN "dhcp" ELSE "automatic"

Limit == IF family = 4 THEN 32 ELSE 128

default_config(route) ==
  [mode |-> automaticMode, address |-> NONE, prefixLength |-> NONE, gateway |-> NONE,
   dnsMode |-> "automatic", dns |-> <<>>, useDefaultRoute |-> route,
   routeMetric |-> IF route THEN 100 ELSE 600]

Passwords ==
  {[length |-> 0, kind |-> "print"], [length |-> 7, kind |-> "print"],
   [length |-> 8, kind |-> "print"], [length |-> 8, kind |-> "other"],
   [length |-> 64, kind |-> "print"], [length |-> 64, kind |-> "hex"]}

NoPassword == [length |-> 0, kind |-> "print"]

-----------------------------------------------------------------------------
(* The panel.                                                              *)

validIp(a) == a \in {"own", "padded"}

validateSystemEthernetConfig(c) ==
  /\ c.routeMetric \in 1..65535
  /\ c.mode = "static" =>
       /\ validIp(c.address)
       /\ c.prefixLength \in 0..Limit
       /\ c.useDefaultRoute => validIp(c.gateway)
       /\ c.gateway # NONE => validIp(c.gateway)
  /\ c.dnsMode = "manual" => Len(c.dns) \in 1..3
  /\ \A k \in 1..Len(c.dns) : validIp(c.dns[k])

validSystemWifiSsid(bytes) == bytes \in 1..32

validSystemWifiPassword(p) ==
  \/ p.length \in 8..63 /\ p.kind # "other"
  \/ p.length = 64 /\ p.kind = "hex"

\* The channels of a hotspot the panel offers for a band.
systemWifiChannels(band) == CASE band = "auto" -> {} [] band = "2.4" -> {1, 13} [] OTHER -> {36, 233}

\* What the three Wi-Fi dialogs let a user submit.
WifiDialogReady(d) ==
  CASE d.kind = "connect" -> d.form.security = "open" \/ validSystemWifiPassword(d.form.password)
    [] d.kind = "hotspot" ->
         /\ validSystemWifiSsid(d.form.ssid)
         /\ (d.existing = NONE \/ d.form.password.length > 0) => validSystemWifiPassword(d.form.password)
    [] OTHER -> FALSE

-----------------------------------------------------------------------------
(* The API.                                                                *)

isIP(a) == a \in {"own", "zoned"}

api_validateFamily(c) ==
  /\ c.mode \in {"disabled", automaticMode, "static"}
  /\ c.routeMetric \in 1..65535
  /\ Len(c.dns) <= 3
  /\ IF c.mode = "static"
       THEN /\ isIP(c.address)
            /\ c.prefixLength \in 0..Limit
            /\ c.gateway # NONE => isIP(c.gateway)
            /\ c.useDefaultRoute => c.gateway # NONE
       ELSE c.address = NONE /\ c.prefixLength = NONE /\ c.gateway = NONE
  /\ \A k \in 1..Len(c.dns) : isIP(c.dns[k])
  /\ (c.dnsMode = "automatic") = (c.dns = <<>>)

\* What parseHostdResult accepts of a status.
isEthernetFamily(c) ==
  /\ c.mode \in {"disabled", automaticMode, "static"}
  /\ c.prefixLength # NONE => c.prefixLength \in 0..Limit
  /\ Len(c.dns) <= 3
  /\ c.routeMetric \in 1..65535

-----------------------------------------------------------------------------
(* hostd.                                                                  *)

matches_family(a) == a = "own"

family_refuses_zero(c) ==
  /\ c.mode \in {"disabled", automaticMode, "static"}
  /\ c.routeMetric \in 1..65535
  /\ Len(c.dns) <= 3
  /\ IF c.mode = "static"
       THEN /\ matches_family(c.address)
            /\ c.prefixLength \in 1..Limit
            /\ c.gateway # NONE => matches_family(c.gateway)
            /\ c.useDefaultRoute => c.gateway # NONE
       ELSE c.address = NONE /\ c.prefixLength = NONE /\ c.gateway = NONE
  /\ \A k \in 1..Len(c.dns) : matches_family(c.dns[k])
  /\ (c.dnsMode = "automatic") = (c.dns = <<>>)

validate_family(c) ==
  /\ c.mode \in {"disabled", automaticMode, "static"}
  /\ c.routeMetric \in 1..65535
  /\ Len(c.dns) <= 3
  /\ IF c.mode = "static"
       THEN /\ matches_family(c.address)
            /\ c.prefixLength # NONE /\ c.prefixLength <= Limit
            /\ c.gateway # NONE => matches_family(c.gateway)
            /\ c.useDefaultRoute => c.gateway # NONE
       ELSE c.address = NONE /\ c.prefixLength = NONE /\ c.gateway = NONE
  /\ \A k \in 1..Len(c.dns) : matches_family(c.dns[k])
  /\ (c.dnsMode = "automatic") = (c.dns = <<>>)

\* The default routes of the two ports may not have the same metric.
validate_metric_conflicts(c) ==
  ~(c.useDefaultRoute /\ c.mode # "disabled" /\ c.routeMetric = 1)

validate_credential(security, password) ==
  IF security = "open"
    THEN password # NONE => password.length = 0
    ELSE /\ password # NONE
         /\ password # NONE =>
              \/ password.length \in 8..63 /\ password.kind # "other"
              \/ password.length = 64 /\ password.kind = "hex"

validate_request(kind, input) ==
  CASE kind = "connect" ->
         input.ssid \in 1..32 /\ validate_credential(input.security, input.password)
    [] kind = "hotspot" ->
         /\ input.ssid \in 1..32
         /\ input.channel # NONE => input.channel \in 1..233 /\ input.band # "auto"
         /\ input.password # NONE => validate_credential("wpa2", input.password)
    [] OTHER -> TRUE

-----------------------------------------------------------------------------
(* Dialogs.                                                                *)

FormInit ==
  /\ family \in {4, 6}
  /\ \E route \in BOOLEAN :
       desired = [config |-> default_config(route), revision |-> 0]
  /\ hotspot = NONE
  /\ dialog = NONE
  /\ answer = NONE
  /\ submits = 0

openEditor ==
  /\ dialog = NONE
  /\ dialog' = [kind |-> "ethernet", form |-> desired.config, existing |-> desired, edits |-> 0]
  /\ answer' = NONE
  /\ UNCHANGED <<family, desired, hotspot, submits>>

\* A scanned network without a saved profile: its name was broadcast, so it
\* has 1 to 32 bytes, and its security is one the panel can offer.
openConnect ==
  /\ dialog = NONE
  /\ \E ssid \in {1, 32}, security \in {"open", "wpa2"} :
       dialog' = [kind |-> "connect", existing |-> NONE, edits |-> 0,
                  form |-> [ssid |-> ssid, security |-> security, password |-> NoPassword]]
  /\ answer' = NONE
  /\ UNCHANGED <<family, desired, hotspot, submits>>

openHotspot ==
  /\ dialog = NONE
  /\ dialog' = [kind |-> "hotspot", existing |-> hotspot, edits |-> 0,
                form |-> [ssid |-> IF hotspot = NONE THEN 3 ELSE hotspot.ssid,
                          password |-> NoPassword,
                          band |-> IF hotspot = NONE THEN "auto" ELSE hotspot.band,
                          channel |-> IF hotspot = NONE THEN NONE ELSE hotspot.channel]]
  /\ answer' = NONE
  /\ UNCHANGED <<family, desired, hotspot, submits>>

close ==
  /\ dialog # NONE
  /\ dialog' = NONE
  /\ UNCHANGED <<family, desired, hotspot, answer, submits>>

\* The changes FamilyFields makes: a new mode blanks the static values, and
\* automatic DNS blanks the servers, of which it never keeps more than three.
FamilyFields(c) ==
  {[c EXCEPT !.mode = m, !.address = NONE, !.prefixLength = NONE, !.gateway = NONE]
     : m \in {"disabled", automaticMode, "static"}}
  \cup (IF c.mode # "static" THEN {} ELSE
         {[c EXCEPT !.address = a] : a \in {NONE, "own", "padded", "zoned", "other"}}
         \cup {[c EXCEPT !.prefixLength = n] : n \in Lengths}
         \cup {[c EXCEPT !.gateway = a] : a \in {NONE, "own", "zoned", "junk"}})
  \cup {[c EXCEPT !.dnsMode = "automatic", !.dns = <<>>], [c EXCEPT !.dnsMode = "manual"]}
  \cup (IF c.dnsMode # "manual" THEN {} ELSE
         {[c EXCEPT !.dns = d] : d \in {<<>>, <<"own">>, <<"own", "other">>, <<"zoned">>,
                                       <<"own", "own", "own">>}})
  \cup (IF c.mode = "disabled" THEN {} ELSE {[c EXCEPT !.useDefaultRoute = ~@]})
  \cup {[c EXCEPT !.routeMetric = n] : n \in {0, 1, 65535, 65536}}

\* The changes the Wi-Fi dialogs make: a new band blanks the channel.
HotspotFields(f) ==
  {[f EXCEPT !.ssid = n] : n \in {0, 32, 33}}
  \cup {[f EXCEPT !.password = p] : p \in Passwords}
  \cup {[f EXCEPT !.band = b, !.channel = NONE] : b \in {"auto", "2.4", "5"}}
  \cup {[f EXCEPT !.channel = c] : c \in {NONE} \cup systemWifiChannels(f.band)}

Edit ==
  /\ dialog # NONE
  /\ dialog.edits < MaxEdits
  /\ \E form \in CASE dialog.kind = "ethernet" -> FamilyFields(dialog.form)
                   [] dialog.kind = "hotspot" -> HotspotFields(dialog.form)
                   [] OTHER -> {[dialog.form EXCEPT !.password = p] : p \in Passwords} :
       dialog' = [dialog EXCEPT !.form = form, !.edits = @ + 1]
  /\ answer' = NONE
  /\ UNCHANGED <<family, desired, hotspot, submits>>

-----------------------------------------------------------------------------
(* Submitting.                                                             *)

Refused(by, why) ==
  /\ answer' = [by |-> by, why |-> why]
  /\ UNCHANGED <<desired, hotspot, dialog>>

\* A saved configuration: the API parses the status hostd answers with.
Saved(config) ==
  /\ desired' = [config |-> config, revision |-> desired.revision + 1]
  /\ answer' = [by |-> "api", why |-> IF isEthernetFamily(config) THEN "saved" ELSE "protocol"]
  /\ dialog' = IF isEthernetFamily(config) THEN NONE ELSE dialog
  /\ UNCHANGED hotspot

save_any_revision(c, base) ==
  IF ~validate_family(c) THEN Refused("hostd", "validation")
  ELSE IF ~validate_metric_conflicts(c) THEN Refused("hostd", "conflict")
  ELSE Saved(c)

\* hostd's save: of the configuration the editor was opened with only.
save(c, base) ==
  IF ~validate_family(c) THEN Refused("hostd", "validation")
  ELSE IF desired.revision # base.revision THEN Refused("hostd", "conflict")
  ELSE IF ~validate_metric_conflicts(c) THEN Refused("hostd", "conflict")
  ELSE Saved(c)

saveEditor ==
  /\ dialog # NONE /\ submits < MaxSubmits
  /\ dialog.kind = "ethernet" /\ validateSystemEthernetConfig(dialog.form)
  /\ IF ~api_validateFamily(dialog.form) THEN Refused("api", "validation")
     ELSE save(dialog.form, dialog.existing)
  /\ submits' = submits + 1
  /\ UNCHANGED family

submitConnect ==
  /\ dialog # NONE /\ submits < MaxSubmits
  /\ dialog.kind = "connect" /\ WifiDialogReady(dialog)
  /\ LET input == [dialog.form EXCEPT !.password = IF dialog.form.security # "open" THEN @ ELSE NONE]
     IN  IF ~validate_request("connect", input) THEN Refused("hostd", "validation")
         ELSE /\ answer' = [by |-> "api", why |-> "saved"]
              /\ dialog' = NONE
              /\ UNCHANGED <<desired, hotspot>>
  /\ submits' = submits + 1
  /\ UNCHANGED family

\* The saved password stays when none was typed.
submitHotspot ==
  /\ dialog # NONE /\ submits < MaxSubmits
  /\ dialog.kind = "hotspot" /\ WifiDialogReady(dialog)
  /\ LET input == [dialog.form EXCEPT !.password = IF @.length > 0 THEN @ ELSE NONE]
         password == IF input.password # NONE THEN input.password
                     ELSE IF hotspot = NONE THEN NONE ELSE hotspot.password
     IN  IF ~validate_request("hotspot", input) THEN Refused("hostd", "validation")
         ELSE IF hotspot # NONE /\ (dialog.existing # hotspot) THEN Refused("hostd", "conflict")
         ELSE IF ~validate_credential("wpa2", password) THEN Refused("hostd", "validation")
         ELSE /\ hotspot' = [input EXCEPT !.password = password]
              /\ answer' = [by |-> "api", why |-> "saved"]
              /\ dialog' = NONE
              /\ UNCHANGED desired
  /\ submits' = submits + 1
  /\ UNCHANGED family

\* Another browser saved the port, or removed the hotspot.
OtherBrowser ==
  /\ submits < MaxSubmits
  /\ submits' = submits + 1
  /\ \/ /\ desired' = [config |-> default_config(FALSE),
                       revision |-> desired.revision + 1]
        /\ UNCHANGED hotspot
     \/ hotspot # NONE /\ hotspot' = NONE /\ UNCHANGED desired
  /\ UNCHANGED <<family, dialog, answer>>

FormNext ==
  \/ openEditor \/ openConnect \/ openHotspot \/ close \/ Edit
  \/ saveEditor \/ submitConnect \/ submitHotspot \/ OtherBrowser

FormSpec == FormInit /\ [][FormNext]_formVars

-----------------------------------------------------------------------------

\* Type correctness.
FormTypeOK ==
  /\ family \in {4, 6}
  /\ desired.config \in Ethernet /\ desired.revision \in Nat
  /\ dialog # NONE => dialog.kind \in {"ethernet", "connect", "hotspot"}
  /\ answer # NONE => answer.by \in {"api", "hostd"}
  /\ submits \in 0..MaxSubmits

(* A form the panel lets a user submit and the API passes on is never one  *)
(* that hostd refuses as malformed, and what hostd then reports is never   *)
(* one the API cannot read: the checks of the three programs leave no gap, *)
(* although neither the panel's nor the API's covers hostd's alone (an     *)
(* address with blanks passes the panel, one with a zone the API).  The    *)
(* one exception is a hotspot another browser has just removed: the dialog *)
(* kept no password for it.                                                *)
FormsAreUnderstood ==
  answer # NONE =>
    /\ answer.why # "protocol"
    /\ (answer.by = "hostd" /\ answer.why = "validation" /\ dialog # NONE) =>
         dialog.kind = "hotspot" /\ dialog.existing # NONE /\ hotspot = NONE

(* hostd saves the Ethernet editor's form only over the settings that the  *)
(* editor was opened with: a save of another browser in between is never   *)
(* silently replaced (the revision check of ethernet.rs save).             *)
SaveReplacesWhatWasOpened ==
  [][answer' # answer /\ answer' = [by |-> "api", why |-> "saved"] /\ desired' # desired
       => dialog.existing.revision = desired.revision]_formVars
=============================================================================
