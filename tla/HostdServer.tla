---------------------------- MODULE HostdServer ----------------------------
(***************************************************************************)
(* hostd's socket server (apps/hostd/src/server.rs, protocol.rs,           *)
(* command.rs, power.rs, ops.rs) and the API's client of it                *)
(* (apps/api/src/lib/hostd-client.ts).                                     *)
(*                                                                         *)
(* One task runs the loop that accepts connections, joins finished ones    *)
(* and recovers an expired Ethernet change once a second, holding the      *)
(* network lock; every connection is a task of its own.  A lock is a       *)
(* queue, the first of which holds it: tokio's mutex is fair.              *)
(***************************************************************************)
EXTENDS Naturals, Sequences, FiniteSets, TLAPS

CONSTANTS
  Requests,         \* request ids
  Request,          \* per id: domain, action, caller, frame, confirmed
  MAX_CONNECTIONS,
  MaxTicks,         \* bound on recoveries of an Ethernet change
  MaxKills,         \* bound on crashes of hostd
  NONE

VARIABLES
  heard,    \* what the caller of a request knows
  conn,     \* the state of its connection at the server
  reply,    \* the status of the response frame
  queues,   \* per lock: who holds it and who waits
  loop,     \* where the server's own task is
  socket,   \* the socket file exists
  done,     \* the requests whose system command took effect
  ticks, kills

server == <<heard, conn, reply, queues, loop, socket, done, ticks, kills>>

\* The domains of HostdState's locks, and the requests that take none.
Locks == {"shares", "storage", "docker", "network", "power", "ops"}

Unlocked(q) ==
  \/ q.domain = "storage" /\ q.action = "command"
  \/ q.domain = "docker" /\ q.action = "read"
  \/ q.domain = "network" /\ q.action = "ping"

Open == {r \in Requests : conn[r] \in {"read", "lock", "run", "write", "finished"}}

Init ==
  /\ heard = [r \in Requests |-> NONE]
  /\ conn = [r \in Requests |-> NONE]
  /\ reply = [r \in Requests |-> NONE]
  /\ queues = [l \in Locks |-> <<>>]
  /\ loop = "recover"
  /\ socket = FALSE
  /\ done = {}
  /\ ticks = 0 /\ kills = 0

-----------------------------------------------------------------------------
(* The client.                                                             *)

\* A frame that is too large is not sent; without a listener connect fails.
request(r) ==
  /\ heard[r] = NONE
  /\ IF Request[r].frame = "large" THEN heard' = [heard EXCEPT ![r] = "413"] /\ conn' = conn
     ELSE IF loop \in {"select", "tick"}
       THEN heard' = [heard EXCEPT ![r] = "waiting"] /\ conn' = [conn EXCEPT ![r] = "backlog"]
       ELSE heard' = [heard EXCEPT ![r] = "503"] /\ conn' = conn
  /\ UNCHANGED <<reply, queues, loop, socket, done, ticks, kills>>

\* Mutant: the client reports a timeout as an unavailable service.
ClientTimesOutUnavailable(r) ==
  /\ heard[r] = "waiting"
  /\ heard' = [heard EXCEPT ![r] = "503"]
  /\ UNCHANGED <<conn, reply, queues, loop, socket, done, ticks, kills>>

\* The client gives up and destroys its socket; the server does not notice.
ClientTimesOut(r) ==
  /\ heard[r] = "waiting"
  /\ heard' = [heard EXCEPT ![r] = "504"]
  /\ UNCHANGED <<conn, reply, queues, loop, socket, done, ticks, kills>>

\* A response frame settles the request, unless it is settled.
parseResponse(r, status) ==
  heard' = IF heard[r] = "waiting" THEN [heard EXCEPT ![r] = status] ELSE heard

-----------------------------------------------------------------------------
(* A connection.                                                           *)

\* The caller's uid, the frame and the envelope are checked in this order.
Refusal(q) ==
  IF q.caller # "api" THEN "403"
  ELSE IF q.frame = "late" THEN "408"
  ELSE IF q.frame # "whole" THEN "400"
  ELSE NONE

\* An unconfirmed power action or maintenance run changes nothing.
Unconfirmed(q) ==
  /\ ~q.confirmed
  /\ q.domain = "power" \/ (q.domain = "ops" /\ q.action = "maintenance")

Answer(r, status) ==
  /\ reply' = [reply EXCEPT ![r] = status]
  /\ conn' = [conn EXCEPT ![r] = "write"]

read_frame(r) ==
  /\ conn[r] = "read"
  /\ Refusal(Request[r]) # NONE
  /\ Answer(r, Refusal(Request[r]))
  /\ UNCHANGED <<heard, queues, loop, socket, done, ticks, kills>>

\* A request takes its domain's lock, or none.
dispatch(r) ==
  /\ conn[r] = "read"
  /\ Refusal(Request[r]) = NONE
  /\ IF Unlocked(Request[r]) THEN conn' = [conn EXCEPT ![r] = "run"] /\ queues' = queues
     ELSE /\ conn' = [conn EXCEPT ![r] = "lock"]
          /\ queues' = [queues EXCEPT ![Request[r].domain] = Append(@, r)]
  /\ UNCHANGED <<heard, reply, loop, socket, done, ticks, kills>>

Locked(r) ==
  /\ conn[r] = "lock"
  /\ Head(queues[Request[r].domain]) = r
  /\ conn' = [conn EXCEPT ![r] = "run"]
  /\ UNCHANGED <<heard, reply, queues, loop, socket, done, ticks, kills>>

\* A command succeeds, fails, or is killed after its timeout, when it may have
\* taken effect; the guard is dropped when the handler returns.
run_checked(r) ==
  /\ conn[r] = "run"
  /\ IF Unconfirmed(Request[r]) THEN Answer(r, "422") /\ done' = done
     ELSE \/ Answer(r, "200") /\ done' = done \cup {r}
          \/ Answer(r, "500") /\ done' = done
          \/ Answer(r, "504") /\ done' \in {done, done \cup {r}}
  /\ queues' = IF Unlocked(Request[r]) THEN queues
               ELSE [queues EXCEPT ![Request[r].domain] = Tail(@)]
  /\ UNCHANGED <<heard, loop, socket, ticks, kills>>

\* The response is written, or the write fails or times out.
write_response(r) ==
  /\ conn[r] = "write"
  /\ conn' = [conn EXCEPT ![r] = "finished"]
  /\ parseResponse(r, reply[r])
  /\ UNCHANGED <<reply, queues, loop, socket, done, ticks, kills>>

-----------------------------------------------------------------------------
(* The server's loop.                                                      *)

\* Start: an unfinished Ethernet change is recovered before the socket is bound.
bind_socket ==
  /\ loop = "recover"
  /\ socket' = TRUE
  /\ loop' = "select"
  /\ UNCHANGED <<heard, conn, reply, queues, done, ticks, kills>>

Accept(r) ==
  /\ loop = "select" /\ conn[r] = "backlog"
  /\ Cardinality(Open) < MAX_CONNECTIONS
  /\ conn' = [conn EXCEPT ![r] = "read"]
  /\ UNCHANGED <<heard, reply, queues, loop, socket, done, ticks, kills>>

\* Mutant: finished connections are joined only when the server stops.
join_at_stop(r) ==
  /\ loop = "drain" /\ conn[r] = "finished"
  /\ conn' = [conn EXCEPT ![r] = "gone"]
  /\ UNCHANGED <<heard, reply, queues, loop, socket, done, ticks, kills>>

join_next(r) ==
  /\ loop \in {"select", "drain"} /\ conn[r] = "finished"
  /\ conn' = [conn EXCEPT ![r] = "gone"]
  /\ UNCHANGED <<heard, reply, queues, loop, socket, done, ticks, kills>>

\* The tick waits for the network lock in the loop: nothing is accepted then.
Tick ==
  /\ loop = "select" /\ ticks < MaxTicks
  /\ ticks' = ticks + 1
  /\ loop' = "tick"
  /\ queues' = [queues EXCEPT !["network"] = Append(@, "tick")]
  /\ UNCHANGED <<heard, conn, reply, socket, done, kills>>

TickRuns ==
  /\ loop = "tick" /\ Head(queues["network"]) = "tick"
  /\ queues' = [queues EXCEPT !["network"] = Tail(@)]
  /\ loop' = "select"
  /\ UNCHANGED <<heard, conn, reply, socket, done, ticks, kills>>

\* SIGTERM: the listener is dropped, and with it what was not accepted.
shutdown_signal ==
  /\ loop = "select"
  /\ loop' = "drain"
  /\ conn' = [r \in Requests |-> IF conn[r] = "backlog" THEN "gone" ELSE conn[r]]
  /\ heard' = [r \in Requests |->
       IF conn[r] = "backlog" /\ heard[r] = "waiting" THEN "503" ELSE heard[r]]
  /\ UNCHANGED <<reply, queues, socket, done, ticks, kills>>

remove_socket ==
  /\ loop = "drain" /\ Open = {}
  /\ socket' = FALSE
  /\ loop' = "stopped"
  /\ UNCHANGED <<heard, conn, reply, queues, done, ticks, kills>>

\* A killed server resets a connection it has not read, and ends the others.
Killed ==
  /\ loop # "stopped" /\ kills < MaxKills
  /\ kills' = kills + 1
  /\ loop' = "recover"
  /\ conn' = [r \in Requests |-> IF conn[r] = NONE THEN NONE ELSE "gone"]
  /\ queues' = [l \in Locks |-> <<>>]
  /\ heard' = [r \in Requests |->
       IF heard[r] # "waiting" THEN heard[r]
       ELSE IF conn[r] \in {"backlog", "read"} THEN "503" ELSE "502"]
  /\ done' \in {done, done \cup {r \in Requests : conn[r] = "run"}}
  /\ UNCHANGED <<reply, socket, ticks>>

Next ==
  \/ \E r \in Requests :
       \/ request(r) \/ ClientTimesOut(r)
       \/ read_frame(r) \/ dispatch(r) \/ Locked(r) \/ run_checked(r) \/ write_response(r)
       \/ Accept(r) \/ join_next(r)
  \/ bind_socket \/ Tick \/ TickRuns \/ shutdown_signal \/ remove_socket \/ Killed

\* What goes on for request r without its caller.
HostdRuns(r) ==
  \/ read_frame(r) \/ dispatch(r) \/ Locked(r) \/ run_checked(r) \/ write_response(r)
  \/ Accept(r) \/ join_next(r)
  \/ bind_socket \/ TickRuns

Spec == Init /\ [][Next]_server /\ \A r \in Requests : WF_server(HostdRuns(r))

-----------------------------------------------------------------------------
\* A request the API reports as refused or as unavailable was not and will not
\* be carried out: only 502 and 504 leave its outcome open, across crashes,
\* shutdown and a client that gave up.
RefusedNeverRuns ==
  \A r \in Requests : heard[r] \in {"400", "403", "408", "413", "422", "503"} => r \notin done

\* Every connection the kernel took in is accepted or closed: the loop neither
\* runs out of connection slots nor waits for the network lock for ever
\* (assuming that every system command ends, as its timeout makes it).
Settled == \A r \in Requests : conn[r] # "backlog"

\* See Settled: the backlog of connections drains.
BacklogDrains == <>[]Settled

-----------------------------------------------------------------------------
(* Proofs.                                                                 *)

Statuses == {"200", "400", "403", "408", "422", "500", "504"}
Refused == {"400", "403", "408", "413", "422", "503"}

\* The values the variables take.
TypeOK ==
  /\ heard \in [Requests -> Statuses \cup {NONE, "waiting", "413", "502", "503"}]
  /\ conn \in [Requests -> {NONE, "backlog", "read", "lock", "run", "write", "finished", "gone"}]
  /\ reply \in [Requests -> Statuses \cup {NONE}]
  /\ done \subseteq Requests

\* A connection whose command may still take effect.
Going == {"backlog", "read", "lock", "run"}

\* What a request's caller has heard, the state of its connection, the answer
\* that is on its way and the effect of its command, in agreement: the caller
\* who heard a refusal has no connection that could still run, and a refusal
\* is only written for a command that has had no effect.
Agree(r) ==
  /\ heard[r] = NONE => conn[r] = NONE
  /\ conn[r] \in Going \cup {NONE} => r \notin done
  /\ conn[r] \in {"write", "finished"} =>
       reply[r] \in Statuses /\ (reply[r] \in Refused => r \notin done)
  /\ heard[r] \in Refused => conn[r] \notin Going /\ r \notin done

IInv == TypeOK /\ \A r \in Requests : Agree(r)

\* NONE is none of the words for the states of a request.
NoneIsApart ==
  NONE \notin Statuses \cup Refused \cup Going
                \cup {"waiting", "502", "write", "finished", "gone"}

\* Every step of the server, of its clients, a shutdown and a kill keeps IInv.
LEMMA IInvStep ==
  ASSUME NoneIsApart, IInv, [Next]_server
  PROVE  IInv'
<1> USE DEF NoneIsApart, IInv, TypeOK, Agree, Statuses, Refused, Going
<1>1. ASSUME NEW r \in Requests, request(r)  PROVE IInv'
  BY <1>1 DEF request
<1>2. ASSUME NEW r \in Requests, ClientTimesOut(r)  PROVE IInv'
  BY <1>2 DEF ClientTimesOut
<1>3. ASSUME NEW r \in Requests, read_frame(r)  PROVE IInv'
  BY <1>3 DEF read_frame, Answer, Refusal
<1>4. ASSUME NEW r \in Requests, dispatch(r)  PROVE IInv'
  BY <1>4 DEF dispatch
<1>5. ASSUME NEW r \in Requests, Locked(r)  PROVE IInv'
  BY <1>5 DEF Locked
<1>6. ASSUME NEW r \in Requests, run_checked(r)  PROVE IInv'
  BY <1>6 DEF run_checked, Answer
<1>7. ASSUME NEW r \in Requests, write_response(r)  PROVE IInv'
  BY <1>7 DEF write_response, parseResponse
<1>8. ASSUME NEW r \in Requests, Accept(r)  PROVE IInv'
  BY <1>8 DEF Accept
<1>9. ASSUME NEW r \in Requests, join_next(r)  PROVE IInv'
  BY <1>9 DEF join_next
<1>10. CASE bind_socket \/ Tick \/ TickRuns \/ remove_socket
  BY <1>10 DEF bind_socket, Tick, TickRuns, remove_socket
<1>11. CASE shutdown_signal
  BY <1>11 DEF shutdown_signal
<1>12. CASE Killed
  BY <1>12 DEF Killed
<1>13. CASE UNCHANGED server
  BY <1>13 DEF server
<1> QED
  BY <1>1, <1>2, <1>3, <1>4, <1>5, <1>6, <1>7, <1>8, <1>9, <1>10, <1>11, <1>12, <1>13
  DEF Next

\* For any requests, any number of connections, ticks and kills: a request that
\* the API reports as refused or unavailable is never carried out.
THEOREM RefusedNeverRunsHolds ==
  ASSUME NoneIsApart
  PROVE  Spec => []RefusedNeverRuns
<1>1. Init => IInv
  BY DEF NoneIsApart, Init, IInv, TypeOK, Agree, Statuses, Refused, Going
<1>2. IInv /\ [Next]_server => IInv'
  BY IInvStep
<1>3. IInv => RefusedNeverRuns
  BY DEF IInv, Agree, Refused, RefusedNeverRuns
<1> QED
  BY <1>1, <1>2, <1>3, PTL DEF Spec
=============================================================================
