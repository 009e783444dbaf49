---------------------------- MODULE ApprovalGate ----------------------------
(***************************************************************************)
(* What the approval queue promises, without jobs, processes or tables: a  *)
(* change is asked for, a user grants or denies it once and for all, and   *)
(* only a granted change is performed, at most once.  A granted change may *)
(* also never be performed: the process that should do it can die.         *)
(***************************************************************************)
EXTENDS Naturals

CONSTANT Requests
VARIABLES decision, performed

Init ==
  /\ decision = [r \in Requests |-> "unasked"]
  /\ performed = [r \in Requests |-> 0]

Ask(r) ==
  /\ decision[r] = "unasked"
  /\ decision' = [decision EXCEPT ![r] = "pending"]
  /\ UNCHANGED performed

Grant(r) ==
  /\ decision[r] = "pending"
  /\ decision' = [decision EXCEPT ![r] = "granted"]
  /\ UNCHANGED performed

(* One rejection, or the expiry of every open request of a cancelled or    *)
(* deleted owner at once.                                                  *)
Deny(requests) ==
  /\ \A r \in requests : decision[r] = "pending"
  /\ decision' = [r \in Requests |-> IF r \in requests THEN "denied" ELSE decision[r]]
  /\ UNCHANGED performed

Perform(r) ==
  /\ decision[r] = "granted" /\ performed[r] = 0
  /\ performed' = [performed EXCEPT ![r] = 1]
  /\ UNCHANGED decision

Next ==
  \/ \E r \in Requests : Ask(r) \/ Grant(r) \/ Perform(r)
  \/ \E requests \in SUBSET Requests : Deny(requests)

Spec == Init /\ [][Next]_<<decision, performed>>
=============================================================================
