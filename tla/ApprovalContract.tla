-------------------------- MODULE ApprovalContract --------------------------
(***************************************************************************)
(* What an approval request promises, without API calls in flight, sweeps, *)
(* locks or crashes: it is decided once, and the decision it shows is      *)
(* applied to its execution once.  With decisions made one at a time,      *)
(* ApprovalGate implements this specification.                             *)
(***************************************************************************)
CONSTANT Requests       \* the approval requests

VARIABLE gate           \* gate[r]: what is known of request r

Verdicts == {"approved", "denied", "expired"}
Gate == [decision : Verdicts \cup {"none", "pending"},
         applied : Verdicts \cup {"none"}]

TypeOK == gate \in [Requests -> Gate]

Init == gate = [r \in Requests |-> [decision |-> "none", applied |-> "none"]]

Ask(r) ==
    /\ gate[r].decision = "none"
    /\ gate' = [gate EXCEPT ![r].decision = "pending"]

Settle(r) ==
    /\ gate[r].decision = "pending"
    /\ \E v \in Verdicts : gate' = [gate EXCEPT ![r].decision = v]

Apply(r) ==
    /\ gate[r].decision \in Verdicts /\ gate[r].applied = "none"
    /\ gate' = [gate EXCEPT ![r].applied = gate[r].decision]

Next == \E r \in Requests : Ask(r) \/ Settle(r) \/ Apply(r)

Spec == Init /\ [][Next]_gate
=============================================================================
