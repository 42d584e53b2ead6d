---------------------------- MODULE EventLedger ----------------------------
(***************************************************************************)
(* What the activity processor promises about one event after another: an  *)
(* event that has arrived is owed an answer until it is settled (it has an *)
(* activity, no policy matches it, or the audit consumer gave up on it),   *)
(* and an answer is final.                                                 *)
(***************************************************************************)
CONSTANT Events

VARIABLE fate   \* "absent", "owed" or "settled", for every event

Init == fate = [e \in Events |-> "absent"]

Arrive(e) == fate[e] = "absent" /\ fate' = [fate EXCEPT ![e] = "owed"]

Settle(e) == fate[e] = "owed" /\ fate' = [fate EXCEPT ![e] = "settled"]

Next == \E e \in Events : Arrive(e) \/ Settle(e)

Spec == Init /\ [][Next]_fate
=============================================================================
