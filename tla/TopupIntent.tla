----------------------------- MODULE TopupIntent -----------------------------
(***************************************************************************)
(* What a top-up promises for each idempotency key, in terms of money      *)
(* alone: the wallet pays once, and the payment then ends in the pool or   *)
(* back in the wallet, never in both.  A key on which the hub has lost     *)
(* track of the money is void and promises nothing.                        *)
(***************************************************************************)
CONSTANT Keys

VARIABLE intent

Init == intent = [k \in Keys |-> "new"]

Pay(k) == intent[k] = "new" /\ intent' = [intent EXCEPT ![k] = "paid"]
Fund(k) == intent[k] = "paid" /\ intent' = [intent EXCEPT ![k] = "funded"]
Return(k) == intent[k] = "paid" /\ intent' = [intent EXCEPT ![k] = "returned"]
Void(k) == intent[k] # "void" /\ intent' = [intent EXCEPT ![k] = "void"]

Next == \E k \in Keys : Pay(k) \/ Fund(k) \/ Return(k) \/ Void(k)

Spec == Init /\ [][Next]_intent
=============================================================================
