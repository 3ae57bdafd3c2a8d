---------------------------- MODULE MCValidations ----------------------------
(* Ledger 1 and its rival children 2 and 3.                                *)
EXTENDS Validations

MCLedgers == 1 .. 3
MCParent == <<0, 1, 1>>

Offer(n, l, t) == [node |-> n, ledger |-> l, seq |-> seq[l], signTime |-> t, full |-> TRUE]

(* a moves on from ledger 1 to ledger 3, where b is already.               *)
Moving == {Offer("a", 1, 1), Offer("a", 3, 2), Offer("b", 3, 1)}

(* a signs both ledgers of sequence number 2, and ledger 1 late.           *)
Conflicting == {Offer("a", 2, 1), Offer("a", 3, 4), Offer("a", 1, 2)}

Changing == {Offer("a", 1, 1), Offer("a", 2, 2), Offer("b", 1, 1)}

Ranges == {[low |-> 2, high |-> 3]}
=============================================================================
