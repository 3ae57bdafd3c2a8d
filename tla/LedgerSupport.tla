---------------------------- MODULE LedgerSupport ----------------------------
(***************************************************************************)
(* What LedgerTrie promises, without the trie: validation support is a bag *)
(* of tip ledgers, and the preferred ledger is found by walking the tree   *)
(* of ledgers one sequence number at a time, as the comment on             *)
(* LedgerTrie::getPreferred describes. sup[l] is the number of validators  *)
(* whose last validated ledger is l.                                       *)
(***************************************************************************)
EXTENDS RCLValidatedLedger

NoLedger == -1

SumOf(sup, S) == MapThenSumSet(LAMBDA l : sup[l], S)

Descendants(l) == {d \in Ledgers : l \in Chain[d]}

BranchOf(sup, l) == SumOf(sup, Descendants(l))

(* Validators that have yet to validate a ledger with sequence number s,   *)
(* or that are behind the largest sequence number we issued ourselves.     *)
Uncommitted(sup, s, largestIssued) ==
    SumOf(sup, {d \in Ledgers : seq[d] < Max({s, largestIssued})})

(* c has the relative majority among its siblings even if all uncommitted  *)
(* support goes to the best rival; equal support is decided by the id.     *)
Beats(sup, c, rival, unc) ==
    BranchOf(sup, c) + (IF c > rival THEN 1 ELSE 0) > BranchOf(sup, rival) + unc

PreferredChild(sup, c, largestIssued) ==
    LET unc    == Uncommitted(sup, seq[c], largestIssued)
        rivals == {r \in Ledgers : Parent[r] = Parent[c] /\ BranchOf(sup, r) > 0} \ {c}
    IN  IF rivals = {}
        THEN BranchOf(sup, c) > unc
        ELSE \A r \in rivals : Beats(sup, c, r, unc)

PreferredLedger(sup, largestIssued) ==
    LET Walk[l \in AllLedgers] ==
            LET next == {c \in Ledgers : /\ Parent[c] = l
                                         /\ BranchOf(sup, c) > 0
                                         /\ PreferredChild(sup, c, largestIssued)}
            IN  IF next = {} THEN l ELSE Walk[CHOOSE c \in next : TRUE]
    IN  IF SumOf(sup, Ledgers) = 0 THEN NoLedger ELSE Walk[Genesis]
=============================================================================
