------------------------- MODULE RCLValidatedLedger -------------------------
(***************************************************************************)
(* The ledger type that LedgerTrie and Validations are instantiated with:  *)
(* a ledger's id and sequence number, and the ids of at most Window of its *)
(* ancestors (the 256 hashes of the ledger's skip list in the code).       *)
(*                                                                         *)
(* Ids are natural numbers, because the code breaks ties by comparing ids. *)
(* Id 0 is both MakeGenesis, the ledger every chain starts from, and the   *)
(* default id "that is less than all others" of an unknown ancestor.       *)
(***************************************************************************)
EXTENDS Integers, FiniteSetsExt

CONSTANTS
    Ledgers,    \* ids of the closed ledgers in play
    Parent,     \* the id of each ledger's parent, Genesis for a first ledger
    Window      \* how many ancestors a ledger's skip list names

Genesis == 0

ASSUME AncestryAssumption ==
    /\ Ledgers \subseteq Nat \ {Genesis}
    /\ Parent \in [Ledgers -> Ledgers \cup {Genesis}]
    /\ \A l \in Ledgers : Parent[l] < l
    /\ Window \in Nat

AllLedgers == Ledgers \cup {Genesis}

(* The sequence number of a ledger: its distance from Genesis.             *)
seq[l \in AllLedgers] == IF l = Genesis THEN 0 ELSE seq[Parent[l]] + 1

(* A ledger together with all its ancestors, as the chain really is.       *)
Chain[l \in AllLedgers] ==
    {l} \cup (IF l = Genesis THEN {} ELSE Chain[Parent[l]])

(* The earliest sequence number whose id the ledger object knows: the skip *)
(* list of ledger n names ledgers n-1, n-2, ... down to ledger 1.          *)
minSeq(l) ==
    IF l = Genesis THEN 0 ELSE Max({1, seq[l] - Window})

(* operator[]: the id of the ancestor with sequence number s, or ID{0}.    *)
At(l, s) ==
    IF s >= minSeq(l) /\ s <= seq[l]
    THEN CHOOSE a \in Chain[l] : seq[a] = s
    ELSE Genesis

(* The first sequence number at which a and b may differ. When the known   *)
(* parts of the two chains share no ledger they are taken to differ right  *)
(* after genesis.                                                          *)
mismatch(a, b) ==
    LET lower == Max({minSeq(a), minSeq(b)})
        upper == Min({seq[a], seq[b]})
        same  == {s \in lower .. upper : At(a, s) = At(b, s)}
    IN  IF same = {} THEN 1 ELSE Max(same) + 1
=============================================================================
