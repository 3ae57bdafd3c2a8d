------------------------- MODULE MCLedgerTrieWindow -------------------------
(* The chain 1-2-3 forks into 4-6 and 5. A skip list names one ancestor    *)
(* only, so validators two ledgers apart share no known ancestor: the      *)
(* situation of validators 257 ledgers apart on the live network.          *)
EXTENDS LedgerTrie

MCLedgers == 1 .. 6
MCParent == <<0, 1, 2, 3, 3, 4>>
=============================================================================
