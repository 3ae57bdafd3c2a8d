---------------------------- MODULE MCLedgerTrie ----------------------------
(* Seven ledgers: the chain 1-2-3, the fork 4 after 1, the fork 5-6 after  *)
(* 2, and 7, a rival of 1. Skip lists reach back to the first ledger.      *)
EXTENDS LedgerTrie

MCLedgers == 1 .. 7
MCParent == <<0, 1, 2, 1, 2, 5, 0>>
=============================================================================
