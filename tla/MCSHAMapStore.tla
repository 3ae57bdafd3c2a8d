---------------------------- MODULE MCSHAMapStore ----------------------------
(* Four ledgers and a rotation at each after the first, of a server with   *)
(* no transaction tables.  Node a is in ledger 1, not in ledger 2, and     *)
(* again in ledger 3.                                                      *)
EXTENDS SHAMapStore

CONSTANTS a, b

MCMap == <<{a}, {b}, {a, b}, {b}>>
MCHistoryMap == <<{a}, {a}, {b}>>    \* ledger 3 replaces the only node of ledger 2
MCTables == <<"Ledgers">>
=============================================================================
