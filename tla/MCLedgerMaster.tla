---------------------------- MODULE MCLedgerMaster ----------------------------
(* The chain 1-2-3 and 4, a rival of 2.                                    *)
EXTENDS LedgerMaster

MCLedgers == 1 .. 4
MCParent == <<0, 1, 2, 1>>

(* Everyone validates 2, which is built here or not.                       *)
AllOfTwo == {"a", "b", "c"} \X {2}

(* Two of them validate 1 before.                                          *)
AllOfTwoAmong == AllOfTwo \cup ({"a", "b"} \X {1})

(* One validator validates 1, and both validate 3.                         *)
Chained == {<<"a", 1>>, <<"a", 3>>, <<"b", 3>>}
=============================================================================
