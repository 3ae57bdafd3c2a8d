-------------------------- MODULE MCFullValidation --------------------------
EXTENDS FullValidation, TLC

CONSTANTS a, b, z

(* Everyone trusts everyone, and a quorum is all of them.                  *)
MCUNL == [n \in Honest |-> Validators]
MCQuorum == [n \in Honest |-> Cardinality(Validators)]

(* Two rival ledgers, and a child of the first.                            *)
RivalSeq == <<1, 1, 2>>
RivalAncestors == <<{}, {}, {1}>>

Interchangeable == Permutations(Honest)
=============================================================================
