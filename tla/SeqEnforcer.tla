----------------------------- MODULE SeqEnforcer -----------------------------
(***************************************************************************)
(* SeqEnforcer (Validations.h): the largest sequence number a validator    *)
(* has validated, and when. It is forgotten once it is older than          *)
(* SetExpires; only a larger number is accepted.                           *)
(***************************************************************************)
EXTENDS Integers

CONSTANT SetExpires     \* validationSetExpires

ASSUME SetExpiresAssumption == SetExpires \in Nat

NewEnforcer == [seq |-> 0, when |-> 0]

Largest(enf, now) == IF now > enf.when + SetExpires THEN 0 ELSE enf.seq

(* Mutant: a repeated sequence number is accepted.                         *)
AdvancesOrRepeats(enf, now, s) == s >= Largest(enf, now)

Advances(enf, now, s) == s > Largest(enf, now)

(* operator(): the enforcer once s has been tried.                         *)
Advance(enf, now, s) ==
    IF Advances(enf, now, s)
    THEN [seq |-> s, when |-> now]
    ELSE [seq |-> Largest(enf, now), when |-> enf.when]
=============================================================================
