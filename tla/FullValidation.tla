--------------------------- MODULE FullValidation ---------------------------
(***************************************************************************)
(* The network of validators, as far as full validation goes: what makes   *)
(* an honest validator sign a validation (RCLConsensus preStartRound,      *)
(* doAccept, validate), what makes a node take a ledger as fully validated *)
(* (LedgerMaster::checkAccept), and what a restart forgets.                *)
(*                                                                         *)
(* Consensus is left open: a validator may come to build any ledger. So is *)
(* delivery: a node counts any of the validations signed so far, so they   *)
(* may be lost, delayed or reordered. A faulty validator's validation of   *)
(* any ledger is at hand at any time.                                      *)
(*                                                                         *)
(* The enforcer is the one of Validations; the in-memory state of a        *)
(* validator (enforcer, validated ledger) is lost in a restart, the table  *)
(* of saved ledgers is not.                                                *)
(***************************************************************************)
EXTENDS SeqEnforcer, FiniteSets

CONSTANTS
    None,           \* no ledger
    Validators,
    Faulty,         \* validators that sign what they like
    UNL,            \* the validators each validator trusts
    Quorum,         \* and the quorum it computes
    Ledgers,
    Seq,            \* the sequence number of each ledger
    Ancestors,      \* the proper ancestors of each ledger
    MaxTime,        \* bound: clock readings
    MaxBoots,       \* bound: restarts of each validator
    MaxSigned       \* bound: validations signed by each validator

Honest == Validators \ Faulty

ASSUME NetworkAssumption ==
    /\ IsFiniteSet(Validators) /\ Faulty \subseteq Validators
    /\ UNL \in [Honest -> SUBSET Validators]
    /\ Quorum \in [Honest -> Nat]
    /\ Seq \in [Ledgers -> Nat \ {0}]
    /\ Ancestors \in [Ledgers -> SUBSET Ledgers]
    /\ None \notin Ledgers
    /\ MaxTime \in Nat \ {0} /\ MaxBoots \in Nat /\ MaxSigned \in Nat

(* Any two quorums have more in common than there are faulty validators.   *)
ASSUME OverlapAssumption ==
    \A i, j \in Honest :
        Quorum[i] + Quorum[j] >
            Cardinality(UNL[i] \cup UNL[j]) + Cardinality(Faulty)

VARIABLES
    now,        \* the clock
    boot,       \* how often each validator was restarted
    enforcer,   \* localSeqEnforcer_ of each validator
    disallowed, \* maxDisallowedLedger_ of each validator
    valid,      \* validLedger_ of each validator
    noted,      \* lastValidLedger_ of each validator
    saved,      \* the ledger tables, [by, ledger, boot]
    signed,     \* validations signed, [by, ledger, at, boot]
    accepted    \* all ledgers each validator ever took as fully validated

vars == <<now, boot, enforcer, disallowed, valid, noted, saved, signed, accepted>>

Times == 0 .. MaxTime

Signers(l) == {s.by : s \in {t \in signed : t.ledger = l}} \cup Faulty

HasQuorum(n, l) == Cardinality(Signers(l) \cap UNL[n]) >= Quorum[n]

SeqOf(l) == IF l = None THEN 0 ELSE Seq[l]

(* areCompatible() with the validated ledger v.                            *)
Compatible(v, l) ==
    CASE v = None \/ v = l -> TRUE
      [] SeqOf(v) < Seq[l] -> v \in Ancestors[l]
      [] SeqOf(v) > Seq[l] -> l \in Ancestors[v]
      [] OTHER -> FALSE

(* areCompatible() with the last ledger that had a quorum, of which only   *)
(* hash and sequence number are known.                                     *)
Follows(v, l) ==
    CASE v = None \/ v = l -> TRUE
      [] SeqOf(v) < Seq[l] -> v \in Ancestors[l]
      [] OTHER -> SeqOf(v) > Seq[l]

isCompatible(n, l) == Compatible(valid[n], l) /\ Follows(noted[n], l)

(***************************************************************************)
(* Actions                                                                 *)
(***************************************************************************)
Init ==
    /\ now = 1
    /\ boot = [n \in Honest |-> 0]
    /\ enforcer = [n \in Honest |-> NewEnforcer]
    /\ disallowed = [n \in Honest |-> 0]
    /\ valid = [n \in Honest |-> None]
    /\ noted = [n \in Honest |-> None]
    /\ saved = {}
    /\ signed = {}
    /\ accepted = [n \in Honest |-> {}]

Tick ==
    /\ now < MaxTime
    /\ now' = now + 1
    /\ UNCHANGED <<boot, enforcer, disallowed, valid, noted, saved, signed, accepted>>

(* Mutant: sequence numbers persisted before the restart are allowed.      *)
MayValidateAny(n, l) == isCompatible(n, l)

(* preStartRound() and doAccept(): the previous ledger is not older than   *)
(* what was saved before the restart, and the built one does not           *)
(* contradict what is fully validated.                                     *)
MayValidate(n, l) == Seq[l] - 1 >= disallowed[n] /\ isCompatible(n, l)

(* The end of doAccept() for the built ledger l: validate() signs if       *)
(* canValidateSeq() agrees.                                                *)
Validate(n, l) ==
    /\ Cardinality({s \in signed : s.by = n}) < MaxSigned
    /\ MayValidate(n, l)
    /\ enforcer' = [enforcer EXCEPT ![n] = Advance(@, now, Seq[l])]
    /\ signed' = IF Advances(enforcer[n], now, Seq[l])
                 THEN signed \cup {[by |-> n, ledger |-> l, at |-> now, boot |-> boot[n]]}
                 ELSE signed
    /\ UNCHANGED <<now, boot, disallowed, valid, noted, saved, accepted>>

(* checkAccept(hash, seq): a quorum is noted, whether or not the ledger is *)
(* held.                                                                   *)
NoteQuorum(n, l) ==
    /\ HasQuorum(n, l)
    /\ Seq[l] > SeqOf(noted[n])
    /\ noted' = [noted EXCEPT ![n] = l]
    /\ UNCHANGED <<now, boot, enforcer, disallowed, valid, saved, signed, accepted>>

(* Mutant: one validation less is asked for.                               *)
checkAcceptEarly(n, l) ==
    /\ Cardinality(Signers(l) \cap UNL[n]) + 1 >= Quorum[n]
    /\ Seq[l] > SeqOf(valid[n])
    /\ valid' = [valid EXCEPT ![n] = l]
    /\ accepted' = [accepted EXCEPT ![n] = @ \cup {l}]
    /\ UNCHANGED <<now, boot, enforcer, disallowed, noted, saved, signed>>

(* checkAccept(ledger), once the ledger is held.                           *)
checkAccept(n, l) ==
    /\ HasQuorum(n, l)
    /\ Seq[l] > SeqOf(valid[n])
    /\ valid' = [valid EXCEPT ![n] = l]
    /\ accepted' = [accepted EXCEPT ![n] = @ \cup {l}]
    /\ UNCHANGED <<now, boot, enforcer, disallowed, noted, saved, signed>>

(* setFullLedger() has the ledger saved, in a job of its own.              *)
Save(n) ==
    /\ valid[n] /= None
    /\ saved' = saved \cup {[by |-> n, ledger |-> valid[n], boot |-> boot[n]]}
    /\ UNCHANGED <<now, boot, enforcer, disallowed, valid, noted, signed, accepted>>

(* Restart, with setMaxDisallowedLedger(): the largest sequence number in  *)
(* the table, 0 if it is empty.                                            *)
Restart(n) ==
    LET rows == {0} \cup {Seq[r.ledger] : r \in {t \in saved : t.by = n}}
    IN  /\ boot[n] < MaxBoots
        /\ boot' = [boot EXCEPT ![n] = @ + 1]
        /\ enforcer' = [enforcer EXCEPT ![n] = NewEnforcer]
        /\ \E d \in rows : /\ \A e \in rows : e <= d
                           /\ disallowed' = [disallowed EXCEPT ![n] = d]
        /\ valid' = [valid EXCEPT ![n] = None]
        /\ noted' = [noted EXCEPT ![n] = None]
        /\ UNCHANGED <<now, saved, signed, accepted>>

Next ==
    \/ Tick
    \/ \E n \in Honest :
          \/ \E l \in Ledgers : Validate(n, l) \/ NoteQuorum(n, l) \/ checkAccept(n, l)
          \/ Save(n)
          \/ Restart(n)

Spec == Init /\ [][Next]_vars

(***************************************************************************)
(* Properties                                                              *)
(***************************************************************************)
(* The variables have the shapes of the members they model.                *)
TypeOK ==
    /\ now \in Times
    /\ boot \in [Honest -> Nat]
    /\ enforcer \in [Honest -> [seq : Nat, when : Times]]
    /\ disallowed \in [Honest -> Nat]
    /\ valid \in [Honest -> Ledgers \cup {None}]
    /\ noted \in [Honest -> Ledgers \cup {None}]
    /\ saved \subseteq [by : Honest, ledger : Ledgers, boot : Nat]
    /\ signed \subseteq [by : Honest, ledger : Ledgers, at : Times, boot : Nat]
    /\ accepted \in [Honest -> SUBSET Ledgers]

(* Two validations are by one process, and so near in time that its        *)
(* enforcer remembers the first when it meets the second.                  *)
Remembered(s, t) ==
    /\ s.boot = t.boot
    /\ s.at <= t.at + SetExpires /\ t.at <= s.at + SetExpires

(* Two nodes that take different ledgers of one sequence number as fully   *)
(* validated, at whatever time, owe it to an honest validator that signed  *)
(* both and had forgotten the first: over a restart, or after SetExpires   *)
(* (checkAccept, canValidateSeq, preStartRound).                           *)
ForkNeedsForgetting ==
    \A i, j \in Honest : \A l \in accepted[i], m \in accepted[j] :
        Seq[l] = Seq[m] /\ l /= m =>
            \E s, t \in signed : /\ s.by = t.by /\ s.ledger = l /\ t.ledger = m
                                 /\ ~Remembered(s, t)

(* "Ensure that a newly-started validator does not sign proposals older    *)
(* than the last ledger it persisted" (getMaxDisallowedLedger): whatever   *)
(* was saved before a restart, later validations are for larger sequence   *)
(* numbers, although the enforcer has forgotten them.                      *)
RestartKeepsOrder ==
    \A s \in signed, r \in saved :
        s.by = r.by /\ r.boot < s.boot => Seq[s.ledger] > Seq[r.ledger]
=============================================================================
