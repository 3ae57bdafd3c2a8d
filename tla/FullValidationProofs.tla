------------------------ MODULE FullValidationProofs ------------------------
(***************************************************************************)
(* Proofs about the network of validators (module FullValidation), for any *)
(* number of validators, trusted sets and quorums that overlap enough.     *)
(***************************************************************************)
EXTENDS FullValidation, FiniteSetTheorems, TLAPS

(* SeqEnforcer::operator() keeps an enforcer well formed.                  *)
LEMMA AdvanceType ==
    ASSUME NEW enf \in [seq : Nat, when : Times], NEW s \in Nat, now \in Times
    PROVE  Advance(enf, now, s) \in [seq : Nat, when : Times]
  BY DEF Advance, Advances, Largest

(* Every step keeps the variables well formed.                             *)
LEMMA NextTypeOK == ASSUME TypeOK, [Next]_vars PROVE TypeOK'
  <1> USE DEF TypeOK
  <1>1. CASE Tick
    <2>1. now' \in Times
      BY <1>1, NetworkAssumption DEF Tick, Times
    <2>2. QED
      BY <1>1, <2>1 DEF Tick
  <1>2. ASSUME NEW n \in Honest, NEW l \in Ledgers, Validate(n, l) PROVE TypeOK'
    <2>1. Advance(enforcer[n], now, Seq[l]) \in [seq : Nat, when : Times]
      BY AdvanceType, NetworkAssumption
    <2>2. enforcer' \in [Honest -> [seq : Nat, when : Times]]
      BY <1>2, <2>1 DEF Validate
    <2>3. signed' \subseteq [by : Honest, ledger : Ledgers, at : Times, boot : Nat]
      BY <1>2 DEF Validate
    <2>4. QED
      BY <1>2, <2>2, <2>3 DEF Validate
  <1>3. ASSUME NEW n \in Honest, NEW l \in Ledgers, NoteQuorum(n, l) PROVE TypeOK'
    BY <1>3 DEF NoteQuorum
  <1>4. ASSUME NEW n \in Honest, NEW l \in Ledgers, checkAccept(n, l) PROVE TypeOK'
    BY <1>4 DEF checkAccept
  <1>5. ASSUME NEW n \in Honest, Save(n) PROVE TypeOK'
    BY <1>5 DEF Save
  <1>6. ASSUME NEW n \in Honest, Restart(n) PROVE TypeOK'
    <2> DEFINE rows == {0} \cup {Seq[r.ledger] : r \in {t \in saved : t.by = n}}
    <2>1. rows \subseteq Nat
      <3>1. ASSUME NEW r \in saved PROVE Seq[r.ledger] \in Nat
        BY NetworkAssumption
      <3>2. QED
        BY <3>1
    <2>2. disallowed' \in [Honest -> Nat]
      <3>1. PICK d \in rows : disallowed' = [disallowed EXCEPT ![n] = d]
        BY <1>6, Zenon DEF Restart
      <3>2. QED
        BY <2>1, <3>1
    <2>3. enforcer' \in [Honest -> [seq : Nat, when : Times]]
      BY <1>6, NetworkAssumption DEF Restart, NewEnforcer, Times
    <2>4. QED
      BY <1>6, <2>2, <2>3 DEF Restart
  <1>7. CASE UNCHANGED vars
    BY <1>7 DEF vars
  <1>8. QED
    BY <1>1, <1>2, <1>3, <1>4, <1>5, <1>6, <1>7 DEF Next

(* The initial state is well formed.                                       *)
LEMMA InitTypeOK == ASSUME Init PROVE TypeOK
  BY NetworkAssumption DEF Init, TypeOK, Times, NewEnforcer

(* The variables of every validator keep the shapes of the members they    *)
(* model, in all runs of the network.                                      *)
THEOREM TypeCorrect == Spec => []TypeOK
  BY InitTypeOK, NextTypeOK, PTL DEF Spec

(***************************************************************************)
(* What an enforcer knows: it covers every validation its process signed   *)
(* in the last SetExpires. This is what makes NoDoubleSigning inductive.   *)
(***************************************************************************)
EnforcerCovers ==
    /\ \A n \in Honest : enforcer[n].when <= now
    /\ \A s \in signed :
        /\ s.boot <= boot[s.by]
        /\ s.boot = boot[s.by] =>
              /\ s.at <= enforcer[s.by].when
              /\ now <= s.at + SetExpires => Seq[s.ledger] <= enforcer[s.by].seq

NoDoubleSigning ==
    \A s, t \in signed :
        s.by = t.by /\ Seq[s.ledger] = Seq[t.ledger] /\ s.ledger /= t.ledger
        => ~Remembered(s, t)

(* Every ledger taken as fully validated still has its quorum.             *)
AcceptedHaveQuorum ==
    \A n \in Honest : \A l \in accepted[n] : HasQuorum(n, l)

Inv == TypeOK /\ EnforcerCovers /\ NoDoubleSigning /\ AcceptedHaveQuorum

(* Facts about the types of times and numbers.                             *)
LEMMA NumbersAreNat ==
    ASSUME TypeOK
    PROVE  /\ now \in Nat /\ SetExpires \in Nat
           /\ \A n \in Honest : /\ enforcer[n].seq \in Nat /\ enforcer[n].when \in Nat
                                 /\ boot[n] \in Nat
           /\ \A s \in signed : /\ s.by \in Honest /\ s.ledger \in Ledgers
                                 /\ s.at \in Nat /\ s.boot \in Nat
           /\ \A l \in Ledgers : Seq[l] \in Nat
  <1>1. Times \subseteq Nat
    BY NetworkAssumption DEF Times
  <1>2. QED
    BY <1>1, NetworkAssumption, SetExpiresAssumption, Zenon DEF TypeOK

(* More validations never undo a quorum.                                   *)
LEMMA QuorumsStay ==
    ASSUME TypeOK, signed \subseteq signed', NEW n \in Honest, NEW l \in Ledgers, HasQuorum(n, l)
    PROVE  HasQuorum(n, l)'
  <1>1. Signers(l) \cap UNL[n] \subseteq Signers(l)' \cap UNL[n]
    BY DEF Signers
  <1>2. UNL[n] \subseteq Validators /\ IsFiniteSet(Validators)
    BY NetworkAssumption
  <1>3. IsFiniteSet(Signers(l)' \cap UNL[n])
    BY <1>2, FS_Subset
  <1>4. /\ Cardinality(Signers(l) \cap UNL[n]) <= Cardinality(Signers(l)' \cap UNL[n])
        /\ IsFiniteSet(Signers(l) \cap UNL[n])
    BY <1>1, <1>3, FS_Subset
  <1>5. /\ Cardinality(Signers(l) \cap UNL[n]) \in Nat
        /\ Cardinality(Signers(l)' \cap UNL[n]) \in Nat
    BY <1>3, <1>4, FS_CardinalityType
  <1>6. Quorum[n] \in Nat
    BY NetworkAssumption
  <1>7. QED
    BY <1>4, <1>5, <1>6 DEF HasQuorum

(* The heart of the matter: what signing does to the enforcer and to the   *)
(* validations signed.                                                     *)
LEMMA ValidateCovers ==
    ASSUME Inv, NEW n \in Honest, NEW l \in Ledgers, Validate(n, l)
    PROVE  EnforcerCovers' /\ NoDoubleSigning'
  <1> DEFINE enf == enforcer[n]
  <1>1. /\ now' = now /\ now \in Nat /\ boot' = boot
        /\ enf.seq \in Nat /\ enf.when \in Nat /\ enf.when <= now
        /\ SetExpires \in Nat /\ Seq[l] \in Nat /\ boot[n] \in Nat
    BY NumbersAreNat DEF Validate, Inv, EnforcerCovers
  <1>2. /\ enforcer' = [enforcer EXCEPT ![n] = Advance(enf, now, Seq[l])]
        /\ enforcer \in [Honest -> [seq : Nat, when : Times]]
    BY DEF Validate, Inv, TypeOK
  <1>3. ASSUME NEW s \in signed, s.by = n, s.boot = boot[n], now <= s.at + SetExpires
        PROVE  Seq[s.ledger] <= Largest(enf, now)
    <2>1. s.at <= enf.when /\ Seq[s.ledger] <= enf.seq /\ s.at \in Nat
      BY <1>3, NumbersAreNat DEF Inv, EnforcerCovers
    <2>2. ~(now > enf.when + SetExpires)
      BY <1>1, <1>3, <2>1
    <2>3. QED
      BY <2>1, <2>2 DEF Largest
  <1>4. CASE ~Advances(enf, now, Seq[l])
    <2>1. signed' = signed
      BY <1>4 DEF Validate
    <2>2. enforcer'[n] = [seq |-> Largest(enf, now), when |-> enf.when]
      BY <1>1, <1>2, <1>4 DEF Advance
    <2>3. EnforcerCovers'
      BY <1>1, <1>2, <1>3, <2>1, <2>2 DEF Inv, EnforcerCovers
    <2>4. QED
      BY <2>1, <2>3 DEF Inv, NoDoubleSigning
  <1>5. CASE Advances(enf, now, Seq[l])
    <2> DEFINE new == [by |-> n, ledger |-> l, at |-> now, boot |-> boot[n]]
    <2>1. signed' = signed \cup {new}
      BY <1>5 DEF Validate
    <2>2. enforcer'[n] = [seq |-> Seq[l], when |-> now]
      BY <1>1, <1>2, <1>5 DEF Advance
    <2>3. Seq[l] > Largest(enf, now) /\ Largest(enf, now) \in Nat
      BY <1>1, <1>5 DEF Advances, Largest
    <2>4. ASSUME NEW s \in signed, s.by = n, Seq[s.ledger] = Seq[l]
          PROVE  ~Remembered(s, new) /\ ~Remembered(new, s)
      <3>1. s.at \in Nat /\ s.boot \in Nat
        BY NumbersAreNat DEF Inv
      <3>2. s.boot /= boot[n] \/ now > s.at + SetExpires
        BY <1>1, <1>3, <2>3, <2>4, <3>1
      <3>3. QED
        BY <1>1, <3>1, <3>2 DEF Remembered
    <2>5. new.by = n /\ new.ledger = l /\ new.at = now /\ new.boot = boot[n]
      OBVIOUS
    <2> HIDE DEF new
    <2>6. NoDoubleSigning'
      BY <2>1, <2>4, <2>5 DEF Inv, NoDoubleSigning, Remembered
    <2>7. EnforcerCovers'
      <3>1. ASSUME NEW m \in Honest PROVE enforcer'[m].when <= now'
        BY <1>1, <1>2, <2>2 DEF Inv, EnforcerCovers
      <3>2. ASSUME NEW s \in signed, s.boot = boot'[s.by]
            PROVE  /\ s.at <= enforcer'[s.by].when
                   /\ now' <= s.at + SetExpires => Seq[s.ledger] <= enforcer'[s.by].seq
        <4>1. /\ s.by \in Honest /\ s.at \in Nat /\ Seq[s.ledger] \in Nat
              /\ s.at <= enforcer[s.by].when
              /\ now <= s.at + SetExpires => Seq[s.ledger] <= enforcer[s.by].seq
          BY <1>1, <3>2, NumbersAreNat DEF Inv, EnforcerCovers
        <4>2. CASE s.by = n
          BY <4>1, <4>2, <3>2, <1>1, <1>3, <2>2, <2>3
        <4>3. CASE s.by /= n
          BY <4>1, <4>3, <1>1, <1>2
        <4>4. QED
          BY <4>2, <4>3
      <3>3. \A s \in signed : s.boot <= boot'[s.by]
        BY <1>1 DEF Inv, EnforcerCovers
      <3>4. /\ new.boot <= boot'[new.by]
            /\ new.at <= enforcer'[new.by].when
            /\ Seq[new.ledger] <= enforcer'[new.by].seq
        BY <1>1, <2>2, <2>5
      <3>5. QED
        BY <2>1, <3>1, <3>2, <3>3, <3>4 DEF EnforcerCovers
    <2>8. QED
      BY <2>6, <2>7
  <1>6. QED
    BY <1>4, <1>5

(* Time passing keeps what the enforcers know.                             *)
LEMMA TickCovers == ASSUME Inv, Tick PROVE EnforcerCovers' /\ NoDoubleSigning'
  <1>1. /\ now' = now + 1 /\ now \in Nat
        /\ signed' = signed /\ enforcer' = enforcer /\ boot' = boot
    BY NumbersAreNat DEF Tick, Inv
  <1>2. NoDoubleSigning'
    BY <1>1 DEF Inv, NoDoubleSigning
  <1>3. EnforcerCovers'
    BY <1>1, NumbersAreNat DEF Inv, EnforcerCovers
  <1>4. QED
    BY <1>2, <1>3

(* A restart empties the enforcer, and nothing is signed yet since.        *)
LEMMA RestartCovers ==
    ASSUME Inv, NEW n \in Honest, Restart(n)
    PROVE  EnforcerCovers' /\ NoDoubleSigning'
  <1>1. /\ now' = now /\ now \in Nat /\ signed' = signed
        /\ boot' = [boot EXCEPT ![n] = boot[n] + 1]
        /\ enforcer' = [enforcer EXCEPT ![n] = NewEnforcer]
    BY NumbersAreNat DEF Restart, Inv
  <1>2. NoDoubleSigning'
    BY <1>1 DEF Inv, NoDoubleSigning
  <1>3. ASSUME NEW m \in Honest PROVE enforcer'[m].when <= now'
    BY <1>1, <1>3 DEF Inv, EnforcerCovers, TypeOK, NewEnforcer
  <1>4. ASSUME NEW s \in signed
        PROVE  /\ s.boot <= boot'[s.by]
               /\ s.boot = boot'[s.by] =>
                     /\ s.at <= enforcer'[s.by].when
                     /\ now' <= s.at + SetExpires => Seq[s.ledger] <= enforcer'[s.by].seq
    <2>1. s.by \in Honest /\ s.boot \in Nat /\ boot[s.by] \in Nat /\ s.boot <= boot[s.by]
      BY NumbersAreNat DEF Inv, EnforcerCovers
    <2>2. CASE s.by = n
      <3>1. boot'[s.by] = boot[s.by] + 1
        BY <1>1, <2>1, <2>2 DEF Inv, TypeOK
      <3>2. QED
        BY <2>1, <3>1
    <2>3. CASE s.by /= n
      <3>1. boot'[s.by] = boot[s.by] /\ enforcer'[s.by] = enforcer[s.by]
        BY <1>1, <2>1, <2>3 DEF Inv, TypeOK
      <3>2. QED
        BY <1>1, <2>1, <3>1 DEF Inv, EnforcerCovers
    <2>4. QED
      BY <2>2, <2>3
  <1>5. QED
    BY <1>1, <1>2, <1>3, <1>4 DEF EnforcerCovers

(* Every step keeps the invariant.                                         *)
LEMMA NextInv == ASSUME Inv, [Next]_vars PROVE Inv'
  <1>1. TypeOK'
    BY NextTypeOK DEF Inv
  <1>2. EnforcerCovers' /\ NoDoubleSigning'
    <2>1. CASE Tick
      BY <2>1, TickCovers
    <2>2. ASSUME NEW n \in Honest, NEW l \in Ledgers, Validate(n, l)
          PROVE  EnforcerCovers' /\ NoDoubleSigning'
      BY <2>2, ValidateCovers
    <2>3. ASSUME NEW n \in Honest, Restart(n)
          PROVE  EnforcerCovers' /\ NoDoubleSigning'
      BY <2>3, RestartCovers
    <2>4. CASE UNCHANGED <<now, boot, enforcer, signed>>
      BY <2>4 DEF Inv, EnforcerCovers, NoDoubleSigning
    <2>5. QED
      BY <2>1, <2>2, <2>3, <2>4 DEF Next, vars, NoteQuorum, checkAccept, Save
  <1>3. signed \subseteq signed'
    BY Zenon DEF Next, vars, Tick, Validate, NoteQuorum, checkAccept, Save, Restart
  <1>4. AcceptedHaveQuorum'
    <2>1. ASSUME NEW n \in Honest, NEW l \in accepted[n] PROVE HasQuorum(n, l)'
      <3>1. l \in Ledgers /\ HasQuorum(n, l)
        BY DEF Inv, AcceptedHaveQuorum, TypeOK
      <3>2. QED
        BY <1>3, <3>1, QuorumsStay DEF Inv
    <2>2. ASSUME NEW n \in Honest, NEW l \in Ledgers, checkAccept(n, l)
          PROVE  AcceptedHaveQuorum'
      <3>1. HasQuorum(n, l)'
        BY <1>3, <2>2, QuorumsStay DEF Inv, checkAccept
      <3>2. accepted' = [accepted EXCEPT ![n] = accepted[n] \cup {l}]
        BY <2>2 DEF checkAccept
      <3>3. QED
        BY <2>1, <3>1, <3>2 DEF AcceptedHaveQuorum, Inv, TypeOK
    <2>3. CASE accepted' = accepted
      BY <2>1, <2>3 DEF AcceptedHaveQuorum
    <2>4. QED
      BY <2>2, <2>3, Zenon DEF Next, vars, Tick, Validate, NoteQuorum, Save, Restart
  <1>5. QED
    BY <1>1, <1>2, <1>4 DEF Inv

(* The invariant holds at first.                                           *)
LEMMA InitInv == ASSUME Init PROVE Inv
  <1>1. EnforcerCovers
    BY DEF Init, EnforcerCovers, NewEnforcer
  <1>2. QED
    BY <1>1, InitTypeOK DEF Init, Inv, NoDoubleSigning, AcceptedHaveQuorum

(* The quorums of two nodes have an honest validator in common.            *)
LEMMA HonestInBoth ==
    ASSUME NEW i \in Honest, NEW j \in Honest,
           NEW S \in SUBSET UNL[i], Cardinality(S) >= Quorum[i],
           NEW T \in SUBSET UNL[j], Cardinality(T) >= Quorum[j]
    PROVE  \E v \in Honest : v \in S /\ v \in T
  <1> SUFFICES ASSUME \A v \in Honest : ~(v \in S /\ v \in T) PROVE FALSE
    OBVIOUS
  <1>1. /\ IsFiniteSet(UNL[i] \cup UNL[j]) /\ IsFiniteSet(Faulty)
        /\ IsFiniteSet(S) /\ IsFiniteSet(T)
    <2>1. /\ UNL[i] \cup UNL[j] \in SUBSET Validators /\ Faulty \in SUBSET Validators
          /\ S \in SUBSET Validators /\ T \in SUBSET Validators
          /\ IsFiniteSet(Validators)
      BY NetworkAssumption
    <2>2. QED
      BY <2>1, FS_Subset
  <1>2. S \cap T \subseteq Faulty
    BY NetworkAssumption DEF Honest
  <1>3. /\ Cardinality(S \cap T) <= Cardinality(Faulty)
        /\ IsFiniteSet(S \cap T)
    BY <1>1, <1>2, FS_Subset
  <1>4. /\ Cardinality(S \cup T) <= Cardinality(UNL[i] \cup UNL[j])
        /\ IsFiniteSet(S \cup T)
    <2>1. S \cup T \in SUBSET (UNL[i] \cup UNL[j])
      OBVIOUS
    <2>2. QED
      BY <1>1, <2>1, FS_Subset
  <1>5. Cardinality(S \cup T) = Cardinality(S) + Cardinality(T) - Cardinality(S \cap T)
    BY <1>1, FS_Union
  <1>6. /\ Cardinality(S) \in Nat /\ Cardinality(T) \in Nat /\ Cardinality(S \cap T) \in Nat
        /\ Cardinality(S \cup T) \in Nat /\ Cardinality(Faulty) \in Nat
        /\ Cardinality(UNL[i] \cup UNL[j]) \in Nat
    BY <1>1, <1>3, <1>4, FS_CardinalityType
  <1>7. /\ Quorum[i] \in Nat /\ Quorum[j] \in Nat
        /\ Quorum[i] + Quorum[j] > Cardinality(UNL[i] \cup UNL[j]) + Cardinality(Faulty)
    BY NetworkAssumption, OverlapAssumption, Zenon
  <1>8. QED
    BY <1>3, <1>4, <1>5, <1>6, <1>7

(* The invariant says what a fork takes.                                   *)
LEMMA InvForbidsForks == ASSUME Inv PROVE ForkNeedsForgetting
  <1> SUFFICES ASSUME NEW i \in Honest, NEW j \in Honest,
                      NEW l \in accepted[i], NEW m \in accepted[j],
                      Seq[l] = Seq[m], l /= m
               PROVE  \E s, t \in signed : /\ s.by = t.by /\ s.ledger = l /\ t.ledger = m
                                           /\ ~Remembered(s, t)
    BY DEF ForkNeedsForgetting
  <1>1. PICK v \in Honest : v \in Signers(l) /\ v \in Signers(m)
    <2>1. HasQuorum(i, l) /\ HasQuorum(j, m)
      BY DEF Inv, AcceptedHaveQuorum
    <2>2. PICK v \in Honest : v \in Signers(l) \cap UNL[i] /\ v \in Signers(m) \cap UNL[j]
      BY <2>1, HonestInBoth DEF HasQuorum
    <2>3. QED
      BY <2>2
  <1>2. PICK s \in signed, t \in signed : s.by = v /\ t.by = v /\ s.ledger = l /\ t.ledger = m
    BY <1>1 DEF Signers, Honest
  <1>3. ~Remembered(s, t)
    BY <1>2 DEF Inv, NoDoubleSigning
  <1>4. QED
    BY <1>2, <1>3

(* Two different ledgers of one sequence number become fully validated, at *)
(* any nodes and at any times, only if an honest validator signed both,    *)
(* the second after a restart or after SetExpires.                         *)
THEOREM NoForkUnlessForgotten == Spec => []ForkNeedsForgetting
  BY InitInv, NextInv, InvForbidsForks, PTL DEF Spec

(***************************************************************************)
(* What a restart keeps: rows of earlier boots are below the limit.        *)
(***************************************************************************)
SavedBelowLimit ==
    /\ \A s \in signed : s.boot <= boot[s.by]
    /\ \A r \in saved :
        /\ r.boot <= boot[r.by]
        /\ r.boot < boot[r.by] => Seq[r.ledger] <= disallowed[r.by]

OrderInv == TypeOK /\ SavedBelowLimit /\ RestartKeepsOrder

(* Facts about the types of saved rows and limits.                         *)
LEMMA RowsAreNat ==
    ASSUME TypeOK
    PROVE  /\ \A r \in saved : /\ r.by \in Honest /\ r.ledger \in Ledgers
                                /\ r.boot \in Nat /\ Seq[r.ledger] \in Nat
           /\ \A n \in Honest : disallowed[n] \in Nat /\ boot[n] \in Nat
  BY NetworkAssumption DEF TypeOK

(* A restart raises the limit to all rows of the validator.                *)
LEMMA RestartOrder ==
    ASSUME OrderInv, NEW n \in Honest, Restart(n)
    PROVE  SavedBelowLimit' /\ RestartKeepsOrder'
  <1>1. /\ signed' = signed /\ saved' = saved
        /\ boot' = [boot EXCEPT ![n] = boot[n] + 1]
        /\ boot \in [Honest -> Nat] /\ disallowed \in [Honest -> Nat]
    BY DEF Restart, OrderInv, TypeOK
  <1>2. RestartKeepsOrder'
    BY <1>1 DEF OrderInv, RestartKeepsOrder
  <1>3. PICK d : /\ disallowed' = [disallowed EXCEPT ![n] = d]
                 /\ \A r \in saved : r.by = n => Seq[r.ledger] <= d
    BY Zenon DEF Restart
  <1>4. ASSUME NEW s \in signed PROVE s.boot <= boot'[s.by]
    <2>1. s.by \in Honest /\ s.boot \in Nat /\ boot[s.by] \in Nat /\ s.boot <= boot[s.by]
      BY NumbersAreNat DEF OrderInv, SavedBelowLimit
    <2>2. QED
      BY <1>1, <2>1
  <1>5. ASSUME NEW r \in saved
        PROVE  /\ r.boot <= boot'[r.by]
               /\ r.boot < boot'[r.by] => Seq[r.ledger] <= disallowed'[r.by]
    <2>1. /\ r.by \in Honest /\ r.boot \in Nat /\ boot[r.by] \in Nat
          /\ r.boot <= boot[r.by]
          /\ r.boot < boot[r.by] => Seq[r.ledger] <= disallowed[r.by]
      BY RowsAreNat DEF OrderInv, SavedBelowLimit
    <2>2. CASE r.by = n
      BY <1>1, <1>3, <2>1, <2>2
    <2>3. CASE r.by /= n
      BY <1>1, <1>3, <2>1, <2>3
    <2>4. QED
      BY <2>2, <2>3
  <1>6. QED
    BY <1>1, <1>2, <1>4, <1>5 DEF SavedBelowLimit

(* A validation that preStartRound() lets pass is above the limit.         *)
LEMMA ValidateOrder ==
    ASSUME OrderInv, NEW n \in Honest, NEW l \in Ledgers, Validate(n, l)
    PROVE  SavedBelowLimit' /\ RestartKeepsOrder'
  <1> DEFINE new == [by |-> n, ledger |-> l, at |-> now, boot |-> boot[n]]
  <1>1. /\ signed' \subseteq signed \cup {new} /\ saved' = saved
        /\ boot' = boot /\ disallowed' = disallowed
        /\ Seq[l] - 1 >= disallowed[n]
    BY DEF Validate, MayValidate
  <1>2. new.by = n /\ new.ledger = l /\ new.boot = boot[n]
    OBVIOUS
  <1> HIDE DEF new
  <1>3. boot[n] \in Nat /\ disallowed[n] \in Nat /\ Seq[l] \in Nat
    BY RowsAreNat, NumbersAreNat DEF OrderInv
  <1>4. SavedBelowLimit'
    BY <1>1, <1>2, <1>3 DEF OrderInv, SavedBelowLimit
  <1>5. ASSUME NEW r \in saved, r.by = n, r.boot < boot[n] PROVE Seq[l] > Seq[r.ledger]
    BY <1>1, <1>3, <1>5, RowsAreNat DEF OrderInv, SavedBelowLimit
  <1>6. RestartKeepsOrder'
    BY <1>1, <1>2, <1>5 DEF OrderInv, RestartKeepsOrder
  <1>7. QED
    BY <1>4, <1>6

(* A row that is saved belongs to the present boot.                        *)
LEMMA SaveOrder ==
    ASSUME OrderInv, NEW n \in Honest, Save(n)
    PROVE  SavedBelowLimit' /\ RestartKeepsOrder'
  <1> DEFINE new == [by |-> n, ledger |-> valid[n], boot |-> boot[n]]
  <1>1. /\ saved' = saved \cup {new} /\ signed' = signed
        /\ boot' = boot /\ disallowed' = disallowed
    BY DEF Save
  <1>2. new.by = n /\ new.boot = boot[n]
    OBVIOUS
  <1> HIDE DEF new
  <1>3. boot[n] \in Nat
    BY RowsAreNat DEF OrderInv
  <1>4. SavedBelowLimit'
    BY <1>1, <1>2, <1>3 DEF OrderInv, SavedBelowLimit
  <1>5. ASSUME NEW s \in signed, s.by = n PROVE ~(new.boot < s.boot)
    BY <1>2, <1>3, <1>5, NumbersAreNat DEF OrderInv, SavedBelowLimit
  <1>6. RestartKeepsOrder'
    BY <1>1, <1>2, <1>5 DEF OrderInv, RestartKeepsOrder
  <1>7. QED
    BY <1>4, <1>6

(* Every step keeps the order.                                             *)
LEMMA NextOrder == ASSUME OrderInv, [Next]_vars PROVE OrderInv'
  <1>1. TypeOK'
    BY NextTypeOK DEF OrderInv
  <1>2. CASE UNCHANGED <<boot, disallowed, saved, signed>>
    BY <1>1, <1>2 DEF OrderInv, SavedBelowLimit, RestartKeepsOrder
  <1>3. QED
    BY <1>1, <1>2, RestartOrder, ValidateOrder, SaveOrder
    DEF Next, vars, Tick, NoteQuorum, checkAccept, OrderInv

(* A validator never signs for a sequence number it had persisted before   *)
(* its last restart, nor for a smaller one.                                *)
THEOREM RestartedStaysAbove == Spec => []RestartKeepsOrder
  <1>1. ASSUME Init PROVE OrderInv
    BY <1>1, InitTypeOK DEF Init, OrderInv, SavedBelowLimit, RestartKeepsOrder
  <1>2. OrderInv => RestartKeepsOrder
    BY DEF OrderInv
  <1>3. QED
    BY <1>1, <1>2, NextOrder, PTL DEF Spec
=============================================================================
