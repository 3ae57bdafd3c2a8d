-------------------------- MODULE ValidationsProofs --------------------------
(***************************************************************************)
(* Proofs about the store of validations (module Validations), for every   *)
(* set of validators, ledgers and offered validations and all parameters.  *)
(*                                                                         *)
(* The store stays well formed (TypeOK).                                   *)
(* No equivocation is counted. The invariant that is inductive says what a *)
(* node's enforcer knows about its accepted validations: none is later     *)
(* than the enforcer's time, and those accepted within the last SetExpires *)
(* have no larger sequence number than the enforcer's.                     *)
(* Only who signed twice is accused: every sighting was offered            *)
(* (SeenWasOffered).                                                       *)
(* The flags of validations follow trustChanged(): FlagInv says which of   *)
(* them were looked up before, and which after, the last change.           *)
(* The support of the trie is neither lost nor left waiting: TrackInv says *)
(* of every current validation that its ledger is counted, or acquired.    *)
(***************************************************************************)
EXTENDS Validations, TLAPS

(* The sequence numbers of offered validations are natural numbers.        *)
LEMMA SeqsAreNat == Seqs \subseteq Nat
  BY OffersAssumption DEF Seqs

(* SeqEnforcer::operator() keeps an enforcer well formed.                  *)
LEMMA AdvanceType ==
    ASSUME NEW enf \in [seq : Nat, when : Times], NEW s \in Nat, now \in Times
    PROVE  Advance(enf, now, s) \in [seq : Nat, when : Times]
  BY DEF Advance, Advances, Largest

(* Taking support back (removeTrie) keeps last ledgers ledgers.            *)
LEMMA RemoveTrieType ==
    ASSUME NEW last \in [Nodes -> Ledgers \cup {None}], NEW V
    PROVE  RemoveTrie(last, V) \in [Nodes -> Ledgers \cup {None}]
  BY DEF RemoveTrie

(* Moving nodes to the ledgers of their validations (updateTrie) keeps     *)
(* last ledgers ledgers.                                                   *)
LEMMA MoveToType ==
    ASSUME NEW last \in [Nodes -> Ledgers \cup {None}],
           NEW V, \A v \in V : v.ledger \in Ledgers
    PROVE  MoveTo(last, V) \in [Nodes -> Ledgers \cup {None}]
  <1>1. ASSUME NEW n \in Nodes, NEW w \in V, w.node = n
        PROVE  (CHOOSE v \in V : v.node = n).ledger \in Ledgers
    <2>1. (CHOOSE v \in V : v.node = n) \in V
      BY <1>1
    <2>2. QED
      BY <2>1
  <1>2. QED
    BY <1>1 DEF MoveTo

(* Waits of validations that were offered are well formed.                 *)
LEMMA AwaitType ==
    ASSUME NEW acq \in SUBSET (Nodes \X Seqs \X Ledgers),
           NEW V \in SUBSET Validation
    PROVE  /\ AwaitLedgers(acq, V) \in SUBSET (Nodes \X Seqs \X Ledgers)
           /\ StillWaiting(acq) \in SUBSET (Nodes \X Seqs \X Ledgers)
           /\ RemoveAcquiring(acq, V) \in SUBSET (Nodes \X Seqs \X Ledgers)
  BY DEF AwaitLedgers, StillWaiting, RemoveAcquiring, Waits, Validation

(* The entries of current_ are validations.                                *)
LEMMA CurrentType ==
    ASSUME TypeOK
    PROVE  /\ Current \in SUBSET Validation
           /\ Stale \in SUBSET Validation
           /\ WithoutStale \in [Nodes -> Validation \cup {None}]
           /\ \A n \in Nodes : WithoutStale[n] /= None => WithoutStale[n].node = n
  BY DEF TypeOK, Current, Stale, WithoutStale

(* A flush keeps current_, lastLedger_ and acquiring_ well formed.         *)
LEMMA FlushType ==
    ASSUME TypeOK, Flush
    PROVE  /\ current' \in [Nodes -> Validation \cup {None}]
           /\ \A n \in Nodes : current'[n] /= None => current'[n].node = n
           /\ lastLedger' \in [Nodes -> Ledgers \cup {None}]
           /\ acquiring' \in SUBSET (Nodes \X Seqs \X Ledgers)
  BY CurrentType, RemoveTrieType, AwaitType, Zenon DEF Flush, TypeOK

(* The initial state is well formed.                                       *)
LEMMA InitTypeOK == ASSUME Init PROVE TypeOK
  BY ParmsAssumption DEF Init, TypeOK, Times, NewEnforcer

(* A record with the fields of a validation is one.                        *)
LEMMA ValidationType ==
    \A n \in Nodes, l \in Ledgers, s \in Seqs, g \in Nat, f, t \in BOOLEAN,
       a \in Times, c \in 0 .. MaxTrustChanges :
        [node |-> n, ledger |-> l, seq |-> s, signTime |-> g, full |-> f,
         trusted |-> t, seenTime |-> a, epoch |-> c] \in Validation
  BY DEF Validation

(* Replacing a node's current validation and moving its support keeps      *)
(* current_, lastLedger_ and acquiring_ well formed.                       *)
LEMMA ReplaceType ==
    ASSUME TypeOK, NEW v \in Validation, Replace(v)
    PROVE  /\ current' \in [Nodes -> Validation \cup {None}]
           /\ \A n \in Nodes : current'[n] /= None => current'[n].node = n
           /\ lastLedger' \in [Nodes -> Ledgers \cup {None}]
           /\ acquiring' \in SUBSET (Nodes \X Seqs \X Ledgers)
  <1> DEFINE old   == current[v.node]
             prior == IF old = None THEN {} ELSE {old}
             waits == RemoveAcquiring(acquiring, prior)
  <1>1. v.node \in Nodes /\ v.ledger \in Ledgers
    BY DEF Validation
  <1>2. prior \in SUBSET Validation
    BY <1>1 DEF TypeOK
  <1>3. waits \in SUBSET (Nodes \X Seqs \X Ledgers)
    BY <1>2, AwaitType, SMTT(30) DEF TypeOK
  <1>4. CASE old /= None /\ v.signTime <= old.signTime
    BY <1>4 DEF Replace, TypeOK, currVars
  <1>5. CASE ~(old /= None /\ v.signTime <= old.signTime)
    <2>1. current' = [current EXCEPT ![v.node] = v]
      BY <1>5 DEF Replace
    <2>2. lastLedger' \in [Nodes -> Ledgers \cup {None}]
      <3>1. CASE v.trusted
        <4>1. PICK r \in CheckAcquired(lastLedger, waits) : lastLedger' = MoveTo(r, {v})
          BY <1>5, <3>1 DEF Replace
        <4>2. r \in [Nodes -> Ledgers \cup {None}]
          BY DEF CheckAcquired
        <4>3. QED
          BY <4>1, <4>2, <1>1, MoveToType
      <3>2. CASE ~v.trusted
        BY <1>5, <3>2 DEF Replace, TypeOK
      <3>3. QED
        BY <3>1, <3>2
    <2>3. acquiring' \in SUBSET (Nodes \X Seqs \X Ledgers)
      <3>1. CASE v.trusted
        <4>1. acquiring' = AwaitLedgers(StillWaiting(waits), {v})
          BY <1>5, <3>1 DEF Replace
        <4>2. {v} \in SUBSET Validation
          OBVIOUS
        <4>3. QED
          BY <4>1, <4>2, <1>3, AwaitType, Zenon
      <3>2. CASE ~v.trusted
        BY <1>5, <3>2 DEF Replace, TypeOK
      <3>3. QED
        BY <3>1, <3>2
    <2>4. QED
      BY <2>1, <2>2, <2>3, <1>1, Zenon DEF TypeOK
  <1>6. QED
    BY <1>4, <1>5

(* What add() tracks under a sequence number is a sighting.                *)
LEMMA TrackedType ==
    ASSUME TypeOK, NEW v \in Validation
    PROVE  Tracked(v) \in Sighting
  <1> DEFINE old == {e \in bySequence : e.node = v.node /\ e.seq = v.seq}
             new == [node |-> v.node, seq |-> v.seq, ledger |-> v.ledger,
                     signTime |-> v.signTime]
  <1>1. new \in Sighting
    BY DEF Validation, Sighting
  <1>2. ASSUME NEW e \in old PROVE (CHOOSE f \in old : TRUE) \in Sighting
    <2>1. (CHOOSE f \in old : TRUE) \in old
      BY <1>2
    <2>2. QED
      BY <2>1 DEF TypeOK
  <1>3. QED
    BY <1>1, <1>2 DEF Tracked

(* What the proofs keep needing of the types.                              *)
LEMMA TypeParts ==
    ASSUME TypeOK
    PROVE  /\ trustChanges \in Nat /\ trustChanges \in Int
           /\ DOMAIN current = Nodes /\ byLedger \subseteq Entry
  <1>1. /\ trustChanges \in 0 .. MaxTrustChanges /\ byLedger \subseteq Entry
        /\ current \in [Nodes -> Validation \cup {None}]
    BY Zenon DEF TypeOK
  <1>2. DOMAIN current = Nodes
    BY <1>1, Zenon
  <1>3. trustChanges \in Nat /\ trustChanges \in Int
    BY <1>1
  <1>4. QED
    BY <1>1, <1>2, <1>3, Zenon

(* Adding a validation keeps the store well formed.                        *)
LEMMA AddType == ASSUME TypeOK, NEW v \in inflight, Add(v) PROVE TypeOK'
  <1>1. /\ v \in Validation
        /\ v.node \in Nodes /\ v.ledger \in Ledgers /\ v.seq \in Seqs
        /\ v.full \in BOOLEAN /\ v.trusted \in BOOLEAN
    BY DEF TypeOK, Validation
  <1>2. /\ bySequence' \in SUBSET Sighting
        /\ sequenceWhen' \in [Seqs -> Times]
    BY <1>1, TrackedType DEF Add, TypeOK
  <1>3. seqEnforcers' \in [Nodes -> [seq : Nat, when : Times]]
    <2>1. now \in Times /\ v.seq \in Nat
      BY <1>1, SeqsAreNat, Zenon DEF TypeOK
    <2>2. Advance(seqEnforcers[v.node], now, v.seq) \in [seq : Nat, when : Times]
      BY <1>1, <2>1, AdvanceType, Zenon DEF TypeOK
    <2>3. QED
      BY <1>1, <2>2 DEF Add, TypeOK
  <1>4. /\ byLedger' \in SUBSET Entry
        /\ ledgerWhen' \in [Ledgers -> Times]
        /\ current' \in [Nodes -> Validation \cup {None}]
        /\ \A n \in Nodes : current'[n] /= None => current'[n].node = n
        /\ lastLedger' \in [Nodes -> Ledgers \cup {None}]
        /\ acquiring' \in SUBSET (Nodes \X Seqs \X Ledgers)
    <2>1. CASE Advances(seqEnforcers[v.node], now, v.seq)
      <3>1. Record(v) /\ Replace(v)
        BY <2>1 DEF Add
      <3> DEFINE new == [node |-> v.node, ledger |-> v.ledger, seq |-> v.seq,
                         full |-> v.full, trusted |-> v.trusted, at |-> now,
                         raced |-> v.epoch < Applied]
      <3>2. new \in Entry
        <4>1. PICK r : r = (v.epoch < Applied)
          OBVIOUS
        <4>2. r \in BOOLEAN
          BY <4>1
        <4>3. now \in Times
          BY Zenon DEF TypeOK
        <4>4. [node |-> v.node, ledger |-> v.ledger, seq |-> v.seq, full |-> v.full,
               trusted |-> v.trusted, at |-> now, raced |-> r] \in Entry
          BY <1>1, <4>2, <4>3 DEF Entry
        <4>5. QED
          BY <4>1, <4>4, Zenon
      <3>3. /\ byLedger' = {e \in byLedger : e.node /= v.node \/ e.ledger /= v.ledger}
                           \cup {new}
            /\ ledgerWhen' \in [Ledgers -> Times]
        BY <3>1, <1>1 DEF Record, TypeOK
      <3> HIDE DEF new
      <3>5. byLedger' \in SUBSET Entry
        BY <3>2, <3>3 DEF TypeOK
      <3>4. QED
        BY <3>1, <3>3, <3>5, <1>1, ReplaceType
    <2>2. CASE ~Advances(seqEnforcers[v.node], now, v.seq)
      BY <2>2 DEF Add, TypeOK, currVars
    <2>3. QED
      BY <2>1, <2>2
  <1>5. QED
    BY <1>2, <1>3, <1>4 DEF Add, TypeOK, trustVars, sweepVars

(* Telling the store of a change of trust keeps it well formed.            *)
LEMMA TrustChangedType == ASSUME TypeOK, TrustChanged PROVE TypeOK'
  <1> DEFINE added   == {v \in Current : v.node \in trustPending.added}
             removed == {v \in Current : v.node \in trustPending.removed}
  <1>1. /\ added \in SUBSET Validation
        /\ removed \in SUBSET Validation
        /\ \A v \in added : v.ledger \in Ledgers
    BY CurrentType DEF Validation
  <1>2. /\ lastLedger' \in [Nodes -> Ledgers \cup {None}]
        /\ acquiring' \in SUBSET (Nodes \X Seqs \X Ledgers)
    <2>1. PICK first \in SUBSET removed :
            LET last0 == RemoveTrie(lastLedger, first)
                acq0  == RemoveAcquiring(acquiring, first)
                acq1  == AwaitLedgers(StillWaiting(acq0), added)
            IN  IF added = {}
                THEN lastLedger' = last0 /\ acquiring' = acq0
                ELSE /\ \E r \in CheckAcquired(last0, acq0) :
                          lastLedger' = RemoveTrie(MoveTo(r, added), removed \ first)
                     /\ acquiring' = RemoveAcquiring(acq1, removed \ first)
      BY Zenon DEF TrustChanged
    <2> DEFINE last0 == RemoveTrie(lastLedger, first)
               acq0  == RemoveAcquiring(acquiring, first)
               acq1  == AwaitLedgers(StillWaiting(acq0), added)
    <2>2. last0 \in [Nodes -> Ledgers \cup {None}]
      BY RemoveTrieType DEF TypeOK
    <2>3. acq0 \in SUBSET (Nodes \X Seqs \X Ledgers)
      <3>1. first \in SUBSET Validation
        BY <1>1
      <3>2. QED
        BY <3>1, AwaitType, Zenon DEF TypeOK
    <2>4. acq1 \in SUBSET (Nodes \X Seqs \X Ledgers)
      <3>1. StillWaiting(acq0) \in SUBSET (Nodes \X Seqs \X Ledgers)
        BY <2>3, <1>1, AwaitType
      <3>2. QED
        BY <3>1, <1>1, AwaitType, Zenon
    <2>5. RemoveAcquiring(acq1, removed \ first) \in SUBSET (Nodes \X Seqs \X Ledgers)
      <3>1. removed \ first \in SUBSET Validation
        BY <1>1
      <3>2. QED
        BY <3>1, <2>4, AwaitType
    <2>6. ASSUME NEW r \in CheckAcquired(last0, acq0)
          PROVE  RemoveTrie(MoveTo(r, added), removed \ first)
                    \in [Nodes -> Ledgers \cup {None}]
      <3>1. r \in [Nodes -> Ledgers \cup {None}]
        BY DEF CheckAcquired
      <3>2. MoveTo(r, added) \in [Nodes -> Ledgers \cup {None}]
        BY <3>1, <1>1, MoveToType
      <3>3. QED
        BY <3>2, RemoveTrieType, Zenon
    <2> HIDE DEF last0, acq0, acq1, added, removed
    <2>7. QED
      BY <2>1, <2>2, <2>3, <2>5, <2>6 DEF last0, acq0, acq1
  <1>3. ASSUME NEW v \in Validation PROVE Flagged(v) \in Validation /\ Flagged(v).node = v.node
    BY Zenon DEF Flagged, Validation
  <1>4. ASSUME NEW e \in Entry PROVE Flagged(e) \in Entry
    BY Zenon DEF Flagged, Entry
  <1>5. byLedger' \in SUBSET Entry
    <2>1. byLedger' = {Flagged(e) : e \in byLedger} /\ byLedger \in SUBSET Entry
      BY Zenon DEF TrustChanged, TypeOK
    <2>2. QED
      BY <1>4, <2>1
  <1>6. /\ current' \in [Nodes -> Validation \cup {None}]
        /\ \A n \in Nodes : current'[n] /= None => current'[n].node = n
    <2>1. ASSUME NEW n \in Nodes, current[n] /= None
          PROVE  Flagged(current[n]) \in Validation /\ Flagged(current[n]).node = n
      BY <2>1, <1>3 DEF TypeOK
    <2>2. current' = [n \in Nodes |-> IF current[n] = None THEN None ELSE Flagged(current[n])]
      BY Zenon DEF TrustChanged
    <2>3. QED
      BY <2>1, <2>2
  <1>7. QED
    BY <1>2, <1>5, <1>6 DEF TrustChanged, TypeOK, sweepVars

(* A sweep keeps the store well formed.                                    *)
LEMMA ExpireType == ASSUME TypeOK, Expire PROVE TypeOK'
  <1> DEFINE touched(S) == [l \in Ledgers |-> IF l \in S THEN now ELSE ledgerWhen[l]]
  <1>1. refreshTime' \in Nat
    <2>1. refreshTime' = refreshTime \/ refreshTime' = now + SetExpires - Freshness
      BY Zenon DEF Expire
    <2>2. refreshTime \in Nat /\ now \in Times
      BY Zenon DEF TypeOK
    <2>3. QED
      BY <2>1, <2>2, ParmsAssumption, SetExpiresAssumption DEF Times
  <1>2. ledgerWhen' \in [Ledgers -> Times]
    <2>1. \E S : ledgerWhen' = touched(S)
      BY Zenon DEF Expire
    <2>2. now \in Times /\ ledgerWhen \in [Ledgers -> Times]
      BY Zenon DEF TypeOK
    <2>3. QED
      BY <2>1, <2>2
  <1>3. sequenceWhen' \in [Seqs -> Times]
    BY Zenon DEF Expire, TypeOK
  <1>4. byLedger' \in SUBSET Entry /\ bySequence' \in SUBSET Sighting
    BY Zenon DEF Expire, TypeOK
  <1>5. QED
    BY <1>1, <1>2, <1>3, <1>4, Zenon DEF Expire, TypeOK, trustVars, currVars

(* Every step keeps the state well formed.                                 *)
LEMMA NextTypeOK == ASSUME TypeOK, [Next]_vars PROVE TypeOK'
  <1>1. CASE Tick
    <2>1. now' \in Times
      <3>1. now \in Times /\ now < MaxTime /\ now' = now + 1
        BY <1>1, Zenon DEF Tick, TypeOK
      <3>2. MaxTime \in Nat
        BY ParmsAssumption, Zenon
      <3>3. QED
        BY <3>1, <3>2 DEF Times
    <2>2. QED
      BY <1>1, <2>1, Zenon DEF Tick, TypeOK, trustVars, currVars, storeVars, sweepVars
  <1>2. ASSUME NEW l \in Ledgers, LedgerArrives(l) PROVE TypeOK'
    BY <1>2, Zenon DEF LedgerArrives, TypeOK, trustVars, currVars, storeVars, sweepVars
  <1>3. ASSUME NEW l \in Ledgers, QueryLedger(l) PROVE TypeOK'
    BY <1>3, Zenon DEF QueryLedger, TypeOK, trustVars, currVars, sweepVars
  <1>4. ASSUME NEW s \in LocalSeqs, CanValidateSeq(s) PROVE TypeOK'
    <2>1. localSeq' \in [seq : Nat, when : Times]
      BY <1>4, AdvanceType, OffersAssumption, Zenon DEF CanValidateSeq, TypeOK
    <2>2. QED
      BY <1>4, <2>1, Zenon DEF CanValidateSeq, TypeOK, trustVars, currVars, storeVars, sweepVars
  <1>5. ASSUME NEW o \in Offers, Receive(o) PROVE TypeOK'
    <2>1. inflight' \in SUBSET Validation
      <3>1. (o.node \in trusted) \in BOOLEAN
        OBVIOUS
      <3>2. o \in [node : Nodes, ledger : Ledgers, seq : Nat, signTime : Nat, full : BOOLEAN]
            /\ o.seq \in Seqs
        BY OffersAssumption DEF Seqs
      <3> DEFINE v == [node |-> o.node, ledger |-> o.ledger, seq |-> o.seq,
                       signTime |-> o.signTime, full |-> o.full,
                       trusted |-> o.node \in trusted, seenTime |-> now,
                       epoch |-> trustChanges]
      <3>3. v \in Validation
        <4>1. now \in Times /\ trustChanges \in 0 .. MaxTrustChanges
          BY Zenon DEF TypeOK
        <4>2. o.node \in Nodes /\ o.ledger \in Ledgers /\ o.signTime \in Nat
              /\ o.full \in BOOLEAN
          BY <3>2
        <4>3. QED
          BY <3>1, <3>2, <4>1, <4>2, ValidationType, Zenon
      <3>4. inflight' = inflight \cup {v}
        BY <1>5, Zenon DEF Receive
      <3> HIDE DEF v
      <3>5. QED
        BY <3>3, <3>4, Zenon DEF TypeOK
    <2>2. UNCHANGED <<now, trustVars, available, currVars, localSeq,
                      seqEnforcers, storeVars, sweepVars>>
      BY <1>5, Zenon DEF Receive
    <2>3. QED
      BY <2>1, <2>2, Zenon DEF TypeOK, trustVars, currVars, storeVars, sweepVars
  <1>6. ASSUME NEW v \in inflight, Add(v) PROVE TypeOK'
    BY <1>6, AddType
  <1>7. ASSUME NEW v \in inflight, DropStale(v) PROVE TypeOK'
    BY <1>7, Zenon DEF DropStale, TypeOK, trustVars, currVars, storeVars, sweepVars
  <1>8. ASSUME NEW S \in SUBSET Nodes, UpdateTrusted(S) PROVE TypeOK'
    <2>1. Flush
      BY <1>8, Zenon DEF UpdateTrusted
    <2>2. trustChanges' \in 0 .. MaxTrustChanges
      <3>1. trustChanges < MaxTrustChanges /\ trustChanges' = trustChanges + 1
        BY <1>8, Zenon DEF UpdateTrusted
      <3>2. trustChanges \in 0 .. MaxTrustChanges /\ MaxTrustChanges \in Nat
        BY ParmsAssumption, Zenon DEF TypeOK
      <3>3. QED
        BY <3>1, <3>2
    <2>3. QED
      BY <1>8, <2>1, <2>2, FlushType, Zenon DEF UpdateTrusted, TypeOK, storeVars, sweepVars
  <1>9. CASE TrustChanged
    BY <1>9, TrustChangedType
  <1>10. CASE QueryCurrent
    BY <1>10, FlushType, Zenon DEF QueryCurrent, TypeOK, trustVars, storeVars, sweepVars
  <1>11. CASE WithTrie
    <2>1. RemoveAcquiring(acquiring, Stale) \in SUBSET (Nodes \X Seqs \X Ledgers)
      BY CurrentType, AwaitType, Zenon DEF TypeOK
    <2>2. acquiring' \in SUBSET (Nodes \X Seqs \X Ledgers)
      BY <1>11, <2>1, CurrentType, AwaitType, Zenon DEF WithTrie
    <2>3. lastLedger' \in [Nodes -> Ledgers \cup {None}]
      BY <1>11, Zenon DEF WithTrie, CheckAcquired
    <2>4. current' = WithoutStale
      BY <1>11 DEF WithTrie
    <2>5. QED
      BY <1>11, <2>2, <2>3, <2>4, CurrentType, Zenon
      DEF WithTrie, TypeOK, trustVars, storeVars, sweepVars
  <1>12. ASSUME NEW r \in KeepRanges, SetSeqToKeep(r) PROVE TypeOK'
    BY <1>12, Zenon DEF SetSeqToKeep, TypeOK, trustVars, currVars, storeVars
  <1>13. CASE Expire
    BY <1>13, ExpireType
  <1>14. CASE UNCHANGED vars
    BY <1>14, Zenon DEF TypeOK, vars
  <1>15. QED
    BY <1>1, <1>2, <1>3, <1>4, <1>5, <1>6, <1>7, <1>8, <1>9, <1>10, <1>11,
       <1>12, <1>13, <1>14 DEF Next

(* The store stays well formed, whatever arrives and however the trusted   *)
(* set changes.                                                            *)
THEOREM TypeCorrect == Spec => []TypeOK
  BY InitTypeOK, NextTypeOK, PTL DEF Spec
-----------------------------------------------------------------------------

(* The enforcer of a node covers its accepted validations (SeqEnforcer).   *)
EnforcersCover ==
    /\ \A n \in Nodes : seqEnforcers[n].when <= now
    /\ \A e \in byLedger :
        /\ e.at <= seqEnforcers[e.node].when
        /\ now <= e.at + SetExpires => e.seq <= seqEnforcers[e.node].seq

Enforced == TypeOK /\ EnforcersCover /\ NoEquivocationCounted

(* Facts about the types of a store's times and numbers.                   *)
LEMMA NumbersAreNat ==
    ASSUME TypeOK
    PROVE  /\ now \in Nat
           /\ \A n \in Nodes : seqEnforcers[n].seq \in Nat /\ seqEnforcers[n].when \in Nat
           /\ \A e \in byLedger : /\ e.node \in Nodes /\ e.ledger \in Ledgers
                                   /\ e.seq \in Nat /\ e.at \in Nat
           /\ \A v \in inflight : v.node \in Nodes /\ v.ledger \in Ledgers /\ v.seq \in Nat
  <1>1. Times \subseteq Nat
    BY ParmsAssumption DEF Times
  <1>2. QED
    BY <1>1, SeqsAreNat, Zenon DEF TypeOK, Entry, Validation

(* A step that changes no clock and no enforcer, and adds no entry to      *)
(* byLedger_, keeps the enforcers' knowledge; flags may change.            *)
LEMMA FewerEntries ==
    ASSUME Enforced, TypeOK', UNCHANGED <<now, seqEnforcers>>,
           \A f \in byLedger' : \E e \in byLedger :
                /\ f.node = e.node /\ f.ledger = e.ledger
                /\ f.seq = e.seq /\ f.at = e.at
    PROVE  Enforced'
  <1>1. EnforcersCover'
    BY DEF Enforced, EnforcersCover
  <1>2. NoEquivocationCounted'
    <2>1. ASSUME NEW f \in byLedger', NEW g \in byLedger',
                 f.node = g.node, f.seq = g.seq, f.ledger /= g.ledger
          PROVE  f.at > g.at + SetExpires \/ g.at > f.at + SetExpires
      <3>1. PICK d \in byLedger : /\ f.node = d.node /\ f.ledger = d.ledger
                                  /\ f.seq = d.seq /\ f.at = d.at
        OBVIOUS
      <3>2. PICK e \in byLedger : /\ g.node = e.node /\ g.ledger = e.ledger
                                  /\ g.seq = e.seq /\ g.at = e.at
        OBVIOUS
      <3>3. d.at > e.at + SetExpires \/ e.at > d.at + SetExpires
        BY <2>1, <3>1, <3>2, Zenon DEF Enforced, NoEquivocationCounted
      <3>4. QED
        BY <3>1, <3>2, <3>3, Zenon
    <2>2. QED
      BY <2>1, Zenon DEF NoEquivocationCounted
  <1>3. QED
    BY <1>1, <1>2 DEF Enforced

(* Time passing keeps the enforcers' knowledge.                            *)
LEMMA TickEnforced == ASSUME Enforced, Tick PROVE EnforcersCover' /\ NoEquivocationCounted'
  <1>1. /\ now' = now + 1 /\ now \in Nat
        /\ byLedger' = byLedger /\ seqEnforcers' = seqEnforcers
    BY NumbersAreNat, Zenon DEF Tick, storeVars, Enforced
  <1>2. NoEquivocationCounted'
    BY <1>1 DEF Enforced, NoEquivocationCounted
  <1>3. EnforcersCover'
    <2>1. ASSUME NEW n \in Nodes PROVE seqEnforcers'[n].when <= now'
      <3>1. seqEnforcers[n].when <= now /\ seqEnforcers[n].when \in Nat
        BY NumbersAreNat, Zenon DEF Enforced, EnforcersCover
      <3>2. seqEnforcers[n].when <= now + 1
        BY <1>1, <3>1
      <3>3. QED
        BY <1>1, <3>2, Zenon
    <2>2. ASSUME NEW e \in byLedger
          PROVE  /\ e.at <= seqEnforcers[e.node].when
                 /\ now' <= e.at + SetExpires => e.seq <= seqEnforcers[e.node].seq
      <3>1. /\ e.at <= seqEnforcers[e.node].when /\ e.at \in Nat
            /\ now <= e.at + SetExpires => e.seq <= seqEnforcers[e.node].seq
        BY NumbersAreNat, Zenon DEF Enforced, EnforcersCover
      <3>2. now + 1 <= e.at + SetExpires => now <= e.at + SetExpires
        BY <1>1, <3>1, SetExpiresAssumption
      <3>3. QED
        BY <1>1, <3>1, <3>2, Zenon
    <2>3. QED
      BY <1>1, <2>1, <2>2, Zenon DEF EnforcersCover
  <1>4. QED
    BY <1>2, <1>3

LEMMA LeqTransitive ==
    ASSUME NEW a \in Nat, NEW b \in Nat, NEW c \in Nat, a <= b, b <= c \/ c > b
    PROVE  a <= c
  OBVIOUS

LEMMA StillInTime ==
    ASSUME NEW a \in Nat, NEW b \in Nat, NEW c \in Nat, NEW d \in Nat, a <= b + d, b <= c
    PROVE  ~(a > c + d)
  OBVIOUS

(* The heart of the matter: what add() does to the enforcer of v's node    *)
(* and to byLedger_.                                                       *)
LEMMA AddEnforced ==
    ASSUME Enforced, NEW v \in inflight, Add(v)
    PROVE  EnforcersCover' /\ NoEquivocationCounted'
  <1> DEFINE enf == seqEnforcers[v.node]
  <1>1. /\ now' = now /\ now \in Nat
        /\ v.node \in Nodes /\ v.ledger \in Ledgers /\ v.seq \in Nat
        /\ enf.seq \in Nat /\ enf.when \in Nat /\ enf.when <= now
        /\ SetExpires \in Nat
    BY NumbersAreNat, SetExpiresAssumption, Zenon DEF Add, Enforced, EnforcersCover
  <1>2. /\ seqEnforcers' = [seqEnforcers EXCEPT ![v.node] = Advance(enf, now, v.seq)]
        /\ seqEnforcers \in [Nodes -> [seq : Nat, when : Times]]
    BY Zenon DEF Add, Enforced, TypeOK
  <1>3. ASSUME NEW e \in byLedger, e.node = v.node, now <= e.at + SetExpires
        PROVE  e.seq <= Largest(enf, now)
    <2>1. e.at <= enf.when /\ e.seq <= enf.seq /\ e.at \in Nat
      BY <1>3, NumbersAreNat, Zenon DEF Enforced, EnforcersCover
    <2>2. ~(now > enf.when + SetExpires)
      BY <1>1, <1>3, <2>1, StillInTime, Zenon
    <2>3. QED
      BY <2>1, <2>2 DEF Largest
  <1>4. CASE ~Advances(enf, now, v.seq)
    <2>1. byLedger' = byLedger
      BY <1>4, Zenon DEF Add
    <2>2. /\ seqEnforcers'[v.node].seq = Largest(enf, now) /\ seqEnforcers'[v.node].when = enf.when
          /\ \A n \in Nodes : n # v.node => seqEnforcers'[n] = seqEnforcers[n]
      BY <1>1, <1>2, <1>4, Zenon DEF Advance
    <2>3. EnforcersCover'
      <3>1. ASSUME NEW n \in Nodes PROVE seqEnforcers'[n].when <= now'
        <4>1. seqEnforcers'[n].when = seqEnforcers[n].when
          BY <2>2, Zenon
        <4>2. QED
          BY <1>1, <4>1, Zenon DEF Enforced, EnforcersCover
      <3>2. ASSUME NEW e \in byLedger'
            PROVE  /\ e.at <= seqEnforcers'[e.node].when
                   /\ now' <= e.at + SetExpires => e.seq <= seqEnforcers'[e.node].seq
        <4>1. /\ e \in byLedger /\ e.node \in Nodes /\ e.at <= seqEnforcers[e.node].when
              /\ now <= e.at + SetExpires => e.seq <= seqEnforcers[e.node].seq
          BY <2>1, NumbersAreNat, Zenon DEF Enforced, EnforcersCover
        <4>2. CASE e.node = v.node
          BY <1>1, <1>3, <2>2, <4>1, <4>2, Zenon
        <4>3. CASE e.node # v.node
          BY <1>1, <2>2, <4>1, <4>3, Zenon
        <4>4. QED
          BY <4>2, <4>3, Zenon
      <3>3. QED
        BY <3>1, <3>2, Zenon DEF EnforcersCover
    <2>4. QED
      BY <2>1, <2>3 DEF Enforced, NoEquivocationCounted
  <1>5. CASE Advances(enf, now, v.seq)
    <2> DEFINE new == [node |-> v.node, ledger |-> v.ledger, seq |-> v.seq,
                       full |-> v.full, trusted |-> v.trusted, at |-> now,
                       raced |-> v.epoch < Applied]
               old == {e \in byLedger : e.node /= v.node \/ e.ledger /= v.ledger}
    <2>1. byLedger' = old \cup {new}
      BY <1>5, Zenon DEF Add, Record
    <2>2. new.node = v.node /\ new.ledger = v.ledger /\ new.seq = v.seq /\ new.at = now
      OBVIOUS
    <2> HIDE DEF new
    <2>3. /\ seqEnforcers'[v.node].seq = v.seq /\ seqEnforcers'[v.node].when = now
          /\ \A n \in Nodes : n # v.node => seqEnforcers'[n] = seqEnforcers[n]
      BY <1>1, <1>2, <1>5, Zenon DEF Advance
    <2>4. v.seq > Largest(enf, now)
      BY <1>5, Zenon DEF Advances
    <2>5. Largest(enf, now) \in Nat
      BY <1>1, Zenon DEF Largest
    <2>6. ASSUME NEW e \in byLedger, e.node = v.node, e.seq = v.seq
          PROVE  now > e.at + SetExpires
      <3>1. e.at \in Nat /\ ~(v.seq <= Largest(enf, now))
        <4>1. e.at \in Nat
          BY NumbersAreNat, Zenon DEF Enforced
        <4> HIDE DEF enf
        <4>2. QED
          BY <1>1, <2>4, <2>5, <4>1
      <3>2. ~(now <= e.at + SetExpires)
        BY <1>3, <2>6, <3>1, Zenon
      <3>3. now \in Nat /\ SetExpires \in Nat /\ e.at \in Nat
        BY <1>1, <3>1, Zenon
      <3> HIDE DEF enf, old
      <3>4. QED
        BY <3>2, <3>3
    <2>7. NoEquivocationCounted'
      <3>1. ASSUME NEW e \in old, NEW f \in old, e.node = f.node, e.seq = f.seq,
                   e.ledger /= f.ledger
            PROVE  e.at > f.at + SetExpires \/ f.at > e.at + SetExpires
        BY <3>1, Zenon DEF Enforced, NoEquivocationCounted
      <3>2. ASSUME NEW e \in old, e.node = new.node, e.seq = new.seq
            PROVE  new.at > e.at + SetExpires
        BY <2>2, <2>6, <3>2, Zenon
      <3>3. ASSUME NEW e \in byLedger', NEW f \in byLedger', e.node = f.node, e.seq = f.seq,
                   e.ledger /= f.ledger
            PROVE  e.at > f.at + SetExpires \/ f.at > e.at + SetExpires
        <4>1. (e \in old \/ e = new) /\ (f \in old \/ f = new)
          BY <2>1, Zenon
        <4>2. CASE e \in old /\ f \in old
          BY <3>1, <3>3, <4>2, Zenon
        <4>3. CASE e \in old /\ f = new
          BY <3>2, <3>3, <4>3, Zenon
        <4>4. CASE e = new /\ f \in old
          BY <3>2, <3>3, <4>4, Zenon
        <4>5. QED
          BY <3>3, <4>1, <4>2, <4>3, <4>4, Zenon
      <3>4. QED
        BY <3>3, Zenon DEF NoEquivocationCounted
    <2>8. EnforcersCover'
      <3>1. ASSUME NEW n \in Nodes PROVE seqEnforcers'[n].when <= now'
        <4>1. CASE n = v.node
          <5>1. now \in Nat /\ now' = now
            BY <1>1, Zenon
          <5>2. now <= now
            BY <5>1
          <5>3. QED
            BY <2>3, <4>1, <5>1, <5>2, Zenon
        <4>2. CASE n # v.node
          BY <1>1, <2>3, <4>2, Zenon DEF Enforced, EnforcersCover
        <4>3. QED
          BY <4>1, <4>2
      <3>2. ASSUME NEW e \in old
            PROVE  /\ e.at <= seqEnforcers'[e.node].when
                   /\ now' <= e.at + SetExpires => e.seq <= seqEnforcers'[e.node].seq
        <4>1. /\ e.node \in Nodes /\ e.seq \in Nat /\ e.at \in Nat
              /\ e.at <= seqEnforcers[e.node].when
              /\ now <= e.at + SetExpires => e.seq <= seqEnforcers[e.node].seq
          BY NumbersAreNat, Zenon DEF Enforced, EnforcersCover
        <4>2. CASE e.node = v.node
          <5>1. e.at <= enf.when /\ (now <= e.at + SetExpires => e.seq <= Largest(enf, now))
            BY <1>3, <4>1, <4>2, Zenon
          <5>2. e.at <= now /\ (now <= e.at + SetExpires => e.seq <= v.seq)
            <6>1. e.at <= now
              BY <1>1, <4>1, <5>1, LeqTransitive, Zenon
            <6>2. ASSUME now <= e.at + SetExpires PROVE e.seq <= v.seq
              BY <1>1, <2>4, <2>5, <4>1, <5>1, <6>2, LeqTransitive, Zenon
            <6>3. QED
              BY <6>1, <6>2, Zenon
          <5>3. QED
            BY <1>1, <2>3, <4>2, <5>2, Zenon
        <4>3. CASE e.node /= v.node
          BY <4>1, <4>3, <1>1, <2>3, Zenon
        <4>4. QED
          BY <4>2, <4>3, Zenon
      <3>3. /\ new.at <= seqEnforcers'[new.node].when
            /\ new.seq <= seqEnforcers'[new.node].seq
        <4>1. now <= now /\ v.seq <= v.seq
          BY <1>1
        <4>2. QED
          BY <2>2, <2>3, <4>1, Zenon
      <3>4. QED
        BY <2>1, <3>1, <3>2, <3>3, Zenon DEF EnforcersCover
    <2>9. QED
      BY <2>7, <2>8
  <1>6. QED
    BY <1>4, <1>5

(* Every step keeps the enforcers' knowledge.                              *)
LEMMA NextEnforced == ASSUME Enforced, [Next]_vars PROVE Enforced'
  <1>1. TypeOK'
    BY NextTypeOK DEF Enforced
  <1>2. CASE Tick
    BY <1>1, <1>2, TickEnforced DEF Enforced
  <1>3. ASSUME NEW v \in inflight, Add(v) PROVE Enforced'
    BY <1>1, <1>3, AddEnforced DEF Enforced
  <1>4. CASE TrustChanged
    <2>1. ASSUME NEW e \in byLedger
          PROVE  /\ Flagged(e).node = e.node /\ Flagged(e).ledger = e.ledger
                 /\ Flagged(e).seq = e.seq /\ Flagged(e).at = e.at
      BY DEF Flagged, Enforced, TypeOK, Entry
    <2>2. UNCHANGED <<now, seqEnforcers>> /\ byLedger' = {Flagged(e) : e \in byLedger}
      BY <1>4, Zenon DEF TrustChanged
    <2>3. QED
      BY <1>1, <2>1, <2>2, FewerEntries
  <1>5. CASE Expire
    <2>1. UNCHANGED <<now, seqEnforcers>> /\ byLedger' \subseteq byLedger
      BY <1>5, Zenon DEF Expire
    <2>2. QED
      BY <1>1, <2>1, FewerEntries
  <1>6. CASE UNCHANGED <<now, seqEnforcers, byLedger>>
    BY <1>1, <1>6, FewerEntries
  <1>7. QED
    BY <1>2, <1>3, <1>4, <1>5, <1>6, Zenon
    DEF Next, LedgerArrives, QueryLedger, CanValidateSeq, Receive, DropStale, UpdateTrusted,
        QueryCurrent, WithTrie, SetSeqToKeep, vars, storeVars

(* No validator's equivocation is counted, however its validations are     *)
(* delayed, repeated or reordered and however sets are touched, kept and   *)
(* expired (SeqEnforcer, add(), expire()).                                 *)
THEOREM EquivocationNotCounted == Spec => []NoEquivocationCounted
  <1>1. Init => Enforced
    <2>1. Init => EnforcersCover /\ NoEquivocationCounted
      <3> SUFFICES ASSUME Init PROVE EnforcersCover /\ NoEquivocationCounted
        OBVIOUS
      <3>1. now = 1 /\ byLedger = {} /\ \A n \in Nodes : seqEnforcers[n].when = 0
        BY Zenon DEF Init, NewEnforcer
      <3>2. QED
        BY <3>1 DEF EnforcersCover, NoEquivocationCounted
    <2>2. QED
      BY <2>1, InitTypeOK DEF Enforced
  <1>2. Enforced /\ [Next]_vars => Enforced'
    BY NextEnforced
  <1>3. Enforced => NoEquivocationCounted
    BY DEF Enforced
  <1>4. QED
    BY <1>1, <1>2, <1>3, PTL DEF Spec
-----------------------------------------------------------------------------
(* Trust, support and accusations. The steps are sorted by what they do to *)
(* the validations in flight, current_ and byLedger_.                      *)

(* The step is one of the queries and timers, or time passes.              *)
Quiet ==
    /\ inflight' \subseteq inflight /\ byLedger' \subseteq byLedger
    /\ bySequence' \subseteq bySequence
    /\ trusted' = trusted /\ trustPending' = trustPending
    /\ trustChanges' = trustChanges /\ crossed' = crossed
    /\ UNCHANGED currVars \/ Flush \/ WithTrie

LEMMA StepKinds ==
    ASSUME [Next]_vars
    PROVE  \/ \E o \in Offers : Receive(o)
           \/ \E v \in inflight : Add(v)
           \/ \E S \in SUBSET Nodes : UpdateTrusted(S)
           \/ TrustChanged
           \/ Quiet
  <1>1. CASE Tick
    BY <1>1 DEF Tick, Quiet, trustVars, storeVars
  <1>2. ASSUME NEW l \in Ledgers, LedgerArrives(l) PROVE Quiet
    BY <1>2 DEF LedgerArrives, Quiet, trustVars, storeVars
  <1>3. ASSUME NEW l \in Ledgers, QueryLedger(l) PROVE Quiet
    BY <1>3 DEF QueryLedger, Quiet, trustVars
  <1>4. ASSUME NEW s \in LocalSeqs, CanValidateSeq(s) PROVE Quiet
    BY <1>4 DEF CanValidateSeq, Quiet, trustVars, storeVars
  <1>5. ASSUME NEW v \in inflight, DropStale(v) PROVE Quiet
    BY <1>5 DEF DropStale, Quiet, trustVars, storeVars
  <1>6. CASE QueryCurrent
    BY <1>6 DEF QueryCurrent, Quiet, trustVars, storeVars
  <1>7. CASE WithTrie
    <2>1. UNCHANGED <<trustVars, inflight, storeVars>>
      BY <1>7 DEF WithTrie
    <2>2. QED
      BY <1>7, <2>1 DEF Quiet, trustVars, storeVars
  <1>8. ASSUME NEW r \in KeepRanges, SetSeqToKeep(r) PROVE Quiet
    BY <1>8 DEF SetSeqToKeep, Quiet, trustVars, storeVars
  <1>9. CASE Expire
    <2>1. UNCHANGED <<trustVars, inflight, currVars>>
      BY <1>9, Zenon DEF Expire
    <2>2. byLedger' \subseteq byLedger /\ bySequence' \subseteq bySequence
      BY <1>9, Zenon DEF Expire
    <2>3. QED
      BY <2>1, <2>2 DEF Quiet, trustVars
  <1>10. CASE UNCHANGED vars
    BY <1>10 DEF vars, Quiet, currVars
  <1>11. QED
    BY <1>1, <1>2, <1>3, <1>4, <1>5, <1>6, <1>7, <1>8, <1>9, <1>10, Zenon DEF Next

(* What the entries of current_ are, node by node.                         *)
LEMMA CurrentFacts ==
    ASSUME TypeOK
    PROVE  /\ \A v \in Current : v.node \in Nodes /\ current[v.node] = v /\ v # None
           /\ \A n \in Nodes : current[n] # None =>
                /\ current[n] \in Current /\ current[n].node = n
                /\ current[n].trusted \in BOOLEAN
           /\ \A n \in Nodes : current[n] \in Stale => current[n] # None
  <1>1. /\ current \in [Nodes -> Validation \cup {None}]
        /\ \A n \in Nodes : current[n] # None => current[n].node = n
    BY Zenon DEF TypeOK
  <1>2. \A n \in Nodes : current[n] # None => current[n] \in Current /\ current[n].node = n
    BY <1>1, Zenon DEF Current
  <1>3. ASSUME NEW v \in Current PROVE v.node \in Nodes /\ current[v.node] = v /\ v # None
    <2>1. PICK n \in Nodes : current[n] # None /\ v = current[n]
      BY <1>3, Zenon DEF Current
    <2>2. v.node = n
      BY <1>1, <2>1, Zenon
    <2>3. QED
      BY <2>1, <2>2, Zenon
  <1>4. ASSUME NEW n \in Nodes, current[n] # None PROVE current[n].trusted \in BOOLEAN
    <2>1. current[n] \in Validation
      BY <1>1, <1>4, Zenon
    <2>2. QED
      BY <2>1 DEF Validation
  <1>5. ASSUME NEW n \in Nodes, current[n] \in Stale PROVE current[n] # None
    BY <1>3, <1>5, Zenon DEF Stale
  <1>6. QED
    BY <1>2, <1>3, <1>4, <1>5, Zenon
-----------------------------------------------------------------------------
(* Accusations rest on what was signed.                                    *)

Offered(x) == \E o \in Offers : /\ o.node = x.node /\ o.seq = x.seq
                                /\ o.ledger = x.ledger /\ o.signTime = x.signTime
SeenWasOffered ==
    (\A v \in inflight : Offered(v)) /\ (\A e \in bySequence : Offered(e))

LEMMA TrackedWasOffered ==
    ASSUME SeenWasOffered, NEW v \in inflight
    PROVE  /\ Offered(Tracked(v)) /\ Tracked(v).node = v.node /\ Tracked(v).seq = v.seq
  <1> DEFINE old == {e \in bySequence : e.node = v.node /\ e.seq = v.seq}
             new == [node |-> v.node, seq |-> v.seq, ledger |-> v.ledger,
                     signTime |-> v.signTime]
  <1>1. CASE \E e \in old : v.signTime <= e.signTime + Wall
    <2>1. Tracked(v) = CHOOSE e \in old : TRUE
      BY <1>1, Zenon DEF Tracked
    <2>2. Tracked(v) \in old
      BY <1>1, <2>1, Zenon
    <2>3. Tracked(v) \in bySequence /\ Tracked(v).node = v.node /\ Tracked(v).seq = v.seq
      BY <2>2, Zenon
    <2>4. QED
      BY <2>3, Zenon DEF SeenWasOffered
  <1>2. CASE ~\E e \in old : v.signTime <= e.signTime + Wall
    <2>1. Tracked(v) = new
      BY <1>2, Zenon DEF Tracked
    <2>2. /\ new.node = v.node /\ new.seq = v.seq /\ new.ledger = v.ledger
          /\ new.signTime = v.signTime
      OBVIOUS
    <2> HIDE DEF new
    <2>3. Offered(v)
      BY Zenon DEF SeenWasOffered
    <2>4. QED
      BY <2>1, <2>2, <2>3, Zenon DEF Offered
  <1>3. QED
    BY <1>1, <1>2, Zenon

LEMMA InitSeen == ASSUME Init PROVE SeenWasOffered
  BY Zenon DEF Init, SeenWasOffered

LEMMA NextSeen == ASSUME SeenWasOffered, [Next]_vars PROVE SeenWasOffered'
  <1>1. ASSUME NEW o \in Offers, Receive(o) PROVE SeenWasOffered'
    <2>1. PICK v : /\ v = [node |-> o.node, ledger |-> o.ledger, seq |-> o.seq,
                           signTime |-> o.signTime, full |-> o.full,
                           trusted |-> o.node \in trusted, seenTime |-> now,
                           epoch |-> trustChanges]
                   /\ inflight' = inflight \cup {v}
      BY <1>1, Zenon DEF Receive
    <2>2. /\ v.node = o.node /\ v.ledger = o.ledger /\ v.seq = o.seq
          /\ v.signTime = o.signTime
      BY <2>1
    <2>3. Offered(v)
      BY <2>2, Zenon DEF Offered
    <2>4. bySequence' = bySequence
      BY <1>1 DEF Receive, storeVars
    <2>5. inflight' = inflight \cup {v}
      BY <2>1, Zenon
    <2>6. QED
      BY <2>3, <2>4, <2>5, Zenon DEF SeenWasOffered, Offered
  <1>2. ASSUME NEW v \in inflight, Add(v) PROVE SeenWasOffered'
    <2>1. /\ inflight' \subseteq inflight
          /\ bySequence' \subseteq bySequence \cup {Tracked(v)}
      BY <1>2, Zenon DEF Add
    <2>2. Offered(Tracked(v))
      BY TrackedWasOffered, Zenon
    <2>3. QED
      BY <2>1, <2>2, Zenon DEF SeenWasOffered, Offered
  <1>3. ASSUME NEW S \in SUBSET Nodes, UpdateTrusted(S) PROVE SeenWasOffered'
    <2>1. inflight' = inflight /\ bySequence' = bySequence
      BY <1>3 DEF UpdateTrusted, storeVars
    <2>2. QED
      BY <2>1, Zenon DEF SeenWasOffered, Offered
  <1>4. CASE TrustChanged
    <2>1. inflight' = inflight /\ bySequence' = bySequence
      BY <1>4, Zenon DEF TrustChanged
    <2>2. QED
      BY <2>1, Zenon DEF SeenWasOffered, Offered
  <1>5. CASE Quiet
    BY <1>5, Zenon DEF Quiet, SeenWasOffered, Offered
  <1>6. QED
    BY <1>1, <1>2, <1>3, <1>4, <1>5, StepKinds, Zenon

(* A validator is reported as conflicting only if it signed two different  *)
(* validations for one sequence number, whatever is lost, repeated or      *)
(* reordered on the way (the Byzantine detector of add()).                 *)
THEOREM OnlyTheGuiltyAccused == Spec => []NoFalseAccusation
  <1>1. SeenWasOffered => NoFalseAccusation
    <2>1. SUFFICES ASSUME SeenWasOffered, NEW v \in inflight, Refusal(v) = "Conflicting"
                   PROVE  \E o \in Offers : /\ o.node = v.node /\ o.seq = v.seq
                                            /\ o.ledger /= v.ledger \/ o.signTime /= v.signTime
      BY Zenon DEF NoFalseAccusation
    <2>2. Tracked(v).ledger /= v.ledger \/ Tracked(v).signTime /= v.signTime
      <3>1. "BadSeq" # "Conflicting"
        OBVIOUS
      <3>2. QED
        BY <2>1, <3>1, Zenon DEF Refusal
    <2>3. Offered(Tracked(v)) /\ Tracked(v).node = v.node /\ Tracked(v).seq = v.seq
      BY <2>1, TrackedWasOffered, Zenon
    <2>4. QED
      BY <2>2, <2>3, Zenon DEF Offered
  <1>2. SeenWasOffered /\ [Next]_vars => SeenWasOffered'
    BY NextSeen
  <1>3. QED
    BY <1>1, <1>2, InitSeen, PTL DEF Spec
-----------------------------------------------------------------------------
(* Trust flags.                                                            *)

(* The trusted set as the store knows it: without the outstanding change.  *)
Known ==
    IF trustPending = None THEN trusted
    ELSE (trusted \ trustPending.added) \cup trustPending.removed

Told ==
    trustPending # None =>
        /\ trustChanges >= 1
        /\ trustPending.added \subseteq trusted
        /\ trustPending.removed \cap trusted = {}

(* What the flag of a validation in flight says: the trusted set at the    *)
(* time of the lookup, which is the present or the known one if the epoch  *)
(* is.                                                                     *)
LookedUp ==
    \A v \in inflight :
        /\ v.epoch <= trustChanges
        /\ v.epoch = trustChanges => (v.trusted <=> v.node \in trusted)
        /\ v.epoch = Applied => (v.trusted <=> v.node \in Known)

Affected(n) == trustPending # None /\ n \in trustPending.added \cup trustPending.removed

EntryFlags ==
    \A e \in byLedger :
        e.raced \/ Affected(e.node) \/ (e.trusted <=> e.node \in trusted)

CurrentFlags ==
    \A n \in Nodes \ crossed :
        current[n] # None => (current[n].trusted <=> n \in Known)

FlagInv == Told /\ LookedUp /\ EntryFlags /\ CurrentFlags

LEMMA InitFlags == ASSUME Init PROVE FlagInv
  <1>1. /\ trustPending = None /\ inflight = {} /\ byLedger = {}
        /\ current = [n \in Nodes |-> None]
    BY Zenon DEF Init
  <1>2. QED
    BY <1>1, Zenon DEF FlagInv, Told, LookedUp, EntryFlags, CurrentFlags

(* A validation or entry after the change is applied to its flag.          *)
LEMMA FlaggedFacts ==
    ASSUME NEW v, v \in Validation \/ v \in Entry, trustPending # None, Told
    PROVE  /\ Flagged(v).node = v.node /\ Flagged(v).ledger = v.ledger
           /\ Flagged(v).seq = v.seq
           /\ v \in Entry => Flagged(v).raced = v.raced
           /\ v.node \in trustPending.added => (Flagged(v).trusted <=> TRUE)
           /\ v.node \in trustPending.removed => (Flagged(v).trusted <=> FALSE)
           /\ ~Affected(v.node) => Flagged(v) = v
  <1>1. ~(v.node \in trustPending.added /\ v.node \in trustPending.removed)
    BY Zenon DEF Told
  <1>2. CASE v.node \in trustPending.added
    <2>1. Flagged(v) = [v EXCEPT !.trusted = TRUE]
      BY <1>1, <1>2, Zenon DEF Flagged
    <2>2. v \in Entry => /\ [v EXCEPT !.trusted = TRUE].node = v.node
                         /\ [v EXCEPT !.trusted = TRUE].ledger = v.ledger
                         /\ [v EXCEPT !.trusted = TRUE].seq = v.seq
                         /\ [v EXCEPT !.trusted = TRUE].raced = v.raced
                         /\ [v EXCEPT !.trusted = TRUE].trusted = TRUE
      BY DEF Entry
    <2>3. v \notin Entry => /\ [v EXCEPT !.trusted = TRUE].node = v.node
                         /\ [v EXCEPT !.trusted = TRUE].ledger = v.ledger
                         /\ [v EXCEPT !.trusted = TRUE].seq = v.seq
                         /\ [v EXCEPT !.trusted = TRUE].trusted = TRUE
      BY DEF Validation
    <2>4. Affected(v.node)
      BY <1>2, Zenon DEF Affected
    <2>5. QED
      BY <1>1, <1>2, <2>1, <2>2, <2>3, <2>4, Zenon
  <1>3. CASE v.node \in trustPending.removed
    <2>1. Flagged(v) = [v EXCEPT !.trusted = FALSE]
      BY <1>1, <1>3, Zenon DEF Flagged
    <2>2. v \in Entry => /\ [v EXCEPT !.trusted = FALSE].node = v.node
                         /\ [v EXCEPT !.trusted = FALSE].ledger = v.ledger
                         /\ [v EXCEPT !.trusted = FALSE].seq = v.seq
                         /\ [v EXCEPT !.trusted = FALSE].raced = v.raced
                         /\ [v EXCEPT !.trusted = FALSE].trusted = FALSE
      BY DEF Entry
    <2>3. v \notin Entry => /\ [v EXCEPT !.trusted = FALSE].node = v.node
                         /\ [v EXCEPT !.trusted = FALSE].ledger = v.ledger
                         /\ [v EXCEPT !.trusted = FALSE].seq = v.seq
                         /\ [v EXCEPT !.trusted = FALSE].trusted = FALSE
      BY DEF Validation
    <2>4. Affected(v.node)
      BY <1>3, Zenon DEF Affected
    <2>5. QED
      BY <1>1, <1>3, <2>1, <2>2, <2>3, <2>4, Zenon
  <1>4. CASE v.node \notin trustPending.added /\ v.node \notin trustPending.removed
    <2>1. Flagged(v) = v
      BY <1>4, Zenon DEF Flagged
    <2>2. QED
      BY <1>4, <2>1, Zenon
  <1>5. QED
    BY <1>2, <1>3, <1>4, Zenon

LEMMA ReceiveFlags ==
    ASSUME TypeOK, FlagInv, NEW o \in Offers, Receive(o) PROVE FlagInv'
  <1>1. PICK v : /\ v = [node |-> o.node, ledger |-> o.ledger, seq |-> o.seq,
                         signTime |-> o.signTime, full |-> o.full,
                         trusted |-> o.node \in trusted, seenTime |-> now,
                         epoch |-> trustChanges]
                 /\ inflight' = inflight \cup {v}
    BY Zenon DEF Receive
  <1>2. v.node = o.node /\ v.epoch = trustChanges /\ v.trusted = (o.node \in trusted)
    BY <1>1
  <1>3. inflight' = inflight \cup {v}
    BY <1>1, Zenon
  <1>4. /\ trusted' = trusted /\ trustPending' = trustPending
        /\ trustChanges' = trustChanges /\ crossed' = crossed
        /\ byLedger' = byLedger /\ current' = current
    BY DEF Receive, trustVars, storeVars, currVars
  <1>5. Known' = Known /\ Applied' = Applied
    BY <1>4, Zenon DEF Known, Applied
  <1>6. v.epoch = Applied => trustPending = None
    <2>1. trustChanges \in Int
      BY TypeParts, Zenon
    <2>2. QED
      BY <1>2, <2>1 DEF Applied
  <1>7. LookedUp'
    <2>1. trustChanges <= trustChanges
      <3>1. trustChanges \in Int
        BY TypeParts, Zenon
      <3>2. QED
        BY <3>1
    <2>2. v.trusted <=> v.node \in trusted
      BY <1>2
    <2>3. v.epoch = Applied => (v.trusted <=> v.node \in Known)
      BY <1>6, <2>2, Zenon DEF Known
    <2>4. v.epoch <= trustChanges
      BY <1>2, <2>1, Zenon
    <2>5. LookedUp
      BY Zenon DEF FlagInv
    <2>6. QED
      BY <1>3, <1>4, <1>5, <2>2, <2>3, <2>4, <2>5, Zenon DEF LookedUp
  <1>8. QED
    BY <1>4, <1>5, <1>7, Zenon DEF FlagInv, Told, EntryFlags, CurrentFlags, Affected

LEMMA EpochsAreInt ==
    ASSUME TypeOK PROVE trustChanges \in Int /\ \A v \in inflight : v.epoch \in Int
  <1>1. inflight \subseteq Validation /\ trustChanges \in 0 .. MaxTrustChanges
    BY Zenon DEF TypeOK
  <1>2. \A v \in Validation : v.epoch \in 0 .. MaxTrustChanges
    BY Zenon DEF Validation
  <1>3. \A i \in 0 .. MaxTrustChanges : i \in Int
    OBVIOUS
  <1>4. QED
    BY <1>1, <1>2, <1>3, Zenon

(* The entry add() writes says what its validation did.                    *)
LEMMA NewEntryFlag ==
    ASSUME TypeOK, FlagInv, NEW v \in inflight
    PROVE  \/ v.epoch < Applied
           \/ Affected(v.node)
           \/ v.trusted <=> v.node \in trusted
  <1>1. v.epoch \in Int /\ trustChanges \in Int
    BY EpochsAreInt, Zenon
  <1>2. /\ v.epoch <= trustChanges
        /\ v.epoch = trustChanges => (v.trusted <=> v.node \in trusted)
        /\ v.epoch = Applied => (v.trusted <=> v.node \in Known)
    BY Zenon DEF FlagInv, LookedUp
  <1>3. v.epoch < Applied \/ v.epoch = Applied \/ v.epoch = trustChanges
    BY <1>1, <1>2 DEF Applied
  <1>4. ~Affected(v.node) => (v.node \in Known <=> v.node \in trusted)
    BY Zenon DEF Affected, Known
  <1>5. QED
    BY <1>2, <1>3, <1>4, Zenon

LEMMA AddFlags ==
    ASSUME TypeOK, FlagInv, NEW v \in inflight, Add(v) PROVE FlagInv'
  <1>1. /\ trusted' = trusted /\ trustPending' = trustPending
        /\ trustChanges' = trustChanges /\ inflight' \subseteq inflight
        /\ crossed' = IF v.epoch = Applied THEN crossed ELSE crossed \cup {v.node}
    BY DEF Add
  <1>2. Known' = Known /\ Applied' = Applied
    BY <1>1, Zenon DEF Known, Applied
  <1>3. v.node \in Nodes
    BY DEF TypeOK, Validation
  <1>4. LookedUp'
    BY <1>1, <1>2, Zenon DEF FlagInv, LookedUp
  <1>5. EntryFlags'
    <2>1. EntryFlags
      BY Zenon DEF FlagInv
    <2>2. CASE Advances(seqEnforcers[v.node], now, v.seq)
      <3>1. PICK x : /\ x = [node |-> v.node, ledger |-> v.ledger, seq |-> v.seq,
                             full |-> v.full, trusted |-> v.trusted, at |-> now,
                             raced |-> v.epoch < Applied]
                     /\ byLedger' \subseteq byLedger \cup {x}
        BY <2>2, Zenon DEF Add, Record
      <3>2. x.node = v.node /\ x.trusted = v.trusted /\ x.raced = (v.epoch < Applied)
        BY <3>1
      <3>3. v.epoch < Applied => x.raced
        BY <3>2
      <3>4. x.raced \/ Affected(x.node) \/ (x.trusted <=> x.node \in trusted)
        BY <3>2, <3>3, NewEntryFlag, Zenon
      <3>5. byLedger' \subseteq byLedger \cup {x}
        BY <3>1, Zenon
      <3>6. QED
        BY <1>1, <2>1, <3>4, <3>5, Zenon DEF EntryFlags, Affected
    <2>3. CASE ~Advances(seqEnforcers[v.node], now, v.seq)
      <3>1. byLedger' = byLedger
        BY <2>3 DEF Add
      <3>2. QED
        BY <1>1, <2>1, <3>1, Zenon DEF EntryFlags, Affected
    <2>4. QED
      BY <2>2, <2>3, Zenon
  <1>6. CurrentFlags'
    <2>1. current' = current \/ current' = [current EXCEPT ![v.node] = v]
      <3>1. CASE Advances(seqEnforcers[v.node], now, v.seq)
        <4>1. Replace(v)
          BY <3>1, Zenon DEF Add
        <4>2. UNCHANGED currVars => current' = current
          BY DEF currVars
        <4>3. QED
          BY <4>1, <4>2, Zenon DEF Replace
      <3>2. CASE ~Advances(seqEnforcers[v.node], now, v.seq)
        BY <3>2 DEF Add, currVars
      <3>3. QED
        BY <3>1, <3>2, Zenon
    <2>2. SUFFICES ASSUME NEW n \in Nodes, n \notin crossed', current'[n] # None
                   PROVE  current'[n].trusted <=> n \in Known
      BY <1>2, Zenon DEF CurrentFlags
    <2>3. n \notin crossed /\ (n = v.node => v.epoch = Applied)
      BY <1>1, <2>2, Zenon
    <2>4. current[n] # None => (current[n].trusted <=> n \in Known)
      BY <2>3, Zenon DEF FlagInv, CurrentFlags
    <2>5. current'[n] = current[n] \/ (n = v.node /\ current'[n] = v)
      <3>1. DOMAIN current = Nodes
        BY TypeParts, Zenon
      <3>2. QED
        BY <1>3, <2>1, <3>1
    <2>6. v.epoch = Applied => (v.trusted <=> v.node \in Known)
      BY Zenon DEF FlagInv, LookedUp
    <2>7. QED
      BY <2>2, <2>3, <2>4, <2>5, <2>6, Zenon
  <1>7. QED
    BY <1>1, <1>4, <1>5, <1>6, Zenon DEF FlagInv, Told

LEMMA FlushedFacts ==
    ASSUME TypeOK, current' = WithoutStale
    PROVE  \A n \in Nodes : current'[n] # None => current'[n] = current[n]
  BY Zenon DEF WithoutStale

LEMMA UpdateTrustedFlags ==
    ASSUME TypeOK, FlagInv, NEW S \in SUBSET Nodes, UpdateTrusted(S) PROVE FlagInv'
  <1>1. /\ trustPending = None /\ trusted' = S /\ trustChanges' = trustChanges + 1
        /\ crossed' = crossed /\ inflight' = inflight /\ byLedger' = byLedger
        /\ current' = WithoutStale
    BY DEF UpdateTrusted, Flush, storeVars
  <1>2. trustPending' = [added |-> S \ trusted, removed |-> trusted \ S]
    BY DEF UpdateTrusted
  <1>3. trustPending'.added = S \ trusted /\ trustPending'.removed = trusted \ S
    BY <1>2
  <1>4. trustPending' # None
    <2>1. [added |-> S \ trusted, removed |-> trusted \ S]
            \in [added : SUBSET Nodes, removed : SUBSET Nodes]
      <3>1. trusted \subseteq Nodes
        BY Zenon DEF TypeOK
      <3>2. QED
        BY <3>1
    <2>2. QED
      BY <1>2, <2>1, OffersAssumption, Zenon
  <1>5. trustChanges \in Nat
    BY TypeParts, Zenon
  <1>6. Known' = Known
    <2>1. (S \ (S \ trusted)) \cup (trusted \ S) = trusted
      OBVIOUS
    <2>2. Known' = (trusted' \ trustPending'.added) \cup trustPending'.removed
      BY <1>4, Zenon DEF Known
    <2>3. Known = trusted
      BY <1>1, Zenon DEF Known
    <2>4. QED
      BY <1>1, <1>3, <2>1, <2>2, <2>3, Zenon
  <1>7. Applied' = Applied /\ Applied = trustChanges
    BY <1>1, <1>4, <1>5 DEF Applied
  <1>8. Told'
    <2>1. trustChanges' >= 1
      BY <1>1, <1>5
    <2>2. S \ trusted \subseteq S /\ (trusted \ S) \cap S = {}
      OBVIOUS
    <2>3. QED
      BY <1>1, <1>3, <2>1, <2>2, Zenon DEF Told
  <1>9. LookedUp'
    <2>1. ASSUME NEW v \in inflight
          PROVE  /\ v.epoch <= trustChanges' /\ v.epoch # trustChanges'
                 /\ v.epoch = Applied => (v.trusted <=> v.node \in Known)
      <3>1. /\ v.epoch <= trustChanges
            /\ v.epoch = Applied => (v.trusted <=> v.node \in Known)
        BY Zenon DEF FlagInv, LookedUp
      <3>2. v.epoch \in Int
        BY EpochsAreInt, Zenon
      <3>3. v.epoch <= trustChanges' /\ v.epoch # trustChanges'
        BY <1>1, <1>5, <3>1, <3>2
      <3>4. QED
        BY <3>1, <3>3, Zenon
    <2>2. QED
      BY <1>1, <1>6, <1>7, <2>1, Zenon DEF LookedUp
  <1>10. EntryFlags'
    <2>1. ASSUME NEW e \in byLedger
          PROVE  e.raced \/ Affected(e.node)' \/ (e.trusted <=> e.node \in trusted')
      <3>1. e.raced \/ (e.trusted <=> e.node \in trusted)
        BY <1>1, Zenon DEF FlagInv, EntryFlags, Affected
      <3>2. e.node \in trustPending'.added \cup trustPending'.removed
            \/ (e.node \in trusted <=> e.node \in trusted')
        BY <1>1, <1>3, Zenon
      <3>3. QED
        BY <1>4, <3>1, <3>2, Zenon DEF Affected
    <2>2. QED
      BY <1>1, <2>1, Zenon DEF EntryFlags, Affected
  <1>11. CurrentFlags'
    BY <1>1, <1>6, FlushedFacts, Zenon DEF FlagInv, CurrentFlags
  <1>12. QED
    BY <1>8, <1>9, <1>10, <1>11, Zenon DEF FlagInv

LEMMA TrustChangedFlags ==
    ASSUME TypeOK, FlagInv, TrustChanged PROVE FlagInv'
  <1>1. /\ trustPending # None /\ trustPending' = None /\ trusted' = trusted
        /\ trustChanges' = trustChanges /\ crossed' = crossed /\ inflight' = inflight
        /\ byLedger' = {Flagged(e) : e \in byLedger}
        /\ current' = [n \in Nodes |->
                         IF current[n] = None THEN None ELSE Flagged(current[n])]
    BY Zenon DEF TrustChanged
  <1>2. Told /\ LookedUp /\ EntryFlags /\ CurrentFlags
    BY Zenon DEF FlagInv
  <1>3. Known' = trusted /\ Applied' = trustChanges
    BY <1>1, Zenon DEF Known, Applied
  <1>4. LookedUp'
    BY <1>1, <1>2, <1>3, Zenon DEF LookedUp
  <1>5. EntryFlags'
    <2>1. ASSUME NEW e \in byLedger
          PROVE  Flagged(e).raced \/ (Flagged(e).trusted <=> Flagged(e).node \in trusted)
      <3>1. e \in Entry
        BY TypeParts, Zenon
      <3>2. /\ Flagged(e).node = e.node /\ Flagged(e).raced = e.raced
            /\ e.node \in trustPending.added => (Flagged(e).trusted <=> TRUE)
            /\ e.node \in trustPending.removed => (Flagged(e).trusted <=> FALSE)
            /\ ~Affected(e.node) => Flagged(e) = e
        BY <1>1, <1>2, <3>1, FlaggedFacts, Zenon
      <3>3. CASE Affected(e.node)
        BY <1>2, <3>2, <3>3, Zenon DEF Affected, Told
      <3>4. CASE ~Affected(e.node)
        BY <1>2, <3>2, <3>4, Zenon DEF EntryFlags
      <3>5. QED
        BY <3>3, <3>4, Zenon
    <2>2. QED
      BY <1>1, <2>1, Zenon DEF EntryFlags
  <1>6. CurrentFlags'
    <2>1. SUFFICES ASSUME NEW n \in Nodes, n \notin crossed, current'[n] # None
                   PROVE  current'[n].trusted <=> n \in trusted
      BY <1>1, <1>3, Zenon DEF CurrentFlags
    <2>2. current[n] # None /\ current'[n] = Flagged(current[n])
      BY <1>1, <2>1, Zenon
    <2>3. current[n] \in Validation /\ current[n].node = n
      BY <2>2, Zenon DEF TypeOK
    <2>4. /\ n \in trustPending.added => (Flagged(current[n]).trusted <=> TRUE)
          /\ n \in trustPending.removed => (Flagged(current[n]).trusted <=> FALSE)
          /\ ~Affected(n) => Flagged(current[n]) = current[n]
      BY <1>1, <1>2, <2>3, FlaggedFacts, Zenon
    <2>5. current[n].trusted <=> n \in Known
      BY <1>2, <2>1, <2>2, Zenon DEF CurrentFlags
    <2>6. CASE Affected(n)
      BY <1>2, <2>2, <2>4, <2>6, Zenon DEF Affected, Told
    <2>7. CASE ~Affected(n)
      BY <1>1, <2>2, <2>4, <2>5, <2>7, Zenon DEF Affected, Known
    <2>8. QED
      BY <2>6, <2>7, Zenon
  <1>7. QED
    BY <1>1, <1>4, <1>5, <1>6, Zenon DEF FlagInv, Told

LEMMA QuietFlags ==
    ASSUME TypeOK, FlagInv, Quiet PROVE FlagInv'
  <1>1. /\ inflight' \subseteq inflight /\ byLedger' \subseteq byLedger
        /\ trusted' = trusted /\ trustPending' = trustPending
        /\ trustChanges' = trustChanges /\ crossed' = crossed
    BY Zenon DEF Quiet
  <1>2. \A n \in Nodes : current'[n] # None => current'[n] = current[n]
    <2>1. UNCHANGED currVars => current' = current
      BY DEF currVars
    <2>2. current' = current \/ current' = WithoutStale
      BY <2>1, Zenon DEF Quiet, Flush, WithTrie
    <2>3. QED
      BY <2>2, FlushedFacts, Zenon
  <1>3. Known' = Known /\ Applied' = Applied
    BY <1>1, Zenon DEF Known, Applied
  <1>4. LookedUp'
    BY <1>1, <1>3, Zenon DEF FlagInv, LookedUp
  <1>5. EntryFlags'
    BY <1>1, Zenon DEF FlagInv, EntryFlags, Affected
  <1>6. CurrentFlags'
    BY <1>1, <1>2, <1>3, Zenon DEF FlagInv, CurrentFlags
  <1>7. QED
    BY <1>1, <1>4, <1>5, <1>6, Zenon DEF FlagInv, Told

LEMMA NextFlags == ASSUME TypeOK, FlagInv, [Next]_vars PROVE FlagInv'
  BY StepKinds, ReceiveFlags, AddFlags, UpdateTrustedFlags, TrustChangedFlags,
     QuietFlags, Zenon

(* Whenever no change of the trusted set is outstanding the flag of every  *)
(* validation in byLedger_ is the present trust in its signer, unless its  *)
(* trust was looked up before a change the store then knew of              *)
(* (trustChanged, handleNewValidation).                                    *)
THEOREM FlagsAreCurrent == Spec => []FlagsFollowTrust
  <1>1. TypeOK /\ FlagInv => FlagsFollowTrust
    <2>1. SUFFICES ASSUME TypeOK, FlagInv, trustPending = None, NEW e \in byLedger
                   PROVE  e.raced \/ e.trusted = (e.node \in trusted)
      BY Zenon DEF FlagsFollowTrust
    <2>2. e.raced \/ (e.trusted <=> e.node \in trusted)
      BY <2>1, Zenon DEF FlagInv, EntryFlags, Affected
    <2>3. e.trusted \in BOOLEAN
      BY <2>1 DEF TypeOK, Entry
    <2>4. QED
      BY <2>2, <2>3
  <1>2. TypeOK /\ FlagInv /\ [Next]_vars => FlagInv'
    BY NextFlags
  <1>3. QED
    BY <1>1, <1>2, InitFlags, TypeCorrect, PTL DEF Spec
-----------------------------------------------------------------------------
(* Support: a node's tip in the trie and what it waits for.                *)

(* Node n counts for the ledger of the wait t: it is the node's tip or is  *)
(* waited for, and the node waits for nothing else.                        *)
CountsFor(n, t, last, acq) ==
    /\ last[n] = t[3] \/ t \in acq
    /\ \A u \in acq : u[1] = n => u = t

NoWait(n, acq) == \A u \in acq : u[1] # n

Counted(n) == current[n] # None /\ current[n].trusted

(* The inductive invariant behind CurrentIsTracked and WaitingIsCurrent.   *)
TrackInv ==
    \A n \in Nodes \ crossed :
        /\ Counted(n) => CountsFor(n, Waits(current[n]), lastLedger, acquiring)
        /\ ~Counted(n) => NoWait(n, acquiring)

LEMMA WaitsParts ==
    ASSUME NEW v PROVE Waits(v)[1] = v.node /\ Waits(v)[3] = v.ledger
  BY DEF Waits

LEMMA NoWaitShrinks ==
    ASSUME NEW n, NEW a, NEW b, NoWait(n, a), b \subseteq a PROVE NoWait(n, b)
  BY Zenon DEF NoWait

(* removeTrie() of other nodes' validations.                               *)
LEMMA RemoveOthers ==
    ASSUME NEW n \in Nodes, NEW V, \A v \in V : v.node # n, NEW last, NEW acq, NEW t,
           CountsFor(n, t, last, acq), t[1] = n
    PROVE  CountsFor(n, t, RemoveTrie(last, V), RemoveAcquiring(acq, V))
  <1>1. RemoveTrie(last, V)[n] = last[n]
    BY Zenon DEF RemoveTrie
  <1>2. t \notin {Waits(v) : v \in V}
    BY WaitsParts, Zenon
  <1>3. RemoveAcquiring(acq, V) \subseteq acq /\ (t \in acq => t \in RemoveAcquiring(acq, V))
    BY <1>2, Zenon DEF RemoveAcquiring
  <1>4. QED
    BY <1>1, <1>3, Zenon DEF CountsFor

(* removeTrie() of the one validation a node waits for.                    *)
LEMMA RemoveOwn ==
    ASSUME NEW n \in Nodes, NEW V, NEW c \in V, NEW acq,
           \A u \in acq : u[1] = n => u = Waits(c)
    PROVE  NoWait(n, RemoveAcquiring(acq, V))
  BY Zenon DEF NoWait, RemoveAcquiring

(* checkAcquired().                                                        *)
LEMMA AcquiredCounts ==
    ASSUME NEW n \in Nodes, NEW last, NEW acq, NEW t, CountsFor(n, t, last, acq),
           t[1] = n, NEW r \in CheckAcquired(last, acq)
    PROVE  CountsFor(n, t, r, StillWaiting(acq))
  <1>1. IF Arrived(acq, n) = {} THEN r[n] = last[n] ELSE r[n] \in Arrived(acq, n)
    BY Zenon DEF CheckAcquired
  <1>2. \A u \in StillWaiting(acq) : u[1] = n => u = t
    BY Zenon DEF StillWaiting, CountsFor
  <1>3. CASE Arrived(acq, n) = {}
    <2>1. r[n] = last[n]
      BY <1>1, <1>3, Zenon
    <2>2. t \in acq => t \in StillWaiting(acq)
      BY <1>3, Zenon DEF Arrived, StillWaiting
    <2>3. QED
      BY <1>2, <2>1, <2>2, Zenon DEF CountsFor
  <1>4. CASE Arrived(acq, n) # {}
    <2>1. PICK u \in acq : u[1] = n /\ r[n] = u[3]
      BY <1>1, <1>4, Zenon DEF Arrived
    <2>2. u = t
      BY <2>1, Zenon DEF CountsFor
    <2>3. QED
      BY <1>2, <2>1, <2>2, Zenon DEF CountsFor
  <1>5. QED
    BY <1>3, <1>4, Zenon

(* updateTrie() for other nodes' validations.                              *)
LEMMA MoveOthers ==
    ASSUME NEW n \in Nodes, NEW V, \A v \in V : v.node # n, NEW last, NEW acq, NEW t,
           CountsFor(n, t, last, acq)
    PROVE  CountsFor(n, t, MoveTo(last, V), AwaitLedgers(acq, V))
  <1>1. MoveTo(last, V)[n] = last[n]
    BY Zenon DEF MoveTo
  <1>2. \A u \in AwaitLedgers(acq, V) : u[1] = n => u \in acq
    BY WaitsParts, Zenon DEF AwaitLedgers
  <1>3. acq \subseteq AwaitLedgers(acq, V)
    BY Zenon DEF AwaitLedgers
  <1>4. QED
    BY <1>1, <1>2, <1>3, Zenon DEF CountsFor

LEMMA AwaitOthers ==
    ASSUME NEW n, NEW V, \A v \in V : v.node # n, NEW acq, NoWait(n, acq)
    PROVE  NoWait(n, AwaitLedgers(acq, V))
  BY WaitsParts, Zenon DEF AwaitLedgers, NoWait

(* updateTrie() for a node that waits for nothing yet.                     *)
LEMMA MoveOwn ==
    ASSUME NEW n \in Nodes, NEW V, NEW c \in V, c.node = n,
           \A v \in V : v.node = n => v = c, NEW last, NEW acq, NoWait(n, acq)
    PROVE  CountsFor(n, Waits(c), MoveTo(last, V), AwaitLedgers(acq, V))
  <1>1. (CHOOSE v \in V : v.node = n) = c
    <2>1. /\ (CHOOSE v \in V : v.node = n) \in V
          /\ (CHOOSE v \in V : v.node = n).node = n
      BY Zenon
    <2>2. QED
      BY <2>1, Zenon
  <1>2. \A u \in AwaitLedgers(acq, V) : u[1] = n => u = Waits(c)
    <2>1. SUFFICES ASSUME NEW u \in AwaitLedgers(acq, V), u[1] = n PROVE u = Waits(c)
      BY Zenon
    <2>2. PICK w \in V : u = Waits(w)
      BY <2>1, Zenon DEF AwaitLedgers, NoWait
    <2>3. w.node = n
      BY <2>1, <2>2, WaitsParts, Zenon
    <2>4. QED
      BY <2>2, <2>3, Zenon
  <1>3. CASE c.ledger \in available
    <2>1. MoveTo(last, V)[n] = c.ledger
      BY <1>1, <1>3, Zenon DEF MoveTo
    <2>2. QED
      BY <1>2, <2>1, WaitsParts, Zenon DEF CountsFor
  <1>4. CASE c.ledger \notin available
    <2>1. Waits(c) \in AwaitLedgers(acq, V)
      BY <1>4, Zenon DEF AwaitLedgers
    <2>2. QED
      BY <1>2, <2>1, Zenon DEF CountsFor
  <1>5. QED
    BY <1>3, <1>4, Zenon

LEMMA InitTrack == ASSUME Init PROVE TrackInv
  <1>1. acquiring = {} /\ \A n \in Nodes : current[n] = None
    BY Zenon DEF Init
  <1>2. QED
    BY <1>1, Zenon DEF TrackInv, Counted, NoWait

LEMMA KeptTrack ==
    ASSUME TrackInv, UNCHANGED currVars, crossed \subseteq crossed' PROVE TrackInv'
  <1>1. current' = current /\ lastLedger' = lastLedger /\ acquiring' = acquiring
    BY DEF currVars
  <1>2. QED
    BY <1>1, Zenon DEF TrackInv, Counted, CountsFor, NoWait

(* current(): what flushing leaves of a node's support.                    *)
LEMMA FlushCounts ==
    ASSUME TypeOK, TrackInv, current' = WithoutStale, NEW n \in Nodes, n \notin crossed
    PROVE  /\ Counted(n)' =>
                /\ CountsFor(n, Waits(current'[n]), RemoveTrie(lastLedger, Stale),
                             RemoveAcquiring(acquiring, Stale))
                /\ current'[n].node = n
           /\ ~Counted(n)' => NoWait(n, RemoveAcquiring(acquiring, Stale))
  <1>1. current'[n] = IF current[n] \in Stale THEN None ELSE current[n]
    BY Zenon DEF WithoutStale
  <1>2. /\ Counted(n) => CountsFor(n, Waits(current[n]), lastLedger, acquiring)
        /\ ~Counted(n) => NoWait(n, acquiring)
    BY Zenon DEF TrackInv
  <1>3. RemoveAcquiring(acquiring, Stale) \subseteq acquiring
    BY Zenon DEF RemoveAcquiring
  <1>4. Counted(n)' <=> current'[n] # None /\ current'[n].trusted
    BY Zenon DEF Counted
  <1>5. CASE current[n] \in Stale
    <2>1. ~Counted(n)'
      BY <1>1, <1>4, <1>5, Zenon
    <2>2. NoWait(n, RemoveAcquiring(acquiring, Stale))
      <3>1. CASE Counted(n)
        <4>1. \A u \in acquiring : u[1] = n => u = Waits(current[n])
          BY <1>2, <3>1, Zenon DEF CountsFor
        <4>2. QED
          BY <1>5, <4>1, RemoveOwn, Zenon
      <3>2. CASE ~Counted(n)
        BY <1>2, <1>3, <3>2, NoWaitShrinks, Zenon
      <3>3. QED
        BY <3>1, <3>2, Zenon
    <2>3. QED
      BY <2>1, <2>2, Zenon
  <1>6. CASE current[n] \notin Stale
    <2>1. current'[n] = current[n]
      BY <1>1, <1>6, Zenon
    <2>2. Counted(n)' <=> Counted(n)
      BY <1>4, <2>1, Zenon DEF Counted
    <2>3. \A v \in Stale : v.node # n
      BY <1>6, CurrentFacts, Zenon DEF Stale
    <2>4. ASSUME Counted(n)
          PROVE  /\ CountsFor(n, Waits(current[n]), RemoveTrie(lastLedger, Stale),
                              RemoveAcquiring(acquiring, Stale))
                 /\ current[n].node = n
      <3>1. current[n].node = n
        BY <2>4, CurrentFacts, Zenon DEF Counted
      <3>2. Waits(current[n])[1] = n
        BY <3>1, WaitsParts, Zenon
      <3>3. QED
        BY <1>2, <2>3, <2>4, <3>1, <3>2, RemoveOthers, Zenon
    <2>5. ~Counted(n) => NoWait(n, RemoveAcquiring(acquiring, Stale))
      BY <1>2, <1>3, NoWaitShrinks, Zenon
    <2>6. QED
      BY <2>1, <2>2, <2>4, <2>5, Zenon
  <1>7. QED
    BY <1>5, <1>6, Zenon

LEMMA FlushTrack ==
    ASSUME TypeOK, TrackInv, Flush, crossed' = crossed PROVE TrackInv'
  <1>1. /\ current' = WithoutStale
        /\ lastLedger' = RemoveTrie(lastLedger, Stale)
        /\ acquiring' = RemoveAcquiring(acquiring, Stale)
    BY Zenon DEF Flush
  <1>2. ASSUME NEW n \in Nodes, n \notin crossed
        PROVE  /\ Counted(n)' => CountsFor(n, Waits(current'[n]), lastLedger', acquiring')
               /\ ~Counted(n)' => NoWait(n, acquiring')
    BY <1>1, <1>2, FlushCounts, Zenon
  <1>3. Nodes \ crossed' = Nodes \ crossed
    BY Zenon
  <1>4. \A n \in Nodes \ crossed' :
           /\ Counted(n)' => CountsFor(n, Waits(current'[n]), lastLedger', acquiring')
           /\ ~Counted(n)' => NoWait(n, acquiring')
    BY <1>2, <1>3, Zenon
  <1>5. QED
    BY <1>4, Zenon DEF TrackInv, Counted, CountsFor, NoWait, Waits

LEMMA WithTrieTrack ==
    ASSUME TypeOK, TrackInv, WithTrie PROVE TrackInv'
  <1>1. crossed' = crossed
    BY DEF WithTrie, trustVars
  <1>2. PICK last, acq :
           /\ last = RemoveTrie(lastLedger, Stale)
           /\ acq = RemoveAcquiring(acquiring, Stale)
    BY Zenon
  <1>3. /\ current' = WithoutStale
        /\ lastLedger' \in CheckAcquired(last, acq)
        /\ acquiring' = StillWaiting(acq)
    BY <1>2, Zenon DEF WithTrie
  <1>4. ASSUME NEW n \in Nodes, n \notin crossed
        PROVE  /\ Counted(n)' => CountsFor(n, Waits(current'[n]), lastLedger', acquiring')
               /\ ~Counted(n)' => NoWait(n, acquiring')
    <2>1. /\ Counted(n)' => /\ CountsFor(n, Waits(current'[n]), last, acq)
                            /\ current'[n].node = n
          /\ ~Counted(n)' => NoWait(n, acq)
      BY <1>2, <1>3, <1>4, FlushCounts, Zenon
    <2>2. Counted(n)' => Waits(current'[n])[1] = n
      BY <2>1, WaitsParts, Zenon
    <2>3. Counted(n)' => CountsFor(n, Waits(current'[n]), lastLedger', StillWaiting(acq))
      BY <1>3, <2>1, <2>2, AcquiredCounts, Zenon
    <2>4. StillWaiting(acq) \subseteq acq
      BY Zenon DEF StillWaiting
    <2>5. ~Counted(n)' => NoWait(n, StillWaiting(acq))
      BY <2>1, <2>4, NoWaitShrinks, Zenon
    <2>6. QED
      BY <1>3, <2>3, <2>5, Zenon
  <1>5. \A n \in Nodes \ crossed' :
           /\ Counted(n)' => CountsFor(n, Waits(current'[n]), lastLedger', acquiring')
           /\ ~Counted(n)' => NoWait(n, acquiring')
    BY <1>1, <1>4, Zenon
  <1>6. QED
    BY <1>5, Zenon DEF TrackInv, Counted, CountsFor, NoWait, Waits

(* The validation add() puts in current_ is not None.                      *)
LEMMA ValidationIsNotNone == ASSUME NEW v \in Validation PROVE v # None
  <1>1. Seqs \subseteq Nat
    BY OffersAssumption DEF Seqs
  <1>2. v \in [node : Nodes, ledger : Ledgers, seq : Nat, signTime : Nat,
               full : BOOLEAN, trusted : BOOLEAN, seenTime : Nat, epoch : Nat]
    <2>1. Times \subseteq Nat /\ 0 .. MaxTrustChanges \subseteq Nat
      BY DEF Times
    <2>2. PICK T, E : T = Times /\ E = 0 .. MaxTrustChanges
      BY Zenon
    <2>3. v \in [node : Nodes, ledger : Ledgers, seq : Seqs, signTime : Nat,
                 full : BOOLEAN, trusted : BOOLEAN, seenTime : T, epoch : E]
      BY <2>2, Zenon DEF Validation
    <2>4. T \subseteq Nat /\ E \subseteq Nat
      BY <2>1, <2>2, Zenon
    <2>5. QED
      BY <1>1, <2>3, <2>4
  <1>3. QED
    BY <1>2, OffersAssumption, Zenon

(* add(): the support of the validation's own node.                        *)
LEMMA ReplaceOwn ==
    ASSUME TypeOK, FlagInv, TrackInv, NEW v \in inflight, Replace(v),
           v.node \notin crossed, v.epoch = Applied
    PROVE  /\ Counted(v.node)' =>
                CountsFor(v.node, Waits(current'[v.node]), lastLedger', acquiring')
           /\ ~Counted(v.node)' => NoWait(v.node, acquiring')
  <1> DEFINE n == v.node
             prior == IF current[n] = None THEN {} ELSE {current[n]}
             waits == RemoveAcquiring(acquiring, prior)
  <1>1. n \in Nodes /\ v \in Validation
    BY DEF TypeOK, Validation
  <1>2. /\ Counted(n) => CountsFor(n, Waits(current[n]), lastLedger, acquiring)
        /\ ~Counted(n) => NoWait(n, acquiring)
    BY <1>1, Zenon DEF TrackInv
  <1>3. Counted(n)' <=> current'[n] # None /\ current'[n].trusted
    BY Zenon DEF Counted
  <1>4. CASE current[n] # None /\ v.signTime <= current[n].signTime
    <2>1. UNCHANGED currVars
      BY <1>4, Zenon DEF Replace
    <2>2. current' = current /\ lastLedger' = lastLedger /\ acquiring' = acquiring
      BY <2>1 DEF currVars
    <2>3. QED
      BY <1>2, <1>3, <2>2, Zenon DEF Counted
  <1>5. CASE ~(current[n] # None /\ v.signTime <= current[n].signTime)
    <2>1. /\ current' = [current EXCEPT ![n] = v]
          /\ IF v.trusted
             THEN /\ \E r \in CheckAcquired(lastLedger, waits) : lastLedger' = MoveTo(r, {v})
                  /\ acquiring' = AwaitLedgers(StillWaiting(waits), {v})
             ELSE UNCHANGED <<lastLedger, acquiring>>
      BY <1>5, Zenon DEF Replace
    <2>2. current'[n] = v
      <3>1. DOMAIN current = Nodes
        BY TypeParts, Zenon
      <3>2. QED
        BY <1>1, <2>1, <3>1
    <2>3. Counted(n)' <=> v.trusted
      BY <1>1, <1>3, <2>2, ValidationIsNotNone, Zenon
    <2>4. CASE v.trusted
      <3>1. NoWait(n, waits)
        <4>1. CASE Counted(n)
          <5>1. current[n] \in prior
            BY <4>1, Zenon DEF Counted
          <5>2. \A u \in acquiring : u[1] = n => u = Waits(current[n])
            BY <1>2, <4>1, Zenon DEF CountsFor
          <5> HIDE DEF prior
          <5>3. QED
            BY <1>1, <5>1, <5>2, RemoveOwn, Zenon
        <4>2. CASE ~Counted(n)
          <5>1. waits \subseteq acquiring
            BY Zenon DEF RemoveAcquiring
          <5>2. NoWait(n, acquiring)
            BY <1>2, <4>2, Zenon
          <5> HIDE DEF waits
          <5>3. QED
            BY <5>1, <5>2, NoWaitShrinks, Zenon
        <4>3. QED
          BY <4>1, <4>2, Zenon
      <3>2. PICK r : lastLedger' = MoveTo(r, {v})
        BY <2>1, <2>4, Zenon
      <3>3. acquiring' = AwaitLedgers(StillWaiting(waits), {v})
        BY <2>1, <2>4, Zenon
      <3> HIDE DEF waits
      <3>4. StillWaiting(waits) \subseteq waits
        BY Zenon DEF StillWaiting
      <3>5. NoWait(n, StillWaiting(waits))
        BY <3>1, <3>4, NoWaitShrinks, Zenon
      <3>6. v \in {v} /\ \A w \in {v} : w.node = n => w = v
        BY Zenon
      <3>7. CountsFor(n, Waits(v), MoveTo(r, {v}), AwaitLedgers(StillWaiting(waits), {v}))
        BY <1>1, <3>5, <3>6, MoveOwn, Zenon
      <3>8. QED
        BY <2>2, <2>3, <2>4, <3>2, <3>3, <3>7, Zenon
    <2>5. CASE ~v.trusted
      <3>1. acquiring' = acquiring
        BY <2>1, <2>5
      <3>2. n \notin Known
        BY <2>5, Zenon DEF FlagInv, LookedUp
      <3>3. ~Counted(n)
        BY <1>1, <3>2, Zenon DEF Counted, FlagInv, CurrentFlags
      <3>4. QED
        BY <1>2, <2>3, <2>5, <3>1, <3>3, Zenon
    <2>6. QED
      BY <2>4, <2>5, Zenon
  <1>6. QED
    BY <1>4, <1>5, Zenon

(* add(): the support of every other node.                                 *)
LEMMA ReplaceOthers ==
    ASSUME TypeOK, TrackInv, NEW v \in inflight, Replace(v),
           NEW n \in Nodes, n \notin crossed, n # v.node
    PROVE  /\ Counted(n)' => CountsFor(n, Waits(current'[n]), lastLedger', acquiring')
           /\ ~Counted(n)' => NoWait(n, acquiring')
  <1> DEFINE old == current[v.node]
             prior == IF old = None THEN {} ELSE {old}
             waits == RemoveAcquiring(acquiring, prior)
  <1>1. v.node \in Nodes
    BY DEF TypeOK, Validation
  <1>2. /\ Counted(n) => CountsFor(n, Waits(current[n]), lastLedger, acquiring)
        /\ ~Counted(n) => NoWait(n, acquiring)
    BY Zenon DEF TrackInv
  <1>3. Counted(n)' <=> current'[n] # None /\ current'[n].trusted
    BY Zenon DEF Counted
  <1>4. CASE old # None /\ v.signTime <= old.signTime
    <2>1. UNCHANGED currVars
      BY <1>4, Zenon DEF Replace
    <2>2. current' = current /\ lastLedger' = lastLedger /\ acquiring' = acquiring
      BY <2>1 DEF currVars
    <2>3. QED
      BY <1>2, <1>3, <2>2, Zenon DEF Counted
  <1>5. CASE ~(old # None /\ v.signTime <= old.signTime)
    <2>1. /\ current' = [current EXCEPT ![v.node] = v]
          /\ IF v.trusted
             THEN /\ \E r \in CheckAcquired(lastLedger, waits) : lastLedger' = MoveTo(r, {v})
                  /\ acquiring' = AwaitLedgers(StillWaiting(waits), {v})
             ELSE UNCHANGED <<lastLedger, acquiring>>
      BY <1>5, Zenon DEF Replace
    <2>2. current'[n] = current[n]
      <3>1. DOMAIN current = Nodes
        BY TypeParts, Zenon
      <3>2. QED
        BY <2>1, <3>1
    <2>3. Counted(n)' <=> Counted(n)
      BY <1>3, <2>2, Zenon DEF Counted
    <2>4. CASE v.trusted
      <3>1. \A w \in prior : w.node # n
        BY <1>1, CurrentFacts, Zenon
      <3>2. waits \subseteq acquiring
        BY Zenon DEF RemoveAcquiring
      <3>3. PICK r \in CheckAcquired(lastLedger, waits) : lastLedger' = MoveTo(r, {v})
        BY <2>1, <2>4, Zenon
      <3>4. acquiring' = AwaitLedgers(StillWaiting(waits), {v})
        BY <2>1, <2>4, Zenon
      <3>5. \A w \in {v} : w.node # n
        BY Zenon
      <3>6. ASSUME Counted(n)
            PROVE  CountsFor(n, Waits(current[n]), lastLedger', acquiring')
        <4>1. Waits(current[n])[1] = n
          BY <3>6, CurrentFacts, WaitsParts, Zenon DEF Counted
        <4>2. CountsFor(n, Waits(current[n]), lastLedger, waits)
          <5>1. CountsFor(n, Waits(current[n]), lastLedger, acquiring)
            BY <1>2, <3>6, Zenon
          <5>2. Waits(current[n]) \notin {Waits(w) : w \in prior}
            BY <3>1, <4>1, WaitsParts, Zenon
          <5>3. Waits(current[n]) \in acquiring => Waits(current[n]) \in waits
            BY <5>2, Zenon DEF RemoveAcquiring
          <5> HIDE DEF waits
          <5>4. QED
            BY <3>2, <5>1, <5>3, Zenon DEF CountsFor
        <4> HIDE DEF waits
        <4>3. CountsFor(n, Waits(current[n]), r, StillWaiting(waits))
          BY <3>3, <4>1, <4>2, AcquiredCounts, Zenon
        <4>4. CountsFor(n, Waits(current[n]), MoveTo(r, {v}),
                        AwaitLedgers(StillWaiting(waits), {v}))
          BY <3>5, <4>3, MoveOthers, Zenon
        <4>5. QED
          BY <3>3, <3>4, <4>4, Zenon
      <3>7. ASSUME ~Counted(n) PROVE NoWait(n, acquiring')
        <4> HIDE DEF waits
        <4>1. StillWaiting(waits) \subseteq acquiring
          BY <3>2, Zenon DEF StillWaiting
        <4>2. NoWait(n, StillWaiting(waits))
          BY <1>2, <3>7, <4>1, NoWaitShrinks, Zenon
        <4>3. NoWait(n, AwaitLedgers(StillWaiting(waits), {v}))
          BY <3>5, <4>2, AwaitOthers, Zenon
        <4>4. QED
          BY <3>4, <4>3, Zenon
      <3>8. QED
        BY <2>2, <2>3, <3>6, <3>7, Zenon
    <2>5. CASE ~v.trusted
      <3>1. lastLedger' = lastLedger /\ acquiring' = acquiring
        BY <2>1, <2>5
      <3>2. QED
        BY <1>2, <2>2, <2>3, <3>1, Zenon
    <2>6. QED
      BY <2>4, <2>5, Zenon
  <1>6. QED
    BY <1>4, <1>5, Zenon

LEMMA AddTrack ==
    ASSUME TypeOK, FlagInv, TrackInv, NEW v \in inflight, Add(v) PROVE TrackInv'
  <1>1. crossed' = IF v.epoch = Applied THEN crossed ELSE crossed \cup {v.node}
    BY DEF Add
  <1>2. CASE Advances(seqEnforcers[v.node], now, v.seq)
    <2>1. Replace(v)
      BY <1>2, Zenon DEF Add
    <2>2. ASSUME NEW n \in Nodes, n \notin crossed'
          PROVE  /\ Counted(n)' => CountsFor(n, Waits(current'[n]), lastLedger', acquiring')
                 /\ ~Counted(n)' => NoWait(n, acquiring')
      <3>1. n \notin crossed /\ (n = v.node => v.epoch = Applied)
        BY <1>1, <2>2, Zenon
      <3>2. CASE n = v.node
        BY <2>1, <3>1, <3>2, ReplaceOwn, Zenon
      <3>3. CASE n # v.node
        BY <2>1, <3>1, <3>3, ReplaceOthers, Zenon
      <3>4. QED
        BY <3>2, <3>3, Zenon
    <2>3. QED
      BY <2>2, Zenon DEF TrackInv, Counted, CountsFor, NoWait, Waits
  <1>3. CASE ~Advances(seqEnforcers[v.node], now, v.seq)
    <2>1. UNCHANGED currVars
      BY <1>3 DEF Add
    <2>2. crossed \subseteq crossed'
      BY <1>1, Zenon
    <2>3. QED
      BY <2>1, <2>2, KeptTrack, Zenon
  <1>4. QED
    BY <1>2, <1>3, Zenon

LEMMA FlaggedIsValidation ==
    ASSUME NEW v \in Validation, trustPending # None, Told
    PROVE  Flagged(v) \in Validation
  <1>1. [v EXCEPT !.trusted = TRUE] \in Validation
    BY DEF Validation
  <1>2. [v EXCEPT !.trusted = FALSE] \in Validation
    BY DEF Validation
  <1>3. \/ Flagged(v) = [v EXCEPT !.trusted = TRUE]
        \/ Flagged(v) = [v EXCEPT !.trusted = FALSE]
        \/ Flagged(v) = v
    <2>1. CASE v.node \in trustPending.added /\ v.node \notin trustPending.removed
      BY <2>1, Zenon DEF Flagged
    <2>2. CASE v.node \in trustPending.removed /\ v.node \notin trustPending.added
      BY <2>2, Zenon DEF Flagged
    <2>3. CASE v.node \notin trustPending.removed /\ v.node \notin trustPending.added
      BY <2>3, Zenon DEF Flagged
    <2>4. QED
      BY <2>1, <2>2, <2>3, Zenon DEF Told
  <1>4. QED
    BY <1>1, <1>2, <1>3, Zenon

(* trustChanged(), in terms of the sets it visits.                         *)
Joining == {v \in Current : v.node \in trustPending.added}
Leaving == {v \in Current : v.node \in trustPending.removed}

(* A node that neither joins nor leaves keeps its support.                 *)
LEMMA BystanderCounts ==
    ASSUME NEW n \in Nodes, NEW t, t[1] = n, NEW first, NEW rest, NEW J,
           \A v \in first \cup rest \cup J : v.node # n,
           CountsFor(n, t, lastLedger, acquiring),
           NEW r \in CheckAcquired(RemoveTrie(lastLedger, first),
                                   RemoveAcquiring(acquiring, first))
    PROVE  CountsFor(n, t, RemoveTrie(MoveTo(r, J), rest),
                     RemoveAcquiring(
                        AwaitLedgers(StillWaiting(RemoveAcquiring(acquiring, first)), J),
                        rest))
  <1>1. /\ \A v \in first : v.node # n
        /\ \A v \in rest : v.node # n
        /\ \A v \in J : v.node # n
    BY Zenon
  <1>2. PICK last0, acq0 : /\ last0 = RemoveTrie(lastLedger, first)
                           /\ acq0 = RemoveAcquiring(acquiring, first)
    BY Zenon
  <1>3. CountsFor(n, t, last0, acq0)
    BY <1>1, <1>2, RemoveOthers, Zenon
  <1>4. CountsFor(n, t, r, StillWaiting(acq0))
    BY <1>2, <1>3, AcquiredCounts, Zenon
  <1>5. CountsFor(n, t, MoveTo(r, J), AwaitLedgers(StillWaiting(acq0), J))
    BY <1>1, <1>4, MoveOthers, Zenon
  <1>6. CountsFor(n, t, RemoveTrie(MoveTo(r, J), rest),
                  RemoveAcquiring(AwaitLedgers(StillWaiting(acq0), J), rest))
    BY <1>1, <1>5, RemoveOthers, Zenon
  <1>7. QED
    BY <1>2, <1>6, Zenon

(* A node that joins is moved to the ledger of its current validation.     *)
LEMMA JoinerCounts ==
    ASSUME NEW n \in Nodes, NEW first, NEW rest, NEW J, NEW c \in J, c.node = n,
           \A v \in J : v.node = n => v = c, \A v \in rest : v.node # n,
           NoWait(n, acquiring), NEW r
    PROVE  CountsFor(n, Waits(c), RemoveTrie(MoveTo(r, J), rest),
                     RemoveAcquiring(
                        AwaitLedgers(StillWaiting(RemoveAcquiring(acquiring, first)), J),
                        rest))
  <1>1. PICK acq : acq = StillWaiting(RemoveAcquiring(acquiring, first))
    BY Zenon
  <1>2. acq \subseteq acquiring
    BY <1>1, Zenon DEF StillWaiting, RemoveAcquiring
  <1>3. NoWait(n, acq)
    BY <1>2, NoWaitShrinks, Zenon
  <1>4. CountsFor(n, Waits(c), MoveTo(r, J), AwaitLedgers(acq, J))
    BY <1>3, MoveOwn, Zenon
  <1>5. Waits(c)[1] = n
    BY WaitsParts, Zenon
  <1>6. CountsFor(n, Waits(c), RemoveTrie(MoveTo(r, J), rest),
                  RemoveAcquiring(AwaitLedgers(acq, J), rest))
    BY <1>4, <1>5, RemoveOthers, Zenon
  <1>7. QED
    BY <1>1, <1>6, Zenon

(* What a node waits for after the change it already waited for before,    *)
(* unless it joins; the waits of the nodes that leave are gone.            *)
LEMMA WaitsAfterChange ==
    ASSUME NEW n, NEW first, NEW rest, NEW J, \A v \in J : v.node # n,
           NEW u \in RemoveAcquiring(
                        AwaitLedgers(StillWaiting(RemoveAcquiring(acquiring, first)), J),
                        rest),
           u[1] = n
    PROVE  u \in acquiring /\ \A v \in first \cup rest : u # Waits(v)
  <1>1. /\ u \in AwaitLedgers(StillWaiting(RemoveAcquiring(acquiring, first)), J)
        /\ \A v \in rest : u # Waits(v)
    BY Zenon DEF RemoveAcquiring
  <1>2. u \notin {Waits(v) : v \in {w \in J : w.ledger \notin available}}
    BY WaitsParts, Zenon
  <1>3. u \in RemoveAcquiring(acquiring, first)
    BY <1>1, <1>2, Zenon DEF AwaitLedgers, StillWaiting
  <1>4. u \in acquiring /\ \A v \in first : u # Waits(v)
    BY <1>3, Zenon DEF RemoveAcquiring
  <1>5. QED
    BY <1>1, <1>4, Zenon

(* What trustChanged() does to the trie and to acquiring_: with a node     *)
(* joining, and without.                                                   *)
LEMMA TrustChangedSteps ==
    ASSUME TrustChanged
    PROVE  \E first \in SUBSET Leaving :
             \/ /\ Joining = {} /\ first = Leaving
                /\ lastLedger' = RemoveTrie(lastLedger, first)
                /\ acquiring' = RemoveAcquiring(acquiring, first)
             \/ \E r \in CheckAcquired(RemoveTrie(lastLedger, first),
                                        RemoveAcquiring(acquiring, first)) :
                  /\ lastLedger' = RemoveTrie(MoveTo(r, Joining), Leaving \ first)
                  /\ acquiring' = RemoveAcquiring(
                       AwaitLedgers(StillWaiting(RemoveAcquiring(acquiring, first)), Joining),
                       Leaving \ first)
  <1>1. PICK first \in SUBSET Leaving :
          /\ Joining = {} => first = Leaving
          /\ IF Joining = {}
             THEN /\ lastLedger' = RemoveTrie(lastLedger, first)
                  /\ acquiring' = RemoveAcquiring(acquiring, first)
             ELSE /\ \E r \in CheckAcquired(RemoveTrie(lastLedger, first),
                                            RemoveAcquiring(acquiring, first)) :
                       lastLedger' = RemoveTrie(MoveTo(r, Joining), Leaving \ first)
                  /\ acquiring' = RemoveAcquiring(
                       AwaitLedgers(StillWaiting(RemoveAcquiring(acquiring, first)), Joining),
                       Leaving \ first)
    BY Zenon DEF TrustChanged, Joining, Leaving
  <1>2. CASE Joining = {}
    BY <1>1, <1>2, Zenon
  <1>3. CASE Joining # {}
    BY <1>1, <1>3, Zenon
  <1>4. QED
    BY <1>2, <1>3, Zenon

(* The support of a node after trustChanged().                             *)
LEMMA TrustChangedCounts ==
    ASSUME TypeOK, FlagInv, TrackInv, TrustChanged, NEW n \in Nodes, n \notin crossed
    PROVE  /\ n \in trusted /\ current[n] # None =>
                 CountsFor(n, Waits(current[n]), lastLedger', acquiring')
           /\ ~(n \in trusted /\ current[n] # None) => NoWait(n, acquiring')
  <1>1. trustPending # None /\ Told /\ CurrentFlags
    BY Zenon DEF TrustChanged, FlagInv
  <1>2. /\ Counted(n) => CountsFor(n, Waits(current[n]), lastLedger, acquiring)
        /\ ~Counted(n) => NoWait(n, acquiring)
    BY Zenon DEF TrackInv
  <1>3. Counted(n) <=> current[n] # None /\ n \in Known
    BY <1>1, Zenon DEF Counted, CurrentFlags
  <1>4. /\ n \in trusted <=> \/ n \in trustPending.added
                             \/ n \in Known /\ n \notin trustPending.removed
        /\ n \in trustPending.added => n \notin Known /\ n \notin trustPending.removed
        /\ n \in trustPending.removed => n \in Known
    BY <1>1, Zenon DEF Told, Known
  <1>5. /\ \A v \in Current : v.node = n => v = current[n] /\ current[n] # None
        /\ current[n] # None => current[n] \in Current /\ current[n].node = n
    <2>1. ASSUME NEW v \in Current, v.node = n PROVE v = current[n] /\ current[n] # None
      <3>1. current[v.node] = v /\ v # None
        BY CurrentFacts, Zenon
      <3>2. QED
        BY <2>1, <3>1, Zenon
    <2>2. current[n] # None => current[n] \in Current /\ current[n].node = n
      BY CurrentFacts, Zenon
    <2>3. QED
      BY <2>1, <2>2, Zenon
  <1>6. /\ \A v \in Joining : v.node = n => v = current[n] /\ n \in trustPending.added
        /\ \A v \in Leaving : v.node = n => v = current[n] /\ n \in trustPending.removed
        /\ current[n] # None /\ n \in trustPending.added => current[n] \in Joining
        /\ current[n] # None /\ n \in trustPending.removed => current[n] \in Leaving
    BY <1>5, Zenon DEF Joining, Leaving
  <1>7. current[n] # None => Waits(current[n])[1] = n
    BY <1>5, WaitsParts, Zenon
  <1>8. PICK first \in SUBSET Leaving :
             \/ /\ Joining = {} /\ first = Leaving
                /\ lastLedger' = RemoveTrie(lastLedger, first)
                /\ acquiring' = RemoveAcquiring(acquiring, first)
             \/ \E r \in CheckAcquired(RemoveTrie(lastLedger, first),
                                        RemoveAcquiring(acquiring, first)) :
                  /\ lastLedger' = RemoveTrie(MoveTo(r, Joining), Leaving \ first)
                  /\ acquiring' = RemoveAcquiring(
                       AwaitLedgers(StillWaiting(RemoveAcquiring(acquiring, first)), Joining),
                       Leaving \ first)
    BY TrustChangedSteps, Zenon
  <1>9. CASE Joining = {} /\ first = Leaving
             /\ lastLedger' = RemoveTrie(lastLedger, first)
             /\ acquiring' = RemoveAcquiring(acquiring, first)
    <2>1. acquiring' \subseteq acquiring
      BY <1>9, Zenon DEF RemoveAcquiring
    <2>2. CASE n \in trusted /\ current[n] # None
      <3>1. Counted(n) /\ \A v \in first : v.node # n
        BY <1>3, <1>4, <1>6, <1>9, <2>2, Zenon
      <3>2. CountsFor(n, Waits(current[n]), lastLedger, acquiring)
        BY <1>2, <3>1, Zenon
      <3>3. QED
        BY <1>7, <1>9, <2>2, <3>1, <3>2, RemoveOthers, Zenon
    <2>3. CASE ~(n \in trusted /\ current[n] # None)
      <3>1. CASE Counted(n)
        <4>1. current[n] \in first
          BY <1>3, <1>4, <1>6, <1>9, <2>3, <3>1, Zenon
        <4>2. \A u \in acquiring : u[1] = n => u = Waits(current[n])
          BY <1>2, <3>1, Zenon DEF CountsFor
        <4>3. QED
          BY <1>9, <2>3, <4>1, <4>2, RemoveOwn, Zenon
      <3>2. CASE ~Counted(n)
        BY <1>2, <2>1, <2>3, <3>2, NoWaitShrinks, Zenon
      <3>3. QED
        BY <3>1, <3>2, Zenon
    <2>4. QED
      BY <2>2, <2>3, Zenon
  <1>10. ASSUME NEW r \in CheckAcquired(RemoveTrie(lastLedger, first),
                                       RemoveAcquiring(acquiring, first)),
                lastLedger' = RemoveTrie(MoveTo(r, Joining), Leaving \ first),
                acquiring' = RemoveAcquiring(
                   AwaitLedgers(StillWaiting(RemoveAcquiring(acquiring, first)), Joining),
                   Leaving \ first)
         PROVE  /\ n \in trusted /\ current[n] # None =>
                     CountsFor(n, Waits(current[n]), lastLedger', acquiring')
                /\ ~(n \in trusted /\ current[n] # None) => NoWait(n, acquiring')
    <2>1. PICK rest : rest = Leaving \ first
      BY Zenon
    <2>2. CASE n \in trusted /\ current[n] # None /\ n \in trustPending.added
      <3>1. NoWait(n, acquiring)
        BY <1>2, <1>3, <1>4, <2>2, Zenon
      <3>2. /\ current[n] \in Joining /\ current[n].node = n
            /\ \A v \in Joining : v.node = n => v = current[n]
            /\ \A v \in rest : v.node # n
        BY <1>4, <1>5, <1>6, <2>1, <2>2, Zenon
      <3>3. CountsFor(n, Waits(current[n]), RemoveTrie(MoveTo(r, Joining), rest),
                      RemoveAcquiring(
                        AwaitLedgers(StillWaiting(RemoveAcquiring(acquiring, first)), Joining),
                        rest))
        BY <3>1, <3>2, JoinerCounts, Zenon
      <3>4. QED
        BY <1>10, <2>1, <2>2, <3>3, Zenon
    <2>3. CASE n \in trusted /\ current[n] # None /\ n \notin trustPending.added
      <3>1. CountsFor(n, Waits(current[n]), lastLedger, acquiring)
        BY <1>2, <1>3, <1>4, <2>3, Zenon
      <3>2. \A v \in first \cup rest \cup Joining : v.node # n
        BY <1>4, <1>6, <2>1, <2>3, Zenon
      <3>3. CountsFor(n, Waits(current[n]), RemoveTrie(MoveTo(r, Joining), rest),
                      RemoveAcquiring(
                        AwaitLedgers(StillWaiting(RemoveAcquiring(acquiring, first)), Joining),
                        rest))
        BY <1>7, <2>3, <3>1, <3>2, BystanderCounts, Zenon
      <3>4. QED
        BY <1>10, <2>1, <2>3, <3>3, Zenon
    <2>4. CASE ~(n \in trusted /\ current[n] # None)
      <3>1. \A v \in Joining : v.node # n
        BY <1>4, <1>5, <1>6, <2>4, Zenon DEF Joining
      <3>2. SUFFICES ASSUME NEW u \in acquiring', u[1] = n PROVE FALSE
        BY <2>4, Zenon DEF NoWait
      <3>3. u \in acquiring /\ \A v \in first \cup (Leaving \ first) : u # Waits(v)
        BY <1>10, <3>1, <3>2, WaitsAfterChange, Zenon
      <3>4. Counted(n) /\ u = Waits(current[n])
        BY <1>2, <3>2, <3>3, Zenon DEF NoWait, CountsFor
      <3>5. current[n] \in Leaving
        BY <1>3, <1>4, <1>6, <2>4, <3>4, Zenon
      <3>6. QED
        BY <3>3, <3>4, <3>5, Zenon
    <2>5. QED
      BY <2>2, <2>3, <2>4, Zenon
  <1>11. QED
    BY <1>8, <1>9, <1>10, Zenon

LEMMA TrustChangedTrack ==
    ASSUME TypeOK, FlagInv, TrackInv, TrustChanged PROVE TrackInv'
  <1>1. /\ trustPending # None /\ trustPending' = None /\ trusted' = trusted
        /\ crossed' = crossed
        /\ current' = [n \in Nodes |->
                         IF current[n] = None THEN None ELSE Flagged(current[n])]
    BY Zenon DEF TrustChanged
  <1>2. Told /\ CurrentFlags'
    BY TrustChangedFlags, Zenon DEF FlagInv
  <1>3. ASSUME NEW n \in Nodes, n \notin crossed
        PROVE  /\ Counted(n)' => CountsFor(n, Waits(current'[n]), lastLedger', acquiring')
               /\ ~Counted(n)' => NoWait(n, acquiring')
    <2>1. Counted(n)' <=> current'[n] # None /\ current'[n].trusted
      BY Zenon DEF Counted
    <2>2. Known' = trusted
      BY <1>1, Zenon DEF Known
    <2>3. current'[n] # None => (current'[n].trusted <=> n \in trusted)
      BY <1>1, <1>2, <1>3, <2>2, Zenon DEF CurrentFlags
    <2>4. CASE current[n] = None
      <3>1. ~Counted(n)'
        BY <1>1, <2>1, <2>4, Zenon
      <3>2. QED
        BY <1>3, <2>4, <3>1, TrustChangedCounts, Zenon
    <2>5. CASE current[n] # None
      <3>1. current'[n] = Flagged(current[n])
        BY <1>1, <2>5, Zenon
      <3>2. current[n] \in Validation
        BY <2>5, Zenon DEF TypeOK
      <3>3. /\ Flagged(current[n]).node = current[n].node
            /\ Flagged(current[n]).ledger = current[n].ledger
            /\ Flagged(current[n]).seq = current[n].seq
        BY <1>1, <1>2, <3>2, FlaggedFacts, Zenon
      <3>4. Waits(current'[n]) = Waits(current[n])
        BY <3>1, <3>3, Zenon DEF Waits
      <3>5. current'[n] # None
        BY <1>1, <1>2, <3>1, <3>2, FlaggedIsValidation, ValidationIsNotNone, Zenon
      <3>6. Counted(n)' <=> n \in trusted
        BY <2>1, <2>3, <3>5, Zenon
      <3>7. QED
        BY <1>3, <2>5, <3>4, <3>6, TrustChangedCounts, Zenon
    <2>6. QED
      BY <2>4, <2>5, Zenon
  <1>4. \A n \in Nodes \ crossed' :
           /\ Counted(n)' => CountsFor(n, Waits(current'[n]), lastLedger', acquiring')
           /\ ~Counted(n)' => NoWait(n, acquiring')
    BY <1>1, <1>3, Zenon
  <1>5. QED
    BY <1>4, Zenon DEF TrackInv, Counted, CountsFor, NoWait, Waits

LEMMA NextTrack == ASSUME TypeOK, FlagInv, TrackInv, [Next]_vars PROVE TrackInv'
  <1>1. ASSUME NEW o \in Offers, Receive(o) PROVE TrackInv'
    <2>1. UNCHANGED currVars /\ crossed' = crossed
      BY <1>1 DEF Receive, trustVars
    <2>2. QED
      BY <2>1, KeptTrack, Zenon
  <1>2. ASSUME NEW S \in SUBSET Nodes, UpdateTrusted(S) PROVE TrackInv'
    <2>1. Flush /\ crossed' = crossed
      BY <1>2 DEF UpdateTrusted
    <2>2. QED
      BY <2>1, FlushTrack, Zenon
  <1>3. CASE Quiet
    <2>1. crossed' = crossed /\ (UNCHANGED currVars \/ Flush \/ WithTrie)
      BY <1>3, Zenon DEF Quiet
    <2>2. crossed \subseteq crossed'
      BY <2>1, Zenon
    <2>3. QED
      BY <2>1, <2>2, KeptTrack, FlushTrack, WithTrieTrack, Zenon
  <1>4. QED
    BY <1>1, <1>2, <1>3, AddTrack, TrustChangedTrack, StepKinds, Zenon

LEMMA TrackInvariance == Spec => [](TypeOK /\ FlagInv /\ TrackInv)
  <1>1. TypeOK /\ FlagInv /\ [Next]_vars => FlagInv'
    BY NextFlags
  <1>2. TypeOK /\ FlagInv /\ TrackInv /\ [Next]_vars => TrackInv'
    BY NextTrack
  <1>3. QED
    BY <1>1, <1>2, InitFlags, InitTrack, TypeCorrect, PTL DEF Spec

(* The current validation of a trusted node is never lost from fork        *)
(* choice: its ledger is the node's tip in the trie or is waited for,      *)
(* through add, flushes, completed acquisitions and changes of trust in    *)
(* any order, unless a validation of the node crossed a change of trust    *)
(* (updateTrie, checkAcquired, removeTrie, trustChanged).                  *)
THEOREM SupportNotLost == Spec => []CurrentIsTracked
  <1>1. TypeOK /\ TrackInv => CurrentIsTracked
    <2>1. SUFFICES ASSUME TypeOK, TrackInv, NEW v \in Current, v.trusted,
                          v.node \notin crossed
                   PROVE  lastLedger[v.node] = v.ledger \/ Waits(v) \in acquiring
      BY Zenon DEF CurrentIsTracked
    <2>2. v.node \in Nodes /\ current[v.node] = v /\ v # None
      BY <2>1, CurrentFacts, Zenon
    <2>3. CountsFor(v.node, Waits(v), lastLedger, acquiring)
      BY <2>1, <2>2, Zenon DEF TrackInv, Counted
    <2>4. QED
      BY <2>3, WaitsParts, Zenon DEF CountsFor
  <1>2. QED
    BY <1>1, TrackInvariance, PTL

(* A node waits for no ledger but that of its current trusted validation,  *)
(* so a late acquisition never moves its support back to a ledger it has   *)
(* left, unless a validation of the node crossed a change of trust         *)
(* (updateTrie, removeTrie, trustChanged).                                 *)
THEOREM NoOrphanedWait == Spec => []WaitingIsCurrent
  <1>1. TypeOK /\ TrackInv => WaitingIsCurrent
    <2>1. SUFFICES ASSUME TypeOK, TrackInv, NEW t \in acquiring, t[1] \notin crossed
                   PROVE  \E v \in Current : v.trusted /\ Waits(v) = t
      BY Zenon DEF WaitingIsCurrent
    <2>2. t[1] \in Nodes
      BY <2>1 DEF TypeOK
    <2>3. Counted(t[1]) /\ t = Waits(current[t[1]])
      BY <2>1, <2>2, Zenon DEF TrackInv, NoWait, CountsFor
    <2>4. current[t[1]] \in Current /\ current[t[1]].trusted
      BY <2>1, <2>2, <2>3, CurrentFacts, Zenon DEF Counted
    <2>5. QED
      BY <2>3, <2>4, Zenon
  <1>2. QED
    BY <1>1, TrackInvariance, PTL
=============================================================================
