----------------------------- MODULE Validations -----------------------------
(***************************************************************************)
(* One node's store of validations (Validations.h), driven by the code     *)
(* that uses it: validations arrive from peers and are added by job-queue  *)
(* threads (handleNewValidation), the trusted set changes at the start of  *)
(* a consensus round (NetworkOPsImp::beginConsensus), the consensus timer  *)
(* asks for the preferred ledger, and the sweep timer expires old sets.    *)
(*                                                                         *)
(* Every method of the class runs under mutex_ and is one step. What is    *)
(* not under it is split: a validation's trust is looked up in one step    *)
(* and the validation is added in a later one, and the trusted set is      *)
(* replaced in one step and the store told of it in a later one.           *)
(*                                                                         *)
(* The trie is not a variable: every write of lastLedger_ in the code is   *)
(* paired with a trie_.remove and a trie_.insert, so the tips in the trie  *)
(* are the values of lastLedger (module LedgerTrie shows what the trie     *)
(* makes of that). The cookie of a validation is left out: it only tells   *)
(* apart two of the outcomes that refuse a validation.                     *)
(***************************************************************************)
EXTENDS LedgerSupport, SeqEnforcer

CONSTANTS
    None,           \* no validation, no ledger, no range, no change
    Nodes,          \* the validators whose validations are seen
    Offers,         \* validations that may arrive: [node, ledger, seq,
                    \*   signTime, full]
    Early,          \* validationCurrentEarly
    Wall,           \* validationCurrentWall
    Local,          \* validationCurrentLocal
    Freshness,      \* validationFRESHNESS
    Held,           \* ledgers held locally at first
    InitialUNL,     \* the validators trusted at first
    KeepRanges,     \* ranges passed to setSeqToKeep: [low, high]
    LocalSeqs,      \* sequence numbers this node itself tries to validate
    MaxTime,        \* bound: clock readings
    MaxInflight,    \* bound: validations being handled at once
    MaxTrustChanges \* bound: changes of the trusted set

ASSUME ParmsAssumption ==
    /\ \A p \in {Early, Wall, Local, Freshness, MaxTime,
                 MaxInflight, MaxTrustChanges} : p \in Nat
    /\ Freshness <= SetExpires
    /\ MaxTime >= 1
    /\ InitialUNL \subseteq Nodes
    /\ Held \subseteq Ledgers

ASSUME OffersAssumption ==
    /\ Offers \subseteq [node : Nodes, ledger : Ledgers, seq : Nat,
                         signTime : Nat, full : BOOLEAN]
    /\ KeepRanges \subseteq [low : Nat, high : Nat]
    /\ LocalSeqs \subseteq Nat
    /\ None \notin Ledgers
    /\ None \notin [added : SUBSET Nodes, removed : SUBSET Nodes]
    /\ None \notin [node : Nodes, ledger : Ledgers, seq : Nat, signTime : Nat,
                    full : BOOLEAN, trusted : BOOLEAN, seenTime : Nat, epoch : Nat]

VARIABLES
    now,          \* the clock; the network and the steady clock tick alike
    trusted,      \* ValidatorList: the trusted validators
    trustPending, \* changes returned by updateTrusted, not yet applied
    trustChanges, \* how often the trusted set changed
    crossed,      \* history: nodes of which a validation was added whose
                  \*   trust was looked up in another trusted set than the
                  \*   store knew
    available,    \* ledgers that getLedgerByHash finds locally
    inflight,     \* validations between handleNewValidation and add
    current,      \* current_
    localSeq,     \* localSeqEnforcer_
    seqEnforcers, \* seqEnforcers_
    byLedger,     \* byLedger_, with the time each validation was accepted
    ledgerWhen,   \* when each set of byLedger_ was last touched
    bySequence,   \* bySequence_
    sequenceWhen, \* when each set of bySequence_ was last touched
    toKeep,       \* toKeep_
    refreshTime,  \* kRefreshTime
    lastLedger,   \* lastLedger_, the tips in the trie
    acquiring     \* acquiring_, as triples <<node, seq, ledger>>

vars == <<now, trusted, trustPending, trustChanges, crossed, available, inflight,
          current, localSeq, seqEnforcers, byLedger, ledgerWhen, bySequence,
          sequenceWhen, toKeep, refreshTime, lastLedger, acquiring>>

trustVars  == <<trusted, trustPending, trustChanges, crossed>>
sweepVars  == <<toKeep, refreshTime>>
storeVars  == <<byLedger, ledgerWhen, bySequence, sequenceWhen>>
currVars   == <<current, lastLedger, acquiring>>

Times == 0 .. MaxTime
Seqs == {o.seq : o \in Offers}

(* What a node's entry of current_ is.                                     *)
Validation == [node : Nodes, ledger : Ledgers, seq : Seqs, signTime : Nat,
               full : BOOLEAN, trusted : BOOLEAN, seenTime : Times,
               epoch : 0 .. MaxTrustChanges]

(* An entry of byLedger_: a validation, when it was accepted, and whether  *)
(* its trust had been looked up before a change of the trusted set that    *)
(* the store already knows.                                                *)
Entry == [node : Nodes, ledger : Ledgers, seq : Seqs, full : BOOLEAN,
          trusted : BOOLEAN, at : Times, raced : BOOLEAN]

Sighting == [node : Nodes, seq : Seqs, ledger : Ledgers, signTime : Nat]

(***************************************************************************)
(* Helpers                                                                 *)
(***************************************************************************)
isCurrent(v) ==
    /\ v.signTime > now - Early
    /\ v.signTime < now + Wall
    /\ v.seenTime < now + Local

Waits(v) == <<v.node, v.seq, v.ledger>>

(* removeTrie(): the support a set of validations gives is taken back: the *)
(* wait for exactly that ledger, and the node's last ledger if it is that  *)
(* ledger.                                                                 *)
RemoveTrie(last, V) ==
    [n \in Nodes |->
        IF \E v \in V : v.node = n /\ last[n] = v.ledger
        THEN None ELSE last[n]]

(* Mutant: the whole set of waiting nodes is erased.                       *)
RemoveAllAcquiring(acq, V) ==
    {t \in acq : \A v \in V : t[2] /= v.seq \/ t[3] /= v.ledger}

RemoveAcquiring(acq, V) == acq \ {Waits(v) : v \in V}

(* checkAcquired(): everyone waiting for a ledger that is now available    *)
(* gets it as last ledger. A node that waits for two of them ends with     *)
(* either, by the order of the hash map.                                   *)
Arrived(acq, n) == {t[3] : t \in {u \in acq : u[1] = n /\ u[3] \in available}}

CheckAcquired(last, acq) ==
    {r \in [Nodes -> Ledgers \cup {None}] :
        \A n \in Nodes : IF Arrived(acq, n) = {}
                         THEN r[n] = last[n]
                         ELSE r[n] \in Arrived(acq, n)}

StillWaiting(acq) == {t \in acq : t[3] \notin available}

(* updateTrie() for new trusted validations V, after checkAcquired: a      *)
(* validation of an available ledger moves its node there, the others are  *)
(* waited for.                                                             *)
MoveTo(last, V) ==
    [n \in Nodes |->
        IF \E v \in V : v.node = n /\ v.ledger \in available
        THEN (CHOOSE v \in V : v.node = n).ledger ELSE last[n]]

AwaitLedgers(acq, V) ==
    acq \cup {Waits(v) : v \in {w \in V : w.ledger \notin available}}

Current == {current[n] : n \in {m \in Nodes : current[m] /= None}}
Stale == {v \in Current : ~isCurrent(v)}

(* current(): the stale validations leave current_ and the trie.           *)
WithoutStale ==
    [n \in Nodes |-> IF current[n] \in Stale THEN None ELSE current[n]]

Flush ==
    /\ current' = WithoutStale
    /\ lastLedger' = RemoveTrie(lastLedger, Stale)
    /\ acquiring' = RemoveAcquiring(acquiring, Stale)

(***************************************************************************)
(* Actions                                                                 *)
(***************************************************************************)
Init ==
    /\ now = 1
    /\ trusted = InitialUNL
    /\ trustPending = None
    /\ trustChanges = 0
    /\ crossed = {}
    /\ available = Held
    /\ inflight = {}
    /\ current = [n \in Nodes |-> None]
    /\ localSeq = NewEnforcer
    /\ seqEnforcers = [n \in Nodes |-> NewEnforcer]
    /\ byLedger = {}
    /\ ledgerWhen = [l \in Ledgers |-> 0]
    /\ bySequence = {}
    /\ sequenceWhen = [s \in Seqs |-> 0]
    /\ toKeep = None
    /\ refreshTime = 0
    /\ lastLedger = [n \in Nodes |-> None]
    /\ acquiring = {}

Tick ==
    /\ now < MaxTime
    /\ now' = now + 1
    /\ UNCHANGED <<trustVars, available, inflight, currVars, localSeq,
                   seqEnforcers, storeVars, sweepVars>>

(* A ledger is built, or its acquisition completes.                        *)
LedgerArrives(l) ==
    /\ l \notin available
    /\ available' = available \cup {l}
    /\ UNCHANGED <<now, trustVars, inflight, currVars, localSeq,
                   seqEnforcers, storeVars, sweepVars>>

(* PeerImp drops a validation that is not current; handleNewValidation     *)
(* then marks it trusted if its signer is trusted at this moment.          *)
Receive(o) ==
    LET v == [node |-> o.node, ledger |-> o.ledger, seq |-> o.seq,
              signTime |-> o.signTime, full |-> o.full,
              trusted |-> o.node \in trusted, seenTime |-> now,
              epoch |-> trustChanges]
    IN  /\ Cardinality(inflight) < MaxInflight
        /\ isCurrent(v)
        /\ inflight' = inflight \cup {v}
        /\ UNCHANGED <<now, trustVars, available, currVars, localSeq,
                       seqEnforcers, storeVars, sweepVars>>

(* Mutant: the entry of any node is compared.                              *)
TrackedByAnyone(v) ==
    LET old == {e \in bySequence : e.seq = v.seq}
        new == [node |-> v.node, seq |-> v.seq, ledger |-> v.ledger,
                signTime |-> v.signTime]
    IN  IF \E e \in old : v.signTime <= e.signTime + Wall
        THEN CHOOSE e \in old : TRUE
        ELSE new

(* The entry of bySequence_ for v's node and sequence number once add()    *)
(* has recorded v there: the one already tracked, unless there is none or  *)
(* it was signed more than Wall before v.                                  *)
Tracked(v) ==
    LET old == {e \in bySequence : e.node = v.node /\ e.seq = v.seq}
        new == [node |-> v.node, seq |-> v.seq, ledger |-> v.ledger,
                signTime |-> v.signTime]
    IN  IF \E e \in old : v.signTime <= e.signTime + Wall
        THEN CHOOSE e \in old : TRUE
        ELSE new

(* What add() answers when the enforcer refuses v.                         *)
Refusal(v) ==
    IF Tracked(v).ledger /= v.ledger \/ Tracked(v).signTime /= v.signTime
    THEN "Conflicting" ELSE "BadSeq"

(* Mutant: the wait of the node's earlier validation is not cleared.       *)
ReplaceKeepingWait(v) ==
    IF current[v.node] /= None /\ v.signTime <= current[v.node].signTime
    THEN UNCHANGED currVars
    ELSE /\ current' = [current EXCEPT ![v.node] = v]
         /\ IF v.trusted
            THEN /\ \E r \in CheckAcquired(lastLedger, acquiring) :
                      lastLedger' = MoveTo(r, {v})
                 /\ acquiring' = AwaitLedgers(StillWaiting(acquiring), {v})
            ELSE UNCHANGED <<lastLedger, acquiring>>

(* The part of add() on current_ and the trie: a newer validation replaces *)
(* the node's current one and, if trusted, moves the node's support.       *)
Replace(v) ==
    LET old    == current[v.node]
        prior  == IF old = None THEN {} ELSE {old}
        waits  == RemoveAcquiring(acquiring, prior)
    IN  IF old /= None /\ v.signTime <= old.signTime
        THEN UNCHANGED currVars
        ELSE /\ current' = [current EXCEPT ![v.node] = v]
             /\ IF v.trusted
                THEN /\ \E r \in CheckAcquired(lastLedger, waits) :
                          lastLedger' = MoveTo(r, {v})
                     /\ acquiring' = AwaitLedgers(StillWaiting(waits), {v})
                ELSE UNCHANGED <<lastLedger, acquiring>>

(* The changes of the trusted set the store has been told of.              *)
Applied == IF trustPending = None THEN trustChanges ELSE trustChanges - 1

(* The part of add() on byLedger_: insert_or_assign under the node.        *)
Record(v) ==
    /\ byLedger' = {e \in byLedger : e.node /= v.node \/ e.ledger /= v.ledger}
                    \cup {[node |-> v.node, ledger |-> v.ledger, seq |-> v.seq,
                           full |-> v.full, trusted |-> v.trusted, at |-> now,
                           raced |-> v.epoch < Applied]}
    /\ ledgerWhen' = IF \E e \in byLedger : e.ledger = v.ledger
                     THEN ledgerWhen
                     ELSE [ledgerWhen EXCEPT ![v.ledger] = now]

(* add() first drops a validation that is no longer current. It looks at   *)
(* the clock before it takes mutex_, so a validation that was current when *)
(* it arrived may be processed although it has just ceased to be.          *)
DropStale(v) ==
    /\ ~isCurrent(v)
    /\ inflight' = inflight \ {v}
    /\ UNCHANGED <<now, trustVars, available, localSeq, seqEnforcers,
                   storeVars, currVars, sweepVars>>

Add(v) ==
    /\ inflight' = inflight \ {v}
    /\ bySequence' = {e \in bySequence : e.node /= v.node \/ e.seq /= v.seq}
                      \cup {Tracked(v)}
    /\ sequenceWhen' = IF \E e \in bySequence : e.seq = v.seq
                       THEN sequenceWhen
                       ELSE [sequenceWhen EXCEPT ![v.seq] = now]
    /\ seqEnforcers' = [seqEnforcers EXCEPT ![v.node] = Advance(@, now, v.seq)]
    /\ IF Advances(seqEnforcers[v.node], now, v.seq)
       THEN Record(v) /\ Replace(v)
       ELSE UNCHANGED <<byLedger, ledgerWhen, currVars>>
    /\ crossed' = IF v.epoch = Applied THEN crossed ELSE crossed \cup {v.node}
    /\ UNCHANGED <<now, trusted, trustPending, trustChanges, available, localSeq,
                   sweepVars>>

(* canValidateSeq(): may this node itself validate sequence number s?      *)
CanValidateSeq(s) ==
    /\ localSeq' = Advance(localSeq, now, s)
    /\ UNCHANGED <<now, trustVars, available, inflight, currVars,
                   seqEnforcers, storeVars, sweepVars>>

(* beginConsensus(): the current node ids are collected, which flushes,    *)
(* and updateTrusted replaces the trusted set.                             *)
UpdateTrusted(S) ==
    /\ trustPending = None
    /\ trustChanges < MaxTrustChanges
    /\ S /= trusted
    /\ trusted' = S
    /\ trustPending' = [added |-> S \ trusted, removed |-> trusted \ S]
    /\ trustChanges' = trustChanges + 1
    /\ Flush
    /\ UNCHANGED <<now, crossed, available, inflight, localSeq, seqEnforcers,
                   storeVars, sweepVars>>

(* Mutant: removed nodes keep their flag.                                  *)
FlaggedIfAdded(v) ==
    IF v.node \in trustPending.added THEN [v EXCEPT !.trusted = TRUE] ELSE v

(* A validation once the outstanding change is applied to its flag.        *)
Flagged(v) ==
    CASE v.node \in trustPending.added   -> [v EXCEPT !.trusted = TRUE]
      [] v.node \in trustPending.removed -> [v EXCEPT !.trusted = FALSE]
      [] OTHER -> v

(* trustChanged(): first over current_, in hash-map order: the nodes in    *)
(* first are visited before any added one, whose updateTrie() completes    *)
(* acquisitions. Then over byLedger_.                                      *)
TrustChanged ==
    /\ trustPending /= None
    /\ LET added   == {v \in Current : v.node \in trustPending.added}
           removed == {v \in Current : v.node \in trustPending.removed}
       IN  \E first \in SUBSET removed :
             /\ added = {} => first = removed
             /\ LET last0 == RemoveTrie(lastLedger, first)
                    acq0  == RemoveAcquiring(acquiring, first)
                    acq1  == AwaitLedgers(StillWaiting(acq0), added)
                IN  IF added = {}
                    THEN lastLedger' = last0 /\ acquiring' = acq0
                    ELSE /\ \E r \in CheckAcquired(last0, acq0) :
                              lastLedger' = RemoveTrie(MoveTo(r, added), removed \ first)
                         /\ acquiring' = RemoveAcquiring(acq1, removed \ first)
    /\ current' = [n \in Nodes |-> IF current[n] = None THEN None ELSE Flagged(current[n])]
    /\ byLedger' = {Flagged(e) : e \in byLedger}
    /\ trustPending' = None
    /\ UNCHANGED <<now, trusted, trustChanges, crossed, available, inflight, localSeq,
                   seqEnforcers, ledgerWhen, bySequence, sequenceWhen, sweepVars>>

(* currentTrusted(), getCurrentNodeIDs(), laggards(): queries that flush.  *)
QueryCurrent ==
    /\ Flush
    /\ UNCHANGED <<now, trustVars, available, inflight, localSeq,
                   seqEnforcers, storeVars, sweepVars>>

(* Mutant: completed acquisitions are not looked for.                      *)
WithTrieUnchecked ==
    /\ Flush
    /\ UNCHANGED <<now, trustVars, available, inflight, localSeq,
                   seqEnforcers, storeVars, sweepVars>>

(* withTrie(): flush, then complete acquisitions. Run by getPreferred and  *)
(* getNodesAfter, that is by every tick of the consensus timer.            *)
WithTrie ==
    /\ current' = WithoutStale
    /\ LET acq == RemoveAcquiring(acquiring, Stale)
       IN  /\ \E r \in CheckAcquired(RemoveTrie(lastLedger, Stale), acq) :
                 lastLedger' = r
           /\ acquiring' = StillWaiting(acq)
    /\ UNCHANGED <<now, trustVars, available, inflight, localSeq,
                   seqEnforcers, storeVars, sweepVars>>

(* numTrustedForLedger(), getTrustedForLedger(), fees(): a query of one    *)
(* set of byLedger_ touches it.                                            *)
QueryLedger(l) ==
    /\ \E e \in byLedger : e.ledger = l
    /\ ledgerWhen' = [ledgerWhen EXCEPT ![l] = now]
    /\ UNCHANGED <<now, trustVars, available, inflight, currVars, localSeq,
                   seqEnforcers, byLedger, bySequence, sequenceWhen, sweepVars>>

SetSeqToKeep(r) ==
    /\ toKeep' = r
    /\ UNCHANGED <<now, trustVars, available, inflight, currVars, localSeq,
                   seqEnforcers, storeVars, refreshTime>>

(* Mutant: the lower end of the range is left out.                         *)
InOpenRange(s) == toKeep.low < s /\ s < toKeep.high

InRange(s) == toKeep.low <= s /\ s < toKeep.high

(* expire(): when the refresh time has come the sets in the range to keep  *)
(* are touched (a set of byLedger_ goes by the first validation the hash   *)
(* map yields); then every set untouched for SetExpires is dropped.        *)
Expire ==
    LET refresh == toKeep /= None /\ refreshTime <= now
        seqsOf(l) == {e.seq : e \in {f \in byLedger : f.ledger = l}}
        may  == {l \in Ledgers : refresh /\ \E s \in seqsOf(l) : InRange(s)}
        must == {l \in may : \A s \in seqsOf(l) : InRange(s)}
    IN  /\ refreshTime' = IF refresh THEN now + SetExpires - Freshness ELSE refreshTime
        /\ \E some \in SUBSET (may \ must) :
              ledgerWhen' = [l \in Ledgers |->
                  IF l \in must \cup some THEN now ELSE ledgerWhen[l]]
        /\ sequenceWhen' = [s \in Seqs |->
              IF refresh /\ InRange(s) /\ (\E e \in bySequence : e.seq = s)
              THEN now ELSE sequenceWhen[s]]
        /\ byLedger' = {e \in byLedger : ledgerWhen'[e.ledger] > now - SetExpires}
        /\ bySequence' = {e \in bySequence : sequenceWhen'[e.seq] > now - SetExpires}
        /\ UNCHANGED <<now, trustVars, available, inflight, currVars, localSeq,
                       seqEnforcers, toKeep>>

Next ==
    \/ Tick
    \/ \E l \in Ledgers : LedgerArrives(l) \/ QueryLedger(l)
    \/ \E s \in LocalSeqs : CanValidateSeq(s)
    \/ \E o \in Offers : Receive(o)
    \/ \E v \in inflight : Add(v) \/ DropStale(v)
    \/ \E S \in SUBSET Nodes : UpdateTrusted(S)
    \/ TrustChanged
    \/ QueryCurrent
    \/ WithTrie
    \/ \E r \in KeepRanges : SetSeqToKeep(r)
    \/ Expire

Spec == Init /\ [][Next]_vars

(* The consensus timer keeps ticking, and each tick asks for the preferred *)
(* ledger (Consensus::checkLedger).                                        *)
FairSpec == Spec /\ WF_vars(WithTrie)

(***************************************************************************)
(* The preferred working ledger                                            *)
(***************************************************************************)
Support == [l \in Ledgers |-> Cardinality({n \in Nodes : lastLedger[n] = l})]

(* The ledger most waited for, ties broken by id.                          *)
MostAwaited ==
    LET Count(l) == Cardinality({t \in acquiring : t[3] = l})
        waited   == {t[3] : t \in acquiring}
    IN  IF waited = {}
        THEN NoLedger
        ELSE CHOOSE l \in waited : \A m \in waited :
                Count(l) > Count(m) \/ (Count(l) = Count(m) /\ l >= m)

(* getPreferred(curr): NoLedger stands for nullopt.                        *)
Preferred(curr) ==
    LET p == PreferredLedger(Support, localSeq.seq)
    IN  CASE p = NoLedger -> MostAwaited
          [] p /= NoLedger /\ (\/ seq[p] = seq[curr] + 1 /\ At(p, seq[curr]) = curr
                               \/ seq[p] <= seq[curr] /\ At(curr, seq[p]) = p) -> curr
          [] OTHER -> p

(***************************************************************************)
(* Properties                                                              *)
(***************************************************************************)
(* The variables have the shapes of the class's members.                   *)
TypeOK ==
    /\ now \in Times
    /\ trusted \subseteq Nodes
    /\ trustPending \in [added : SUBSET Nodes, removed : SUBSET Nodes] \cup {None}
    /\ trustChanges \in 0 .. MaxTrustChanges
    /\ crossed \subseteq Nodes
    /\ available \subseteq Ledgers
    /\ inflight \subseteq Validation
    /\ current \in [Nodes -> Validation \cup {None}]
    /\ \A n \in Nodes : current[n] /= None => current[n].node = n
    /\ localSeq \in [seq : Nat, when : Times]
    /\ seqEnforcers \in [Nodes -> [seq : Nat, when : Times]]
    /\ byLedger \subseteq Entry
    /\ ledgerWhen \in [Ledgers -> Times]
    /\ bySequence \subseteq Sighting
    /\ sequenceWhen \in [Seqs -> Times]
    /\ toKeep \in KeepRanges \cup {None}
    /\ refreshTime \in Nat
    /\ lastLedger \in [Nodes -> Ledgers \cup {None}]
    /\ acquiring \subseteq Nodes \X Seqs \X Ledgers

(* However a validator signs, and however its validations are delayed,     *)
(* repeated or reordered, the store never counts two validations by it for *)
(* the same sequence number and different ledgers unless they were         *)
(* accepted more than SetExpires apart (SeqEnforcer, add()).               *)
NoEquivocationCounted ==
    \A e, f \in byLedger :
        e.node = f.node /\ e.seq = f.seq /\ e.ledger /= f.ledger
        => e.at > f.at + SetExpires \/ f.at > e.at + SetExpires

(* A validator is reported as conflicting only if it did sign two          *)
(* validations for one sequence number, for different ledgers or at        *)
(* different times (the Byzantine detector of add()).                      *)
NoFalseAccusation ==
    \A v \in inflight :
        ~Advances(seqEnforcers[v.node], now, v.seq) /\ Refusal(v) = "Conflicting" =>
            \E o \in Offers : /\ o.node = v.node /\ o.seq = v.seq
                              /\ o.ledger /= v.ledger \/ o.signTime /= v.signTime

(* The trust flag of every validation in byLedger_ is the present trust in *)
(* its signer whenever no change of the trusted set is outstanding, except *)
(* for a validation whose trust was looked up before a change and that was *)
(* added after the store was told of it (trustChanged,                     *)
(* handleNewValidation).                                                   *)
FlagsFollowTrust ==
    trustPending = None =>
        \A e \in byLedger : e.raced \/ e.trusted = (e.node \in trusted)

(* The current validation of a trusted node is never lost from fork        *)
(* choice: its ledger is the node's tip in the trie or the node waits for  *)
(* it, unless a validation of the node crossed a change of trust (add,     *)
(* updateTrie, checkAcquired, trustChanged).                               *)
CurrentIsTracked ==
    \A v \in Current : v.trusted /\ v.node \notin crossed =>
        lastLedger[v.node] = v.ledger \/ Waits(v) \in acquiring

(* A node waits for no ledger but that of its current validation, so an    *)
(* acquisition that completes late never moves a node's support back to a  *)
(* ledger it has left, unless a validation of the node crossed a change of *)
(* trust (updateTrie, removeTrie, trustChanged).                           *)
WaitingIsCurrent ==
    \A t \in acquiring : t[1] \in crossed \/ \E v \in Current : v.trusted /\ Waits(v) = t

(* A ledger that has become available does not stay waited for.            *)
WaitingResolved ==
    LET overdue == \E t \in acquiring : t[3] \in available
    IN  overdue ~> ~overdue

(* "This also updates the trie to ensure only currently trusted nodes'     *)
(* validations are used" (trustChanged): the step that applies a change    *)
(* leaves no support of an untrusted node in the trie.                     *)
OnlyTrustedInTrie ==
    [][trustPending /= None /\ trustPending' = None =>
        \A n \in Nodes : lastLedger'[n] /= None => n \in trusted']_vars

(* "A ledger is preferred if it has more support amongst trusted           *)
(* validators and is *not* an ancestor of the current working ledger;      *)
(* otherwise it remains the current working ledger" (getPreferred).        *)
PreferredNotAncestor ==
    \A curr \in available : Preferred(curr) \notin Chain[curr] \ {curr}

(* "Set the range [low, high) of validations to keep from expire"          *)
(* (setSeqToKeep): while the range stays as it is, no sweep drops a set of *)
(* validations in it, although the sets are only touched once in a while   *)
(* (expire).                                                               *)
KeptSetsSurvive ==
    [][\A e \in byLedger : toKeep /= None /\ e.seq \in toKeep.low .. toKeep.high - 1 =>
            \E f \in byLedger' : f.ledger = e.ledger]_vars
=============================================================================
