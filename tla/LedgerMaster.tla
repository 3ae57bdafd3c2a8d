----------------------------- MODULE LedgerMaster -----------------------------
(***************************************************************************)
(* How one node comes to a fully validated ledger and publishes it         *)
(* (LedgerMaster.cpp), with the threads that drive it:                     *)
(*   - job-queue workers that handle a validation from a peer              *)
(*     (NetworkOPsImp::recvValidation, handleNewValidation, checkAccept)   *)
(*     or a completed acquisition (the AcqDone job of InboundLedger);      *)
(*   - the consensus job that builds a ledger (RCLConsensus::doAccept,     *)
(*     consensusBuilt, switchLCL);                                         *)
(*   - the advance job that publishes (tryAdvance, doAdvance).             *)
(*                                                                         *)
(* A step is what a thread does under one hold of a lock, or between two   *)
(* of its reads of shared state. The quorum and the trusted set are fixed. *)
(* The clock is left out: the close times of candidate ledgers are taken   *)
(* to be near, which leaves MaxJump of canBeCurrent. Fetching history is   *)
(* not part of this module.                                                *)
(***************************************************************************)
EXTENDS RCLValidatedLedger, FiniteSets, Sequences

CONSTANTS
    NoOne,          \* no validator
    Validators,     \* the trusted validators
    Quorum,         \* ValidatorList::quorum()
    Signed,         \* validations that may arrive, <<validator, ledger>>
    Builds,         \* ledgers the local consensus may build
    Workers,        \* job-queue threads
    MaxJump,        \* how far canBeCurrent lets the sequence number jump
    MaxLedgerGap,   \* kMaxLedgerGap
    MaxFailures     \* bound: acquisitions that fail

ASSUME MasterAssumption ==
    /\ IsFiniteSet(Validators) /\ Quorum \in 1 .. Cardinality(Validators)
    /\ Signed \subseteq Validators \X Ledgers
    /\ Builds \subseteq Ledgers
    /\ MaxJump \in Nat /\ MaxLedgerGap \in Nat /\ MaxFailures \in Nat
    /\ -1 \notin Ledgers

VARIABLES
    toCome,     \* validations not yet received
    pending,    \* pendingValidations_
    accepted,   \* trusted validations in the store, <<validator, ledger>>
    worker,     \* the job-queue workers
    have,       \* ledgers held (ledgerHistory_)
    acquiring,  \* ledgers being acquired (InboundLedgers)
    acquired,   \* acquisitions whose AcqDone job has not run
    failures,   \* acquisitions that have failed
    building,   \* buildingLedgerSeq_
    round,      \* the consensus job
    closed,     \* closedLedger_
    valid,      \* validLedger_
    lastValid,  \* lastValidLedger_
    pub,        \* pubLedger_
    advanceWork,\* advanceWork_
    advance     \* the advance job; it exists iff advanceThread_

vars == <<toCome, pending, accepted, worker, have, acquiring, acquired,
          failures, building, round, closed, valid, lastValid, pub,
          advanceWork, advance>>

storeVars   == <<toCome, pending, accepted>>
acquireVars == <<have, acquiring, acquired, failures>>
roundVars   == <<building, round, closed>>
validVars   == <<valid, pub, advanceWork, advance>>

NoLedger == -1
SeqOf(l) == IF l = NoLedger THEN 0 ELSE seq[l]
validSeq == SeqOf(valid)
pubSeq   == SeqOf(pub)

Count(l) == Cardinality({n \in Validators : <<n, l>> \in accepted})

Idle == [pc |-> "idle", ledger |-> NoLedger, by |-> NoOne, bypass |-> FALSE]
OpenOn(p) == [pc |-> "open", prev |-> p, ledger |-> NoLedger, target |-> NoLedger]
NoAdvance == [pc |-> "none", from |-> 0, upTo |-> NoLedger, list |-> <<>>]

(***************************************************************************)
(* Helpers                                                                 *)
(***************************************************************************)
canBeCurrent(l) ==
    valid = NoLedger \/ (validSeq <= seq[l] /\ seq[l] <= validSeq + MaxJump)

(* The latest validation the store has of n, which is its current one.     *)
CurrentOf(n) ==
    LET mine == {l \in Ledgers : <<n, l>> \in accepted}
    IN  IF mine = {} THEN NoLedger
        ELSE CHOOSE l \in mine : \A m \in mine : seq[m] <= seq[l]

(* tryAdvance(), called with the ledger newValid as validated ledger.      *)
tryAdvance(newValid) ==
    /\ advanceWork' = TRUE
    /\ advance' = IF advance.pc = "none" /\ newValid /= NoLedger
                  THEN [NoAdvance EXCEPT !.pc = "loop"]
                  ELSE advance

(* Mutant: the local node's word is counted as one more.                   *)
AcceptableWithOwn(l) == canBeCurrent(l) /\ seq[l] > validSeq /\ Count(l) + 1 >= Quorum

(* checkAccept(ledger).                                                    *)
Acceptable(l) == canBeCurrent(l) /\ seq[l] > validSeq /\ Count(l) >= Quorum

(* Mutant: the first ledger that is checked is published at once.          *)
checkAcceptPublishing(l) ==
    /\ pub' = IF pub = NoLedger THEN l ELSE pub
    /\ IF Acceptable(l)
       THEN valid' = l /\ tryAdvance(l)
       ELSE UNCHANGED <<valid, advanceWork, advance>>

checkAccept(l) ==
    IF Acceptable(l)
    THEN /\ valid' = l
         /\ pub' = IF pub = NoLedger THEN l ELSE pub
         /\ tryAdvance(l)
    ELSE UNCHANGED validVars

(* The first part of checkAccept(hash, seq).                               *)
NoteQuorum(l) ==
    lastValid' = IF Count(l) >= Quorum /\ seq[l] > SeqOf(lastValid) THEN l ELSE lastValid

(* The second: a ledger that is not held is asked for.                     *)
Skips(l) == seq[l] = validSeq \/ seq[l] = building

Acquire(L) == acquiring' = acquiring \cup (L \ have)

(***************************************************************************)
(* Workers: validations and completed acquisitions                         *)
(***************************************************************************)
Init ==
    /\ toCome = Signed
    /\ pending = {}
    /\ accepted = {}
    /\ worker = [w \in Workers |-> Idle]
    /\ have = {}
    /\ acquiring = {}
    /\ acquired = {}
    /\ failures = 0
    /\ building = 0
    /\ round = OpenOn(Genesis)
    /\ closed = Genesis
    /\ valid = NoLedger
    /\ lastValid = NoLedger
    /\ pub = NoLedger
    /\ advanceWork = FALSE
    /\ advance = NoAdvance

Goto(w, label) == worker' = [worker EXCEPT ![w].pc = label]

(* recvValidation(): under validationsMutex_, a ledger for which another   *)
(* worker is handling a validation already is not checked again.           *)
recvValidation(w, n, l) ==
    /\ worker[w].pc = "idle"
    /\ <<n, l>> \in toCome
    /\ toCome' = toCome \ {<<n, l>>}
    /\ worker' = [worker EXCEPT ![w] =
            [pc |-> "add", ledger |-> l, by |-> n, bypass |-> l \in pending]]
    /\ pending' = pending \cup {l}
    /\ UNCHANGED <<accepted, acquireVars, roundVars, validVars, lastValid>>

(* handleNewValidation(): the validation is added if its sequence number   *)
(* is the validator's largest yet; only then is the ledger checked.        *)
handleNewValidation(w) ==
    LET l == worker[w].ledger
        n == worker[w].by
        current == seq[l] > SeqOf(CurrentOf(n))
    IN  /\ worker[w].pc = "add"
        /\ accepted' = IF current THEN accepted \cup {<<n, l>>} ELSE accepted
        /\ Goto(w, IF current /\ ~worker[w].bypass THEN "count" ELSE "finish")
        /\ UNCHANGED <<toCome, pending, acquireVars, roundVars, validVars, lastValid>>

CountValidations(w) ==
    LET l == worker[w].ledger
    IN  /\ worker[w].pc = "count"
        /\ IF seq[l] < validSeq
           THEN Goto(w, "finish") /\ UNCHANGED lastValid
           ELSE Goto(w, "lookup") /\ NoteQuorum(l)
        /\ UNCHANGED <<storeVars, acquireVars, roundVars, validVars>>

LookUp(w) ==
    LET l == worker[w].ledger
    IN  /\ worker[w].pc = "lookup"
        /\ IF Skips(l)
           THEN Goto(w, "finish") /\ UNCHANGED acquiring
           ELSE /\ Goto(w, IF l \in have THEN "accept" ELSE "finish")
                /\ Acquire({l})
        /\ UNCHANGED <<storeVars, have, acquired, failures, roundVars, validVars, lastValid>>

CheckLedger(w) ==
    /\ worker[w].pc = "accept"
    /\ checkAccept(worker[w].ledger)
    /\ Goto(w, "finish")
    /\ UNCHANGED <<storeVars, acquireVars, roundVars, lastValid>>

(* The end of recvValidation().                                            *)
Finish(w) ==
    /\ worker[w].pc = "finish"
    /\ worker' = [worker EXCEPT ![w] = Idle]
    /\ pending' = IF worker[w].bypass THEN pending ELSE pending \ {worker[w].ledger}
    /\ UNCHANGED <<toCome, accepted, acquireVars, roundVars, validVars, lastValid>>

(* Mutant: the job is posted and the ledger is not stored.                 *)
PostUnstored(l) ==
    /\ l \in acquiring
    /\ acquiring' = acquiring \ {l}
    /\ acquired' = acquired \cup {l}
    /\ UNCHANGED <<storeVars, worker, have, failures, roundVars, validVars, lastValid>>

(* InboundLedger::done(): the ledger is stored and the AcqDone job posted. *)
StoreLedger(l) ==
    /\ l \in acquiring
    /\ acquiring' = acquiring \ {l}
    /\ have' = have \cup {l}
    /\ acquired' = acquired \cup {l}
    /\ UNCHANGED <<storeVars, worker, failures, roundVars, validVars, lastValid>>

AcquireFails(l) ==
    /\ l \in acquiring
    /\ failures < MaxFailures
    /\ failures' = failures + 1
    /\ acquiring' = acquiring \ {l}
    /\ UNCHANGED <<storeVars, worker, have, acquired, roundVars, validVars, lastValid>>

(* The AcqDone job: checkAccept(ledger), then tryAdvance().                *)
AcqDone(w, l) ==
    /\ worker[w].pc = "idle"
    /\ l \in acquired
    /\ acquired' = acquired \ {l}
    /\ worker' = [worker EXCEPT ![w] = [Idle EXCEPT !.pc = "done", !.ledger = l]]
    /\ checkAccept(l)
    /\ UNCHANGED <<storeVars, have, acquiring, failures, roundVars, lastValid>>

AcqAdvance(w) ==
    /\ worker[w].pc = "done"
    /\ worker' = [worker EXCEPT ![w] = Idle]
    /\ tryAdvance(valid)
    /\ UNCHANGED <<storeVars, acquireVars, roundVars, valid, lastValid, pub>>

(***************************************************************************)
(* The consensus job                                                       *)
(***************************************************************************)
RoundAt(label) == round' = [round EXCEPT !.pc = label]

(* onClose(): from here on this sequence number is being built.            *)
Close(l) ==
    /\ round.pc = "open"
    /\ l \in Builds
    /\ Parent[l] = round.prev
    /\ building' = seq[l]
    /\ round' = [round EXCEPT !.pc = "build", !.ledger = l]
    /\ UNCHANGED <<storeVars, worker, acquireVars, closed, validVars, lastValid>>

(* buildLCL() stores the ledger.                                           *)
Build ==
    /\ round.pc = "build"
    /\ have' = have \cup {round.ledger}
    /\ acquiring' = acquiring \ {round.ledger}
    /\ RoundAt("built")
    /\ UNCHANGED <<storeVars, worker, acquired, failures, building, closed, validVars, lastValid>>

(* consensusBuilt(), in the steps between its reads.                       *)
ConsensusBuilt ==
    /\ round.pc = "built"
    /\ building' = 0
    /\ RoundAt(IF seq[round.ledger] <= validSeq THEN "switch" ELSE "check")
    /\ UNCHANGED <<storeVars, worker, acquireVars, closed, validVars, lastValid>>

CheckBuilt ==
    /\ round.pc = "check"
    /\ checkAccept(round.ledger)
    /\ RoundAt("recount")
    /\ UNCHANGED <<storeVars, worker, acquireVars, building, closed, lastValid>>

(* Mutant: one validation more is asked for.                               *)
MoreThanSufficient == {l \in Ledgers :
    Cardinality({n \in Validators : CurrentOf(n) = l}) > Quorum + 1}

(* The ledgers consensusBuilt() counts as having sufficient validations.   *)
Sufficient == {l \in Ledgers :
    Cardinality({n \in Validators : CurrentOf(n) = l}) > Quorum}

Recount ==
    LET ahead == {l \in Sufficient : seq[l] > validSeq}
        best  == {l \in ahead : \A m \in ahead : seq[m] <= seq[l]}
    IN  /\ round.pc = "recount"
        /\ IF seq[round.ledger] <= validSeq \/ ahead = {}
           THEN RoundAt("switch")
           ELSE \E l \in best : round' = [round EXCEPT !.pc = "count", !.target = l]
        /\ UNCHANGED <<storeVars, worker, acquireVars, building, closed, validVars, lastValid>>

RoundCount ==
    /\ round.pc = "count"
    /\ IF seq[round.target] < validSeq
       THEN RoundAt("switch") /\ UNCHANGED lastValid
       ELSE RoundAt("lookup") /\ NoteQuorum(round.target)
    /\ UNCHANGED <<storeVars, worker, acquireVars, building, closed, validVars>>

RoundLookUp ==
    /\ round.pc = "lookup"
    /\ IF Skips(round.target)
       THEN RoundAt("switch") /\ UNCHANGED acquiring
       ELSE /\ RoundAt(IF round.target \in have THEN "accept" ELSE "switch")
            /\ Acquire({round.target})
    /\ UNCHANGED <<storeVars, worker, have, acquired, failures, building, closed,
                   validVars, lastValid>>

RoundAccept ==
    /\ round.pc = "accept"
    /\ checkAccept(round.target)
    /\ RoundAt("switch")
    /\ UNCHANGED <<storeVars, worker, acquireVars, building, closed, lastValid>>

(* switchLCL().                                                            *)
SwitchLCL ==
    /\ round.pc = "switch"
    /\ closed' = round.ledger
    /\ checkAccept(round.ledger)
    /\ round' = OpenOn(round.ledger)
    /\ UNCHANGED <<storeVars, worker, acquireVars, building, lastValid>>

(* The round starts over on another ledger, which is not behind the        *)
(* validated one: nothing is built, and buildingLedgerSeq_ keeps its value *)
(* until the next close.                                                   *)
handleWrongLedger(p) ==
    /\ round.pc \in {"open", "build"}
    /\ p \in have \ {round.prev}
    /\ seq[p] >= validSeq
    /\ round' = OpenOn(p)
    /\ UNCHANGED <<storeVars, worker, acquireVars, building, closed, validVars, lastValid>>

(***************************************************************************)
(* The advance job                                                         *)
(***************************************************************************)
(* The top of doAdvance() and of findNewLedgersToPublish(), under mutex_:  *)
(* a large gap is jumped, otherwise the ledgers up to the validated one    *)
(* are looked for with the mutex released.                                 *)
AdvanceLoop ==
    /\ advance.pc = "loop"
    /\ advanceWork' = FALSE
    /\ CASE validSeq > pubSeq + MaxLedgerGap ->
              /\ pub' = valid
              /\ advance' = [NoAdvance EXCEPT !.pc = "publish", !.list = <<valid>>]
         [] validSeq <= pubSeq ->
              advance' = NoAdvance /\ UNCHANGED pub
         [] OTHER ->
              /\ advance' = [NoAdvance EXCEPT !.pc = "find", !.from = pubSeq + 1, !.upTo = valid]
              /\ UNCHANGED pub
    /\ UNCHANGED <<storeVars, worker, acquireVars, roundVars, valid, lastValid>>

(* Mutant: any ledger that is held is published next.                      *)
FindAnyLedger ==
    LET wanted == {l \in Chain[advance.upTo] : seq[l] >= advance.from}
        ready  == wanted \cap (have \cup {advance.upTo})
    IN  /\ advance.pc = "find"
        /\ advance' = [NoAdvance EXCEPT !.pc = "publish",
                                        !.list = <<CHOOSE l \in ready : TRUE>>]
        /\ Acquire(wanted \ {advance.upTo})
        /\ UNCHANGED <<storeVars, worker, have, acquired, failures, roundVars,
                       valid, lastValid, pub, advanceWork>>

(* The ledgers from the next to publish on, as far as they are held        *)
(* without a hole; the missing ones are asked for.                         *)
FindLedgers ==
    LET wanted  == {l \in Chain[advance.upTo] : seq[l] >= advance.from}
        ready   == {l \in wanted : \A m \in wanted : seq[m] <= seq[l] =>
                                        m \in have \cup {advance.upTo}}
        found   == [i \in 1 .. Cardinality(ready) |->
                        CHOOSE l \in ready : seq[l] = advance.from + i - 1]
    IN  /\ advance.pc = "find"
        /\ advance' = [NoAdvance EXCEPT !.pc = IF ready = {} THEN "end" ELSE "publish",
                                        !.list = found]
        /\ Acquire(wanted \ {advance.upTo})
        /\ UNCHANGED <<storeVars, worker, have, acquired, failures, roundVars,
                       valid, lastValid, pub, advanceWork>>

(* Mutant: every full ledger becomes the validated one.                    *)
SetFullLedgerValid ==
    LET l == Head(advance.list)
    IN  /\ advance.pc = "publish"
        /\ valid' = l
        /\ pub' = IF pub = NoLedger THEN l ELSE pub
        /\ advance' = [advance EXCEPT !.pc = "setPub"]
        /\ UNCHANGED <<storeVars, worker, acquireVars, roundVars, lastValid, advanceWork>>

(* setFullLedger(), before the ledger is made the published one.           *)
SetFullLedger ==
    LET l == Head(advance.list)
    IN  /\ advance.pc = "publish"
        /\ valid' = IF seq[l] > validSeq THEN l ELSE valid
        /\ pub' = IF pub = NoLedger THEN l ELSE pub
        /\ advance' = [advance EXCEPT !.pc = "setPub"]
        /\ UNCHANGED <<storeVars, worker, acquireVars, roundVars, lastValid, advanceWork>>

(* setPubLedger() and pubLedger() for the ledger, then on to the next.     *)
SetPubLedger ==
    /\ advance.pc = "setPub"
    /\ pub' = Head(advance.list)
    /\ advance' = [advance EXCEPT !.list = Tail(@),
                        !.pc = IF Tail(advance.list) = <<>> THEN "published" ELSE "publish"]
    /\ UNCHANGED <<storeVars, worker, acquireVars, roundVars, valid, lastValid, advanceWork>>

(* Mutant: work that came up meanwhile is not looked for.                  *)
AdvanceStops ==
    /\ advance.pc \in {"end", "published"}
    /\ advance' = NoAdvance
    /\ UNCHANGED <<storeVars, worker, acquireVars, roundVars, valid, lastValid, pub, advanceWork>>

(* The end of the loop: more work came up meanwhile, or path finding has   *)
(* been started for what was published, or the job ends.                   *)
AdvanceEnd ==
    /\ advance.pc \in {"end", "published"}
    /\ \E progress \in {FALSE, advance.pc = "published"} :
          advance' = IF advanceWork \/ progress
                     THEN [NoAdvance EXCEPT !.pc = "loop"] ELSE NoAdvance
    /\ UNCHANGED <<storeVars, worker, acquireVars, roundVars, valid, lastValid, pub, advanceWork>>

WorkerStep(w) ==
    \/ handleNewValidation(w) \/ CountValidations(w) \/ LookUp(w) \/ CheckLedger(w)
    \/ Finish(w) \/ AcqAdvance(w)
    \/ \E l \in Ledgers : AcqDone(w, l)

RoundStep ==
    \/ Build \/ ConsensusBuilt \/ CheckBuilt \/ Recount
    \/ RoundCount \/ RoundLookUp \/ RoundAccept \/ SwitchLCL

AdvanceStep ==
    AdvanceLoop \/ FindLedgers \/ SetFullLedger \/ SetPubLedger \/ AdvanceEnd

Next ==
    \/ \E w \in Workers : \/ \E n \in Validators, l \in Ledgers : recvValidation(w, n, l)
                           \/ WorkerStep(w)
    \/ \E l \in Ledgers : StoreLedger(l) \/ AcquireFails(l) \/ Close(l)
                                \/ handleWrongLedger(l)
    \/ RoundStep
    \/ AdvanceStep

Spec == Init /\ [][Next]_vars

(* Started jobs run on, and what is asked for arrives in the end.          *)
FairSpec ==
    /\ Spec
    /\ \A w \in Workers : WF_vars(WorkerStep(w))
    /\ \A l \in Ledgers : WF_vars(StoreLedger(l))
    /\ WF_vars(RoundStep)
    /\ WF_vars(AdvanceStep)

(***************************************************************************)
(* Properties                                                              *)
(***************************************************************************)
(* The variables have the shapes of the members they model.                *)
TypeOK ==
    /\ toCome \subseteq Signed
    /\ pending \subseteq Ledgers
    /\ accepted \subseteq Signed
    /\ worker \in [Workers ->
            [pc : {"idle", "add", "count", "lookup", "accept", "finish", "done"},
             ledger : Ledgers \cup {NoLedger}, by : Validators \cup {NoOne},
             bypass : BOOLEAN]]
    /\ have \subseteq Ledgers /\ acquiring \subseteq Ledgers /\ acquired \subseteq have
    /\ failures \in 0 .. MaxFailures
    /\ building \in {0} \cup {seq[l] : l \in Builds}
    /\ round \in [pc : {"open", "build", "built", "check", "recount", "count",
                        "lookup", "accept", "switch"}, prev : AllLedgers,
                  ledger : Builds \cup {NoLedger}, target : Ledgers \cup {NoLedger}]
    /\ closed \in AllLedgers
    /\ {valid, lastValid, pub} \subseteq Ledgers \cup {NoLedger}
    /\ advanceWork \in BOOLEAN
    /\ advance.pc \in {"none", "loop", "find", "publish", "setPub", "published", "end"}

(* The fully validated ledger always has a quorum of trusted validations   *)
(* and is held, although setFullLedger would set it without counting       *)
(* (checkAccept, setFullLedger).                                           *)
ValidIsBacked ==
    valid /= NoLedger => Count(valid) >= Quorum /\ valid \in have

(* Publishing never overtakes validation (doAdvance works on what it read  *)
(* before it released the mutex).                                          *)
PublishedIsValidated == pubSeq <= validSeq

(* Ledgers are published in an unbroken chain: the next one is the child   *)
(* of the last, or a gap too large to fill is jumped                       *)
(* (findNewLedgersToPublish), as long as the ledgers that find a quorum    *)
(* are on one chain.                                                       *)
PublishedIsChain ==
    [][pub' /= pub /\ pub /= NoLedger =>
        Parent[pub'] = pub \/ seq[pub'] > pubSeq + MaxLedgerGap]_vars

(* The fully validated ledger only ever gives way to one with a larger     *)
(* sequence number, whichever threads check ledgers at the same time.      *)
ValidAdvances ==
    [][valid' /= valid => SeqOf(valid') > validSeq]_vars

(* Nothing is under way that could still lead to a check of a ledger.      *)
Quiet ==
    /\ \A w \in Workers : worker[w].pc = "idle"
    /\ acquired = {} /\ round.pc = "open" /\ building = 0

Overlooked(l) ==
    /\ seq[l] > validSeq /\ canBeCurrent(l)
    /\ l \notin acquiring /\ failures = 0

(* While one worker handles validations, a ledger that more than a quorum  *)
(* of validators are on is not overlooked: it is validated or being        *)
(* acquired once all checks have run, although checks are skipped while    *)
(* its sequence number is being built (checkAccept, consensusBuilt).       *)
MajorityNotOverlooked ==
    Quiet => \A l \in Ledgers :
        Cardinality({n \in Validators : CurrentOf(n) = l}) > Quorum => ~Overlooked(l)

(* "This ledger cannot be the new fully-validated ledger, but maybe we     *)
(* saved up validations for some other ledger that can be": a ledger that  *)
(* a quorum has validated is not overlooked (consensusBuilt).              *)
QuorumNotOverlooked ==
    Quiet => \A l \in Ledgers :
        Cardinality({n \in Validators : CurrentOf(n) = l}) >= Quorum => ~Overlooked(l)

(* A validated ledger is published in the end, with all those before it:   *)
(* no request to advance is lost between the job that ends and the thread  *)
(* that finds it still running (tryAdvance, doAdvance).                    *)
ValidIsPublished == validSeq > pubSeq ~> validSeq = pubSeq
=============================================================================
