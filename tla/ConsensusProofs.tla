--------------------------- MODULE ConsensusProofs ---------------------------
(***************************************************************************)
(* Proofs about a node's side of a consensus round (module Consensus), for *)
(* any numbers of peers, transactions, ledgers, proposals and rounds.      *)
(***************************************************************************)
EXTENDS ConsensusDisputes

(* The object between two calls, the proposals that may still come, and    *)
(* the rounds so far.                                                      *)
ConsensusInv ==
    /\ ObjectInv(c, {})
    /\ coming \subseteq Offers /\ rounds \in Nat
    /\ rounds = 0 => c.phase = "Accepted" /\ c.result = None
    /\ (rounds > 0 /\ c.phase = "Accepted") => c.result /= None
-----------------------------------------------------------------------------
(* What is told to the peers changes only while we propose.                *)
Quiet(o, u) == u.mode = o.mode /\ (~Proposing(o) => u.sent = o.sent)

(* A position starts with no disputes.                                     *)
LEMMA NoDisputes == <<>> \in DisputeMaps /\ DOMAIN <<>> = {}
  <1>1. <<>> \in [{} -> DisputeType(Peers)] /\ DOMAIN <<>> = {}
    OBVIOUS
  <1>2. QED
    BY <1>1, {} \in SUBSET Txs, Zenon DEF DisputeMaps

(* The position taken when the ledger is closed, and its first proposal.   *)
NewResult(o, e) ==
    [prev |-> o.prev, txns |-> e.set, seq |-> 0, ct |-> e.ct, told |-> 0, time |-> 0,
     disputes |-> <<>>, compares |-> {}, state |-> "No"]

Closing(o, e) ==
    [o EXCEPT !.phase = "Establish", !.unchanged = 0, !.established = 0,
              !.result = NewResult(o, e),
              !.acquired = @ \cup {e.set}, !.inbound = @ \cup {e.set}]

(* The results of a round start out well formed (Adaptor::onClose).        *)
LEMMA NewResultType ==
    ASSUME NEW o, NEW e \in Answers, ObjectInv(o, {})
    PROVE  NewResult(o, e) \in Results
  <1>1. e.set \in SUBSET Txs /\ e.ct \in Nat
    BY AnswersAssumption
  <1>2. o.prev \in Ledgers \cup {None}
    BY DEF ObjectInv, DisputesInv, Shape
  <1>3. 0 \in 0 .. Leave
    BY BoundsAssumption
  <1>4. QED
    BY <1>1, <1>2, <1>3, NoDisputes DEF NewResult, Results

(* Closing the ledger takes a position, tells the peers when we propose,   *)
(* and disputes whatever they already differ on (closeLedger).             *)
LEMMA CloseInv ==
    ASSUME NEW o, NEW e \in Answers, ObjectInv(o, {}), o.phase = "Open",
           NEW u, u = closeLedger(o, e)
    PROVE  ObjectInv(u, {}) /\ Quiet(o, u) /\ u.phase = "Establish"
  <1>1. DOMAIN o = Fields
    BY DEF ObjectInv, DisputesInv, Shape
  <1>2. PICK v : v = Closing(o, e)
    OBVIOUS
  <1>3. /\ v.phase = "Establish" /\ v.mode = o.mode /\ v.prevID = o.prevID /\ v.prev = o.prev
        /\ v.acquired = o.acquired \cup {e.set} /\ v.peers = o.peers /\ v.recent = o.recent
        /\ v.dead = o.dead /\ v.sent = o.sent /\ DOMAIN v = Fields /\ v.result = NewResult(o, e)
    BY <1>1, <1>2 DEF Closing, Fields
  <1>4. PICK w : w = IF Proposing(v) THEN propose(v) ELSE v
    OBVIOUS
  <1>5. u = createDisputes(w, {w.peers[p].set : p \in Known(w)})
    BY <1>2, <1>4 DEF closeLedger, Closing, NewResult
  <1>6. /\ w.phase = "Establish" /\ w.mode = o.mode /\ w.prevID = o.prevID /\ w.prev = o.prev
        /\ w.acquired = o.acquired \cup {e.set} /\ w.peers = o.peers /\ w.recent = o.recent
        /\ w.dead = o.dead /\ DOMAIN w = Fields /\ w.result = NewResult(o, e)
        /\ w.sent = IF Proposing(o) THEN [prev |-> w.result.prev, seq |-> w.result.seq,
                                          set |-> w.result.txns, ct |-> w.result.ct]
                    ELSE o.sent
    BY <1>3, <1>4 DEF propose, Proposing, Fields
  <1>7. w.result \in Results /\ w.result /= None
    BY <1>6, NewResultType, NoneAssumption
  <1>8. /\ w.result.prev = o.prev /\ w.result.seq = 0 /\ w.result.txns = e.set
        /\ w.result.disputes = <<>> /\ w.result.compares = {}
    BY <1>6 DEF NewResult
  <1>9. Told(w)
    <2>1. 0 <= SeqCap
      BY BoundsAssumption DEF SeqCap
    <2>2. Proposing(o) => o.prev = o.prevID
      BY DEF ObjectInv, DisputesInv, Told
    <2>3. QED
      BY <1>6, <1>8, <2>1, <2>2, Zenon DEF Told, Proposing
  <1>10. Shape(w) /\ Positions(w)
    BY <1>6, <1>7 DEF ObjectInv, DisputesInv, Shape, Positions
  <1>11. PICK P : P = Known(w)
    OBVIOUS
  <1>12. Disputing(w, P)
    BY <1>8, <1>11, NoDisputes DEF Disputing
  <1>13. ObjectInv(w, P)
    BY <1>6, <1>7, <1>8, <1>9, <1>10, <1>12 DEF ObjectInv, DisputesInv
  <1>14. PICK sets : sets = {w.peers[p].set : p \in P}
    OBVIOUS
  <1>15. sets \in SUBSET SUBSET Txs
    <2>1. \A p \in P : w.peers[p] \in Seen
      BY <1>10, <1>11 DEF Known, Positions
    <2>2. \A q \in Seen : q.set \in SUBSET Txs
      BY OffersAssumption DEF Seen
    <2>3. QED
      BY <1>14, <2>1, <2>2
  <1>16. u = createDisputes(w, sets)
    BY <1>5, <1>11, <1>14, Zenon
  <1>17. /\ ObjectInv(u, P) /\ SameRound(w, u) /\ u.result /= None
         /\ u.peers = w.peers /\ u.acquired = w.acquired
         /\ \A s \in sets : SymDiff(u.result.txns, s) \subseteq DOMAIN u.result.disputes
    <2>1. DisputesInv(w, P) /\ Told(w)
      BY <1>13 DEF ObjectInv
    <2>2. /\ DisputesInv(u, P) /\ SameRound(w, u) /\ u.result /= None
          /\ u.peers = w.peers /\ u.acquired = w.acquired
          /\ \A s \in sets : SymDiff(u.result.txns, s) \subseteq DOMAIN u.result.disputes
      BY <1>7, <1>15, <1>16, <2>1, CreateInv
    <2>3. Told(u)
      BY <2>1, <2>2, ToldStays, Zenon
    <2>4. QED
      BY <2>2, <2>3, Zenon DEF ObjectInv
  <1>18. Created(w, sets, u)
    <2>1. DOMAIN w = Fields /\ w.result \in Results
      BY <1>6, <1>7
    <2>2. QED
      BY <1>16, <2>1, CreateFields, Zenon
  <1>19. Known(u) = P
    BY <1>11, <1>17 DEF Known
  <1>20. \A t \in DOMAIN u.result.disputes : \A p \in P :
            /\ p \in DOMAIN u.result.disputes[t].votes
            /\ u.result.disputes[t].votes[p] <=> t \in u.peers[p].set
    <2>1. ASSUME NEW t \in DOMAIN u.result.disputes
          PROVE  u.result.disputes[t].votes = [p \in P |-> t \in w.peers[p].set]
      <3>1. u.result.disputes[t] =
               NewDispute(t \in w.result.txns, [p \in P |-> t \in w.peers[p].set])
        BY <1>8, <1>11, <1>18, NoDisputes, Zenon DEF Created
      <3>2. QED
        BY <3>1 DEF NewDispute
    <2>2. ASSUME NEW t \in DOMAIN u.result.disputes, NEW p \in P
          PROVE  /\ p \in DOMAIN u.result.disputes[t].votes
                 /\ u.result.disputes[t].votes[p] = (t \in u.peers[p].set)
      <3>1. u.peers = w.peers
        BY <1>17
      <3>2. u.result.disputes[t].votes = [r \in P |-> t \in w.peers[r].set]
        BY <2>1
      <3>3. QED
        BY <3>1, <3>2
    <2>3. QED
      BY <2>2, Zenon
  <1>21. \A p \in P : SymDiff(u.result.txns, u.peers[p].set) \subseteq DOMAIN u.result.disputes
    <2>1. ASSUME NEW p \in P PROVE u.peers[p].set \in sets
      BY <1>14, <1>17, Zenon
    <2>2. QED
      BY <1>17, <2>1, Zenon
  <1>22. Disputing(u, {})
    <2>1. Disputing(u, P)
      BY <1>17, Zenon DEF ObjectInv, DisputesInv
    <2>2. Known(u) \ {} = P
      BY <1>19
    <2>3. QED
      BY <1>20, <1>21, <2>1, <2>2, Zenon DEF Disputing
  <1>23. ObjectInv(u, {})
    BY <1>17, <1>22, Zenon DEF ObjectInv, DisputesInv
  <1>24. u.mode = w.mode /\ u.sent = w.sent /\ u.phase = w.phase
    BY <1>17 DEF SameRound, Keeps, Fields
  <1>25. QED
    BY <1>6, <1>23, <1>24, Zenon DEF Quiet, Proposing

(* The open phase either waits or closes the ledger (phaseOpen).           *)
LEMMA PhaseOpenInv ==
    ASSUME NEW o, NEW e \in Answers, ObjectInv(o, {}), o.phase = "Open",
           NEW u, u = phaseOpen(o, e)
    PROVE  ObjectInv(u, {}) /\ Quiet(o, u) /\ u.phase \in {"Open", "Establish"}
  <1>1. CASE shouldCloseLedger(o, e)
    <2>1. u = closeLedger(o, e)
      BY <1>1, Zenon DEF phaseOpen
    <2>2. QED
      BY <2>1, CloseInv, Zenon
  <1>2. CASE ~shouldCloseLedger(o, e)
    <2>1. u = o
      BY <1>2, Zenon DEF phaseOpen
    <2>2. QED
      BY <2>1, Zenon DEF Quiet
  <1>3. QED
    BY <1>1, <1>2

(* Who leaves has bowed out, if there was a position to take back.         *)
BowedOut(o, u) ==
    ~Proposing(u) /\ ((Proposing(o) /\ o.result /= None) =>
                         u.sent.seq = Leave /\ u.sent.prev = o.prevID)

(* Leaving stops our proposing and tells the peers (leaveConsensus).       *)
LEMMA LeaveInv ==
    ASSUME NEW o, ObjectInv(o, {}), NEW u, u = leaveConsensus(o)
    PROVE  /\ ObjectInv(u, {}) /\ BowedOut(o, u)
           /\ u.phase = o.phase /\ (~Proposing(o) => u.sent = o.sent)
  <1>1. DOMAIN o = Fields
    BY DEF ObjectInv, DisputesInv, Shape
  <1>2. CASE ~Proposing(o)
    <2>1. u = o
      BY <1>2, Zenon DEF leaveConsensus
    <2>2. QED
      BY <1>2, <2>1, Zenon DEF BowedOut
  <1>3. CASE Proposing(o)
    <2>1. PICK v : v = [o EXCEPT !.mode = "Observing"]
      OBVIOUS
    <2>2. /\ v.phase = o.phase /\ v.mode = "Observing" /\ v.prevID = o.prevID
          /\ v.prev = o.prev /\ v.acquired = o.acquired /\ v.peers = o.peers
          /\ v.recent = o.recent /\ v.dead = o.dead /\ v.sent = o.sent /\ v.result = o.result
          /\ DOMAIN v = Fields
      BY <1>1, <2>1 DEF Fields
    <2>3. Known(v) = Known(o)
      BY <2>2 DEF Known
    <2>4. u = IF v.result = None THEN v
              ELSE IF v.result.seq = Leave THEN v
              ELSE propose([v EXCEPT !.result.seq = Leave, !.result.told = 0])
      BY <1>3, <2>1 DEF leaveConsensus
    <2>5. CASE o.result = None
      <3>1. u = v
        BY <2>2, <2>4, <2>5, Zenon
      <3>2. ObjectInv(v, {})
        BY <2>2, <2>5 DEF ObjectInv, DisputesInv, Shape, Positions, Told, Proposing
      <3>3. QED
        BY <1>3, <2>2, <2>5, <3>1, <3>2 DEF BowedOut, Proposing
    <2>6. CASE o.result /= None
      <3>1. o.result \in Results
        BY <2>6 DEF ObjectInv, DisputesInv, Shape
      <3>2. o.result.seq <= SeqCap /\ o.result.prev = o.prevID /\ o.result.seq \in 0 .. Leave
        BY <1>3, <2>6, <3>1 DEF ObjectInv, DisputesInv, Told, Results
      <3>3. o.result.seq /= Leave /\ Leave \in 0 .. Leave
        BY <3>2, BoundsAssumption DEF SeqCap
      <3>4. PICK w : w = [v EXCEPT !.result.seq = Leave, !.result.told = 0]
        OBVIOUS
      <3>5. u = propose(w)
        BY <2>2, <2>4, <2>6, <3>3, <3>4, Zenon
      <3>6. w.result = [o.result EXCEPT !.seq = Leave, !.told = 0] /\ Keeps(v, w, {"result"})
        BY <2>2, <3>1, <3>4 DEF Fields, Results, Keeps
      <3>7. w.result \in Results /\ w.result /= None
        <4>1. \A r \in Results : [r EXCEPT !.seq = Leave] \in Results
          BY <3>3 DEF Results
        <4>2. \A r \in Results : [r EXCEPT !.told = 0] \in Results
          BY DEF Results
        <4>3. w.result = [[o.result EXCEPT !.seq = Leave] EXCEPT !.told = 0]
          BY <3>6
        <4>4. QED
          BY <3>1, <4>1, <4>2, <4>3, NoneAssumption, Zenon
      <3>8. /\ w.result.seq = Leave /\ w.result.prev = o.prevID /\ w.result.txns = o.result.txns
            /\ w.result.disputes = o.result.disputes /\ w.result.compares = o.result.compares
        BY <3>1, <3>2, <3>6 DEF Results
      <3>9. u.sent = [prev |-> w.result.prev, seq |-> w.result.seq,
                      set |-> w.result.txns, ct |-> w.result.ct] /\ Keeps(w, u, {"sent"})
        BY <2>2, <3>5, <3>6 DEF propose, Fields, Keeps
      <3>10. /\ u.phase = o.phase /\ u.mode = "Observing" /\ u.prevID = o.prevID
             /\ u.prev = o.prev /\ u.acquired = o.acquired /\ u.peers = o.peers
             /\ u.recent = o.recent /\ u.dead = o.dead /\ u.result = w.result
             /\ DOMAIN u = Fields
        BY <2>2, <3>6, <3>9 DEF Fields, Keeps
      <3>11. Known(u) = Known(o)
        BY <3>10 DEF Known
      <3>12. Disputing(u, {})
        <4>1. /\ u.result.txns = o.result.txns /\ u.result.disputes = o.result.disputes
              /\ u.result.compares = o.result.compares /\ u.peers = o.peers
          BY <3>8, <3>10, Zenon
        <4>2. QED
          BY <2>6, <3>11, <4>1, Zenon DEF ObjectInv, DisputesInv, Disputing
      <3>13. Shape(u) /\ Positions(u) /\ Told(u)
        BY <3>7, <3>10 DEF ObjectInv, DisputesInv, Shape, Positions, Told, Proposing
      <3>14. ObjectInv(u, {})
        BY <2>6, <3>7, <3>8, <3>10, <3>12, <3>13, Zenon DEF ObjectInv, DisputesInv
      <3>15. u.sent.seq = Leave /\ u.sent.prev = o.prevID
        BY <3>8, <3>9
      <3>16. QED
        BY <1>3, <3>10, <3>14, <3>15 DEF BowedOut, Proposing
    <2>7. QED
      BY <2>5, <2>6
  <1>4. QED
    BY <1>2, <1>3

(* A round starts with nothing of the last one but the recent proposals.   *)
Fresh(o, id, ledger, mode) ==
    [o EXCEPT !.phase = "Open", !.mode = mode, !.prevID = id, !.prev = ledger,
              !.result = None, !.ctLevel = "Init", !.haveCT = FALSE,
              !.openTime = 0, !.peers = <<>>, !.acquired = {}, !.dead = {}]

(* A round starts from any well-formed object, with nothing left of the    *)
(* last one but the recent proposals (startRoundInternal).                 *)
LEMMA StartInv ==
    ASSUME NEW o, NEW id, NEW ledger \in Ledgers \cup {None}, NEW e \in Answers,
           NEW mode \in {"Proposing", "Observing", "WrongLedger", "SwitchedLedger"},
           mode = "Proposing" => ledger = id,
           Shape(o), NEW u, u = startRoundInternal(o, id, ledger, mode, e)
    PROVE  /\ ObjectInv(u, {}) /\ u.mode = mode /\ (mode /= "Proposing" => u.sent = o.sent)
           /\ u.phase \in {"Open", "Establish"}
  <1>1. DOMAIN o = Fields
    BY DEF Shape
  <1>2. PICK v : v = Fresh(o, id, ledger, mode)
    OBVIOUS
  <1>3. /\ v.phase = "Open" /\ v.mode = mode /\ v.prevID = id /\ v.prev = ledger
        /\ v.acquired = {} /\ v.peers = <<>> /\ v.recent = o.recent
        /\ v.dead = {} /\ v.sent = o.sent /\ DOMAIN v = Fields /\ v.result = None
    BY <1>1, <1>2 DEF Fresh, Fields
  <1>4. ObjectInv(v, {})
    <2>1. Shape(v)
      BY <1>3 DEF Shape
    <2>2. Positions(v)
      BY <1>3, NoDisputes DEF Positions
    <2>3. Told(v)
      BY <1>3 DEF Told, Proposing
    <2>4. QED
      BY <1>3, <2>1, <2>2, <2>3 DEF ObjectInv, DisputesInv
  <1>5. PICK w : w = playbackProposals(v, e.order)
    OBVIOUS
  <1>6. ObjectInv(w, {}) /\ SameRound(v, w)
    BY <1>4, <1>5, PlaybackAllInv, AnswersAssumption
  <1>7. w.phase = "Open" /\ w.mode = mode /\ w.sent = o.sent
    BY <1>3, <1>6 DEF SameRound, Keeps, Fields
  <1>8. u = IF Cardinality(DOMAIN w.peers) > w.prevProposers \div 2 THEN phaseOpen(w, e) ELSE w
    BY <1>2, <1>5, Zenon DEF startRoundInternal, Fresh
  <1>9. CASE u = w
    BY <1>6, <1>7, <1>9
  <1>10. CASE u = phaseOpen(w, e)
    <2>1. ObjectInv(u, {}) /\ Quiet(w, u) /\ u.phase \in {"Open", "Establish"}
      BY <1>6, <1>7, <1>10, PhaseOpenInv
    <2>2. QED
      BY <1>7, <2>1 DEF Quiet, Proposing
  <1>11. QED
    BY <1>8, <1>9, <1>10

(* What changes of the previous ledger leave alone.                        *)
LEMMA ForgetInv ==
    ASSUME NEW o, NEW id, ObjectInv(o, {}), ~Proposing(o), NEW u, u = ForgetPeers(o, id)
    PROVE  /\ ObjectInv(u, {}) /\ u.mode = o.mode /\ u.sent = o.sent /\ u.phase = o.phase
           /\ u.prev = o.prev /\ u.prevID = id
  <1>1. DOMAIN o = Fields
    BY DEF ObjectInv, DisputesInv, Shape
  <1>2. PICK v : v = [o EXCEPT !.prevID = id, !.peers = <<>>, !.dead = {}]
    OBVIOUS
  <1>3. /\ v.phase = o.phase /\ v.mode = o.mode /\ v.prevID = id /\ v.prev = o.prev
        /\ v.acquired = o.acquired /\ v.peers = <<>> /\ v.recent = o.recent
        /\ v.dead = {} /\ v.sent = o.sent /\ v.result = o.result /\ DOMAIN v = Fields
    BY <1>1, <1>2 DEF Fields
  <1>4. u = IF v.result = None THEN v
            ELSE [v EXCEPT !.result.disputes = <<>>, !.result.compares = {}]
    BY <1>2, Zenon DEF ForgetPeers
  <1>5. CASE o.result = None
    <2>1. u = v
      BY <1>3, <1>4, <1>5, Zenon
    <2>2. Shape(v) /\ Told(v)
      BY <1>3 DEF ObjectInv, DisputesInv, Shape, Told, Proposing
    <2>3. Positions(v)
      BY <1>3, NoDisputes DEF Positions
    <2>4. ObjectInv(v, {})
      BY <1>3, <1>5, <2>2, <2>3 DEF ObjectInv, DisputesInv
    <2>5. QED
      BY <1>3, <2>1, <2>4
  <1>6. CASE o.result /= None
    <2>1. o.result \in Results /\ o.result.txns \in o.acquired
      BY <1>6 DEF ObjectInv, DisputesInv, Shape
    <2>2. u = [v EXCEPT !.result.disputes = <<>>, !.result.compares = {}]
      BY <1>3, <1>4, <1>6, Zenon
    <2>3. /\ u.phase = o.phase /\ u.mode = o.mode /\ u.prevID = id /\ u.prev = o.prev
          /\ u.acquired = o.acquired /\ u.peers = <<>> /\ u.recent = o.recent
          /\ u.dead = {} /\ u.sent = o.sent /\ DOMAIN u = Fields
          /\ u.result = [[o.result EXCEPT !.disputes = <<>>] EXCEPT !.compares = {}]
      BY <1>3, <2>1, <2>2 DEF Fields, Results
    <2>4. u.result \in Results /\ u.result /= None
      <3>1. \A r \in Results : [r EXCEPT !.disputes = <<>>] \in Results
        BY NoDisputes DEF Results
      <3>2. \A r \in Results : [r EXCEPT !.compares = {}] \in Results
        BY DEF Results
      <3>3. u.result = [[o.result EXCEPT !.disputes = <<>>] EXCEPT !.compares = {}]
        BY <2>3
      <3>4. QED
        BY <2>1, <3>1, <3>2, <3>3, NoneAssumption, Zenon
    <2>5. u.result.disputes = <<>> /\ u.result.compares = {} /\ u.result.txns = o.result.txns
      BY <2>1, <2>3 DEF Results
    <2>6. Known(u) = {}
      BY <2>3, NoDisputes DEF Known
    <2>7. Disputing(u, {})
      BY <2>5, <2>6, NoDisputes DEF Disputing
    <2>8. Shape(u) /\ Told(u)
      BY <2>3, <2>4 DEF ObjectInv, DisputesInv, Shape, Told, Proposing
    <2>9. Positions(u)
      BY <2>3, NoDisputes DEF Positions
    <2>10. ObjectInv(u, {})
      BY <1>6, <2>1, <2>3, <2>4, <2>5, <2>7, <2>8, <2>9, Zenon DEF ObjectInv, DisputesInv
    <2>11. QED
      BY <2>3, <2>10
  <1>7. QED
    BY <1>5, <1>6

(* Turning to another previous ledger forgets the positions and plays back *)
(* the proposals made for that one (handleWrongLedger).                    *)
LEMMA SwitchInv ==
    ASSUME NEW o, NEW id, NEW e \in Answers, ObjectInv(o, {}), ~Proposing(o),
           NEW u, u = SwitchTo(o, id, e)
    PROVE  /\ ObjectInv(u, {}) /\ u.mode = o.mode /\ u.sent = o.sent /\ u.phase = o.phase
  <1>1. CASE o.prevID = id
    BY <1>1 DEF SwitchTo
  <1>2. CASE o.prevID /= id
    <2>1. PICK v : v = ForgetPeers(o, id)
      OBVIOUS
    <2>2. u = playbackProposals(v, e.order)
      BY <1>2, <2>1, Zenon DEF SwitchTo
    <2>3. ObjectInv(v, {}) /\ v.mode = o.mode /\ v.sent = o.sent /\ v.phase = o.phase
      BY <2>1, ForgetInv
    <2>4. ObjectInv(u, {}) /\ SameRound(v, u)
      BY <2>2, <2>3, PlaybackAllInv, AnswersAssumption
    <2>5. u.mode = v.mode /\ u.sent = v.sent /\ u.phase = v.phase
      BY <2>4 DEF SameRound, Keeps, Fields
    <2>6. QED
      BY <2>3, <2>4, <2>5
  <1>3. QED
    BY <1>1, <1>2

(* Whoever works on the wrong ledger bows out.                             *)
LEMMA WrongLedgerInv ==
    ASSUME NEW o, NEW e \in Answers, ObjectInv(o, {}), o.phase /= "Accepted",
           NEW u, u = handleWrongLedger(o, e)
    PROVE  ObjectInv(u, {}) /\ BowedOut(o, u) /\ u.phase \in {"Open", "Establish"}
  <1>1. PICK v : v = leaveConsensus(o)
    OBVIOUS
  <1>2. ObjectInv(v, {}) /\ BowedOut(o, v) /\ v.phase = o.phase
    BY <1>1, LeaveInv
  <1>3. PICK w : w = SwitchTo(v, e.net, e)
    OBVIOUS
  <1>4. ObjectInv(w, {}) /\ w.mode = v.mode /\ w.sent = v.sent /\ w.phase = v.phase
    BY <1>2, <1>3, SwitchInv DEF BowedOut
  <1>5. BowedOut(o, w) /\ ~Proposing(w) /\ w.phase \in {"Open", "Establish"}
    BY <1>2, <1>4 DEF BowedOut, Proposing, ObjectInv, DisputesInv, Shape
  <1>6. u = IF w.prev = w.prevID THEN w
            ELSE IF e.net \in held
                 THEN startRoundInternal(w, e.net, e.net, "SwitchedLedger", e)
                 ELSE [w EXCEPT !.mode = "WrongLedger"]
    BY <1>1, <1>3, Zenon DEF handleWrongLedger
  <1>7. CASE u = w
    BY <1>4, <1>5, <1>7
  <1>8. CASE u = startRoundInternal(w, e.net, e.net, "SwitchedLedger", e)
    <2>1. Shape(w) /\ e.net \in Ledgers \cup {None}
      BY <1>4, AnswersAssumption DEF ObjectInv, DisputesInv
    <2>2. /\ ObjectInv(u, {}) /\ u.mode = "SwitchedLedger" /\ u.sent = w.sent
          /\ u.phase \in {"Open", "Establish"}
      BY <1>8, <2>1, StartInv
    <2>3. QED
      BY <1>5, <2>2 DEF BowedOut, Proposing
  <1>9. CASE u = [w EXCEPT !.mode = "WrongLedger"]
    <2>1. DOMAIN w = Fields
      BY <1>4 DEF ObjectInv, DisputesInv, Shape
    <2>2. /\ u.phase = w.phase /\ u.mode = "WrongLedger" /\ u.prevID = w.prevID
          /\ u.prev = w.prev /\ u.acquired = w.acquired /\ u.peers = w.peers
          /\ u.recent = w.recent /\ u.dead = w.dead /\ u.result = w.result
          /\ DOMAIN u = Fields /\ u.sent = w.sent
      BY <1>9, <2>1 DEF Fields
    <2>3. Known(u) = Known(w)
      BY <2>2 DEF Known
    <2>4. w.result /= None => Disputing(u, {})
      BY <1>4, <2>2, <2>3, Zenon DEF ObjectInv, DisputesInv, Disputing
    <2>5. Shape(u)
      BY <1>4, <2>2 DEF ObjectInv, DisputesInv, Shape
    <2>6. Positions(u) /\ Told(u)
      BY <1>4, <2>2 DEF ObjectInv, DisputesInv, Positions, Told, Proposing
    <2>7. ObjectInv(u, {})
      BY <1>4, <2>2, <2>4, <2>5, <2>6, Zenon DEF ObjectInv, DisputesInv
    <2>8. QED
      BY <1>5, <2>2, <2>7 DEF BowedOut, Proposing
  <1>10. QED
    BY <1>6, <1>7, <1>8, <1>9, Zenon

(* checkLedger either finds the right ledger or bows out of the round      *)
(* before it turns to another.                                             *)
LEMMA CheckLedgerInv ==
    ASSUME NEW o, NEW e \in Answers, ObjectInv(o, {}), o.phase /= "Accepted",
           NEW u, u = checkLedger(o, e)
    PROVE  ObjectInv(u, {}) /\ u.phase \in {"Open", "Establish"} /\ (u = o \/ BowedOut(o, u))
  <1>1. CASE e.net /= o.prevID \/ o.prev /= o.prevID
    <2>1. u = handleWrongLedger(o, e)
      BY <1>1, Zenon DEF checkLedger
    <2>2. QED
      BY <2>1, WrongLedgerInv, Zenon
  <1>2. CASE ~(e.net /= o.prevID \/ o.prev /= o.prevID)
    <2>1. u = o
      BY <1>2, Zenon DEF checkLedger
    <2>2. QED
      BY <2>1 DEF ObjectInv, DisputesInv, Shape
  <1>3. QED
    BY <1>1, <1>2
-----------------------------------------------------------------------------
(* What does not touch the positions and disputes keeps them right.        *)
SamePeers(o, u) ==
    /\ DOMAIN u.peers = DOMAIN o.peers
    /\ \A p \in DOMAIN o.peers :
          /\ u.peers[p] \in Seen /\ u.peers[p].node = p
          /\ u.peers[p].prev = o.prevID /\ u.peers[p].set = o.peers[p].set

Elsewhere == {"recent", "peers", "inbound", "openTime", "result", "unchanged", "established"}

(* What neither the positions nor our own depend on may change: clocks,    *)
(* counters, sets on their way and recent proposals.                       *)
LEMMA TouchInv ==
    ASSUME NEW o, NEW u, ObjectInv(o, {}), SamePeers(o, u), SamePosition(o, u),
           Keeps(o, u, Elsewhere),
           u.recent \in [Peers -> Seq(Seen)], \A p \in Peers : Len(u.recent[p]) <= RecentMax,
           o.result /= None => /\ u.result \in Results
                               /\ u.result.disputes = o.result.disputes
                               /\ u.result.compares = o.result.compares
    PROVE  /\ ObjectInv(u, {}) /\ u.mode = o.mode /\ u.sent = o.sent /\ u.phase = o.phase
           /\ u.prevID = o.prevID /\ u.prev = o.prev
  <1>1. /\ u.phase = o.phase /\ u.mode = o.mode /\ u.prevID = o.prevID
        /\ u.prev = o.prev /\ u.acquired = o.acquired
        /\ u.dead = o.dead /\ u.sent = o.sent /\ DOMAIN u = Fields
    BY DEF Fields, Keeps, Elsewhere, ObjectInv, DisputesInv, Shape
  <1>2. Known(u) = Known(o) /\ Known(o) \subseteq DOMAIN o.peers
    BY <1>1 DEF Known, SamePeers
  <1>3. o.result = None <=> u.result = None
    BY DEF SamePosition
  <1>4. ASSUME o.result /= None PROVE Disputing(u, {}) /\ u.result.txns = o.result.txns
    <2>1. /\ u.result.txns = o.result.txns /\ u.result.disputes = o.result.disputes
          /\ u.result.compares = o.result.compares
      BY <1>4, Zenon DEF SamePosition
    <2>2. \A p \in Known(o) : u.peers[p].set = o.peers[p].set
      BY <1>2 DEF SamePeers
    <2>3. DOMAIN u.peers = DOMAIN o.peers /\ Disputing(o, {})
      BY <1>4, Zenon DEF SamePeers, ObjectInv, DisputesInv
    <2>4. QED
      BY <1>2, <2>1, <2>2, <2>3, Zenon DEF Disputing
  <1>5. Shape(u)
    BY <1>1, <1>3 DEF ObjectInv, DisputesInv, Shape
  <1>6. Positions(u)
    BY <1>1 DEF ObjectInv, DisputesInv, Positions, SamePeers
  <1>7. Told(u)
    BY <1>1, <1>3, Zenon DEF ObjectInv, DisputesInv, Told, Proposing, SamePosition
  <1>8. QED
    BY <1>1, <1>3, <1>4, <1>5, <1>6, <1>7, Zenon DEF ObjectInv, DisputesInv

(* Time passes, and stale positions go.                                    *)
LEMMA OlderSeen ==
    ASSUME NEW q \in Seen
    PROVE  /\ Older(q) \in Seen
           /\ Older(q).node = q.node /\ Older(q).prev = q.prev /\ Older(q).set = q.set
  <1>1. PICK r \in Offers, a \in Nat :
           q = [node |-> r.node, prev |-> r.prev, seq |-> r.seq, set |-> r.set, ct |-> r.ct,
                age |-> a]
    BY DEF Seen
  <1>2. PICK b \in Nat : b = CountTo(ProposeFreshness, a)
    BY DEF CountTo
  <1>3. Older(q) = [node |-> r.node, prev |-> r.prev, seq |-> r.seq, set |-> r.set,
                    ct |-> r.ct, age |-> b]
    BY <1>1, <1>2 DEF Older
  <1>4. QED
    BY <1>1, <1>3 DEF Seen

(* Recent proposals age where they are (ConsensusProposal::isStale).       *)
LEMMA AgedRecent ==
    ASSUME NEW o, o.recent \in [Peers -> Seq(Seen)],
           \A p \in Peers : Len(o.recent[p]) <= RecentMax,
           NEW r, r = AgedProposals(o)
    PROVE  r \in [Peers -> Seq(Seen)] /\ \A p \in Peers : Len(r[p]) <= RecentMax
  <1>1. ASSUME NEW p \in Peers PROVE r[p] \in Seq(Seen) /\ Len(r[p]) <= RecentMax
    <2>1. PICK s \in Seq(Seen) : s = o.recent[p]
      OBVIOUS
    <2>2. r[p] = [i \in 1 .. Len(s) |-> Older(s[i])]
      BY <2>1 DEF AgedProposals
    <2>3. \A i \in 1 .. Len(s) : Older(s[i]) \in Seen
      BY OlderSeen
    <2>4. Len(s) \in Nat
      OBVIOUS
    <2>5. r[p] \in Seq(Seen) /\ Len(r[p]) = Len(s)
      BY <2>2, <2>3, <2>4
    <2>6. QED
      BY <2>1, <2>5
  <1>2. r = [p \in Peers |-> r[p]]
    BY DEF AgedProposals
  <1>3. QED
    BY <1>1, <1>2

(* The passing of time between two timer calls keeps the invariant.        *)
LEMMA AgedInv ==
    ASSUME NEW o, ObjectInv(o, {}), NEW u, u = Aged(o)
    PROVE  /\ ObjectInv(u, {}) /\ u.mode = o.mode /\ u.sent = o.sent /\ u.phase = o.phase
           /\ u.prevID = o.prevID /\ u.prev = o.prev /\ u.recent = AgedProposals(o)
           /\ (u.result = None) = (o.result = None)
  <1>1. Shape(o) /\ Positions(o)
    BY DEF ObjectInv, DisputesInv
  <1>2. PICK v : v = [o EXCEPT !.recent = AgedProposals(o),
                               !.peers = [p \in DOMAIN o.peers |-> Older(o.peers[p])],
                               !.openTime = CountTo(TimeCap, o.openTime)]
    OBVIOUS
  <1>3. u = IF v.result = None THEN v
            ELSE [v EXCEPT !.result.time = CountTo(TimeCap, @),
                           !.result.told = CountTo(ProposeInterval, @)]
    BY <1>2 DEF Aged
  <1>4. /\ Keeps(o, v, {"recent", "peers", "openTime"}) /\ v.recent = AgedProposals(o)
        /\ v.peers = [p \in DOMAIN o.peers |-> Older(o.peers[p])] /\ v.result = o.result
    BY <1>1, <1>2 DEF Keeps, Shape, Fields
  <1>5. SamePeers(o, v)
    <2>1. ASSUME NEW p \in DOMAIN o.peers
          PROVE  /\ v.peers[p] \in Seen /\ v.peers[p].node = p
                 /\ v.peers[p].prev = o.prevID /\ v.peers[p].set = o.peers[p].set
      <3>1. /\ o.peers[p] \in Seen /\ o.peers[p].node = p /\ o.peers[p].prev = o.prevID
            /\ v.peers[p] = Older(o.peers[p])
        BY <1>1, <1>4 DEF Positions
      <3>2. QED
        BY <3>1, OlderSeen, Zenon
    <2>2. QED
      BY <1>4, <2>1 DEF SamePeers
  <1>6. v.recent \in [Peers -> Seq(Seen)] /\ \A p \in Peers : Len(v.recent[p]) <= RecentMax
    BY <1>1, <1>4, AgedRecent DEF Shape
  <1>7. /\ Keeps(o, u, {"recent", "peers", "openTime", "result"}) /\ u.recent = v.recent
        /\ u.peers = v.peers /\ SamePosition(o, u)
        /\ o.result /= None => /\ u.result \in Results
                               /\ u.result.disputes = o.result.disputes
                               /\ u.result.compares = o.result.compares
    <2>1. CASE o.result = None
      BY <1>3, <1>4, <2>1 DEF Keeps, SamePosition
    <2>2. CASE o.result /= None
      <3>1. o.result \in Results
        BY <1>1, <2>2 DEF Shape
      <3>2. PICK n \in Nat : n = CountTo(TimeCap, o.result.time)
        BY <3>1 DEF CountTo, Results
      <3>3. PICK m \in Nat : m = CountTo(ProposeInterval, o.result.told)
        BY <3>1 DEF CountTo, Results
      <3>4. PICK r : r = [o.result EXCEPT !.time = n]
        OBVIOUS
      <3>5. PICK s : s = [r EXCEPT !.told = m]
        OBVIOUS
      <3>6. r \in Results
        BY <3>1, <3>4 DEF Results
      <3>7. s \in Results
        BY <3>5, <3>6 DEF Results
      <3>8. /\ s.prev = o.result.prev /\ s.txns = o.result.txns /\ s.seq = o.result.seq
            /\ s.ct = o.result.ct /\ s.disputes = o.result.disputes
            /\ s.compares = o.result.compares
        BY <3>1, <3>4, <3>5 DEF Results
      <3>9. DOMAIN v = Fields /\ r.told = o.result.told
        BY <1>1, <1>4, <3>1, <3>4 DEF Keeps, Shape, Results
      <3>10. u = [v EXCEPT !.result.time = n, !.result.told = m]
        <4>1. /\ v.result /= None /\ n = CountTo(TimeCap, v.result.time)
              /\ m = CountTo(ProposeInterval, v.result.told)
          BY <1>4, <2>2, <3>2, <3>3, Zenon
        <4>2. QED
          BY <1>3, <4>1, Zenon
      <3>11. u.result = [o.result EXCEPT !.time = n, !.told = m] /\ Keeps(v, u, {"result"})
        <4>1. u.result = [v.result EXCEPT !.time = n, !.told = m]
          BY <3>9, <3>10 DEF Fields
        <4>2. DOMAIN u = DOMAIN v /\ \A f \in Fields \ {"result"} : u[f] = v[f]
          BY <3>9, <3>10 DEF Fields
        <4>3. QED
          BY <1>4, <4>1, <4>2, Zenon DEF Keeps
      <3>12. s = [o.result EXCEPT !.time = n, !.told = m]
        BY <3>4, <3>5, Zenon
      <3>13. u.result = s /\ Keeps(v, u, {"result"})
        BY <3>11, <3>12, Zenon
      <3>14. s /= None
        BY <3>7, NoneAssumption, Zenon
      <3>15. SamePosition(o, u)
        BY <2>2, <3>8, <3>13, <3>14 DEF SamePosition
      <3>16. Keeps(o, u, {"recent", "peers", "openTime", "result"}) /\ u.recent = v.recent
             /\ u.peers = v.peers
        BY <1>4, <3>13 DEF Keeps, Fields
      <3>17. QED
        BY <3>7, <3>8, <3>13, <3>15, <3>16, Zenon
    <2>3. QED
      BY <2>1, <2>2
  <1>8. Keeps(o, u, Elsewhere)
    BY <1>7 DEF Keeps, Elsewhere
  <1>9. SamePeers(o, u)
    BY <1>5, <1>7, Zenon DEF SamePeers
  <1>10. u.recent \in [Peers -> Seq(Seen)] /\ \A p \in Peers : Len(u.recent[p]) <= RecentMax
    BY <1>6, <1>7, Zenon
  <1>11. (u.result = None) = (o.result = None) /\ u.recent = AgedProposals(o)
    BY <1>4, <1>7, Zenon DEF SamePosition
  <1>12. QED
    BY <1>7, <1>8, <1>9, <1>10, <1>11, TouchInv, Zenon
-----------------------------------------------------------------------------
(* Who proposes goes on or says that they leave, who does not says nothing *)
(* and stays so.                                                           *)
Honest(o, u) ==
    /\ Proposing(o) => Proposing(u) \/ (u.sent.seq = Leave /\ u.sent.prev = o.prevID)
    /\ ~Proposing(o) => ~Proposing(u) /\ u.sent = o.sent

(* What checkConsensus answers (Consensus.cpp).                            *)
LEMMA StateType ==
    ASSUME NEW o, NEW n PROVE checkConsensus(o, n) \in {"No", "MovedOn", "Expired", "Yes"}
  BY DEF checkConsensus

(* haveConsensus records the state, and an expired round leaves the        *)
(* consensus, telling the peers.                                           *)
LEMMA HaveConsensusInv ==
    ASSUME NEW o, NEW e, ObjectInv(o, {}), o.phase = "Establish",
           NEW w, w = haveConsensus(o, e)
    PROVE  /\ ObjectInv(w, {}) /\ Honest(o, w) /\ w.result /= None
           /\ w.phase \in {"Establish", "Accepted"}
  <1> DEFINE state == checkConsensus(o, e.finished)
             u == [o EXCEPT !.result.state = state]
             v == IF state = "Expired" THEN leaveConsensus(u) ELSE u
             x == [v EXCEPT !.phase = "Accepted",
                            !.prevProposers = Cardinality(DOMAIN v.peers),
                            !.prevRound = Min({v.result.time, PrevCap})]
  <1>1. w \in {u, v, x}
    BY Zenon DEF haveConsensus
  <1>2. o.result /= None /\ o.result \in Results /\ DOMAIN o = Fields
    BY DEF ObjectInv, DisputesInv, Shape
  <1>3. state \in {"No", "MovedOn", "Expired", "Yes"}
    BY StateType, Zenon
  <1> HIDE DEF state
  <1>4. /\ Keeps(o, u, {"result"}) /\ u.peers = o.peers /\ u.recent = o.recent
        /\ u.result = [o.result EXCEPT !.state = state]
    BY <1>2 DEF Keeps, Fields
  <1> HIDE DEF u
  <1>5. /\ u.result \in Results /\ u.result.disputes = o.result.disputes
        /\ u.result.compares = o.result.compares /\ u.result.prev = o.result.prev
        /\ u.result.txns = o.result.txns /\ u.result.seq = o.result.seq
        /\ u.result.ct = o.result.ct
    BY <1>2, <1>3, <1>4 DEF Results
  <1>6. /\ ObjectInv(u, {}) /\ u.mode = o.mode /\ u.sent = o.sent /\ u.phase = o.phase
        /\ u.prevID = o.prevID
    <2>1. u.result /= None
      BY <1>5, NoneAssumption, Zenon
    <2>2. SamePosition(o, u)
      BY <1>2, <1>5, <2>1, Zenon DEF SamePosition
    <2>3. SamePeers(o, u)
      BY <1>4 DEF SamePeers, ObjectInv, DisputesInv, Positions
    <2>4. Keeps(o, u, Elsewhere)
      BY <1>4 DEF Keeps, Elsewhere
    <2>5. /\ u.recent \in [Peers -> Seq(Seen)]
          /\ \A p \in Peers : Len(u.recent[p]) <= RecentMax
      BY <1>4, Zenon DEF ObjectInv, DisputesInv, Shape
    <2>6. QED
      BY <1>5, <2>2, <2>3, <2>4, <2>5, TouchInv, Zenon
  <1>7. Honest(o, u) /\ u.result /= None
    BY <1>6, Zenon DEF Honest, Proposing, ObjectInv, DisputesInv
  <1>8. ObjectInv(v, {}) /\ Honest(o, v) /\ v.phase = "Establish"
    <2>1. CASE v = u
      BY <1>6, <1>7, <2>1, Zenon
    <2>2. CASE v = leaveConsensus(u)
      <3>1. /\ ObjectInv(v, {}) /\ BowedOut(u, v)
            /\ v.phase = u.phase /\ (~Proposing(u) => v.sent = u.sent)
        BY <1>6, <2>2, LeaveInv, Zenon
      <3>2. Honest(o, v)
        BY <1>6, <1>7, <3>1, Zenon DEF Honest, BowedOut, Proposing
      <3>3. QED
        BY <1>6, <3>1, <3>2, Zenon
    <2>3. QED
      BY <2>1, <2>2
  <1> HIDE DEF v
  <1>9. v.result /= None /\ DOMAIN v = Fields
    BY <1>8 DEF ObjectInv, DisputesInv, Shape
  <1>10. /\ x.phase = "Accepted" /\ x.mode = v.mode /\ x.prevID = v.prevID
         /\ x.prev = v.prev /\ x.acquired = v.acquired /\ x.peers = v.peers
         /\ x.recent = v.recent /\ x.dead = v.dead /\ x.sent = v.sent
         /\ x.result = v.result /\ DOMAIN x = Fields
    BY <1>9 DEF Fields
  <1> HIDE DEF x
  <1>11. ObjectInv(x, {})
    <2>1. Known(x) = Known(v)
      BY <1>10 DEF Known
    <2>2. Disputing(x, {})
      BY <1>8, <1>9, <1>10, <2>1, Zenon DEF ObjectInv, DisputesInv, Disputing
    <2>3. Shape(x) /\ Positions(x)
      BY <1>8, <1>10 DEF ObjectInv, DisputesInv, Shape, Positions
    <2>4. Told(x)
      BY <1>8, <1>10, Zenon DEF ObjectInv, Told, Proposing
    <2>5. x.phase /= "Open" /\ x.phase /= "Establish"
      BY <1>10
    <2>6. QED
      BY <1>8, <1>9, <1>10, <2>2, <2>3, <2>4, <2>5, Zenon DEF ObjectInv, DisputesInv
  <1>12. Honest(o, x)
    BY <1>8, <1>10, Zenon DEF Honest, Proposing
  <1>13. CASE w = u
    BY <1>6, <1>7, <1>13, Zenon
  <1>14. CASE w = v
    BY <1>8, <1>9, <1>14, Zenon
  <1>15. CASE w = x
    BY <1>9, <1>10, <1>11, <1>12, <1>15, Zenon
  <1>16. QED
    BY <1>1, <1>13, <1>14, <1>15, Zenon

(* The establish phase updates our position and accepts once there is      *)
(* consensus (phaseEstablish).                                             *)
LEMMA EstablishInv ==
    ASSUME NEW o, NEW e, ObjectInv(o, {}), o.phase = "Establish",
           NEW w, w = phaseEstablish(o, e)
    PROVE  /\ ObjectInv(w, {}) /\ Honest(o, w) /\ w.result /= None
           /\ w.phase \in {"Establish", "Accepted"}
  <1> DEFINE u == [o EXCEPT !.unchanged = CountTo(AvStalledRounds, @),
                            !.established = CountTo(MinimumCounter, @)]
             v == updateOurPositions(u)
  <1>1. w \in {u, v, haveConsensus(v, e)}
    BY Zenon DEF phaseEstablish
  <1>2. o.result /= None /\ o.result \in Results /\ DOMAIN o = Fields
    BY DEF ObjectInv, DisputesInv, Shape
  <1>3. /\ Keeps(o, u, {"unchanged", "established"}) /\ u.peers = o.peers
        /\ u.recent = o.recent /\ u.result = o.result
    BY <1>2 DEF Keeps, Fields
  <1> HIDE DEF u
  <1>4. /\ ObjectInv(u, {}) /\ u.mode = o.mode /\ u.sent = o.sent /\ u.phase = o.phase
        /\ u.prevID = o.prevID
    <2>1. SamePosition(o, u)
      BY <1>3, Zenon DEF SamePosition
    <2>2. SamePeers(o, u)
      BY <1>3 DEF SamePeers, ObjectInv, DisputesInv, Positions
    <2>3. Keeps(o, u, Elsewhere)
      BY <1>3 DEF Keeps, Elsewhere
    <2>4. /\ u.recent \in [Peers -> Seq(Seen)]
          /\ \A p \in Peers : Len(u.recent[p]) <= RecentMax
      BY <1>3, Zenon DEF ObjectInv, DisputesInv, Shape
    <2>5. QED
      BY <1>2, <1>3, <2>1, <2>2, <2>3, <2>4, TouchInv, Zenon
  <1>5. /\ ObjectInv(v, {}) /\ v.mode = u.mode /\ v.phase = u.phase /\ v.prevID = u.prevID
        /\ (~Proposing(u) => v.sent = u.sent)
    BY <1>4, OurPositionsInv, Zenon
  <1> HIDE DEF v
  <1>6. Honest(o, u) /\ Honest(o, v) /\ u.result /= None /\ v.result /= None
    BY <1>4, <1>5, Zenon DEF Honest, Proposing, ObjectInv, DisputesInv
  <1>7. CASE w = haveConsensus(v, e)
    <2>1. /\ ObjectInv(w, {}) /\ Honest(v, w) /\ w.result /= None
          /\ w.phase \in {"Establish", "Accepted"}
      BY <1>4, <1>5, <1>7, HaveConsensusInv, Zenon
    <2>2. Honest(o, w)
      BY <1>4, <1>5, <2>1, Zenon DEF Honest, Proposing
    <2>3. QED
      BY <2>1, <2>2
  <1>8. CASE w \in {u, v}
    BY <1>4, <1>5, <1>6, <1>8, Zenon
  <1>9. QED
    BY <1>1, <1>7, <1>8, Zenon
-----------------------------------------------------------------------------
(* What a step does, apart from keeping the invariant: the results do not  *)
(* change while a ledger is built, and who leaves says so.                 *)
Frozen ==
    (c.phase = "Accepted" /\ c'.phase = "Accepted") =>
        /\ c'.result = c.result /\ c'.mode = c.mode
        /\ c'.prevID = c.prevID /\ c'.peers = c.peers

LeaveTold ==
    (c.phase = "Establish" /\ Proposing(c) /\ ~Proposing(c')) =>
        c'.sent.seq = Leave /\ c'.sent.prev = c.prevID

Sound == ConsensusInv' /\ Frozen /\ LeaveTold

(* The object as the constructor leaves it satisfies the invariant.        *)
LEMMA InitInv == Init => ConsensusInv
  <1> SUFFICES ASSUME Init PROVE ConsensusInv
    OBVIOUS
  <1>1. PICK n \in LastProposers :
       c = [phase |-> "Accepted", mode |-> "Observing", prevID |-> None, prev |-> None,
            acquired |-> {}, inbound |-> Have, result |-> None, peers |-> <<>>,
            recent |-> [p \in Peers |-> <<>>], dead |-> {}, haveCT |-> FALSE,
            ctLevel |-> "Init", unchanged |-> 0, established |-> 0, openTime |-> 0,
            prevRound |-> IdleInterval, prevProposers |-> n, sent |-> None]
    BY DEF Init
  <1>2. /\ DOMAIN c = Fields /\ c.phase = "Accepted" /\ c.mode = "Observing"
        /\ c.prev = None /\ c.result = None /\ c.peers = <<>>
        /\ c.recent = [p \in Peers |-> <<>>]
    BY <1>1 DEF Fields
  <1>3. [p \in Peers |-> <<>>] \in [Peers -> Seq(Seen)] /\ Len(<<>>) = 0
    OBVIOUS
  <1>4. \A p \in Peers : Len(c.recent[p]) <= RecentMax
    BY <1>2, <1>3, BoundsAssumption
  <1>5. Shape(c)
    BY <1>2, <1>3, <1>4 DEF Shape
  <1>6. Positions(c)
    BY <1>2, NoDisputes DEF Positions
  <1>7. Told(c)
    BY <1>2 DEF Told, Proposing
  <1>8. ObjectInv(c, {})
    BY <1>2, <1>5, <1>6, <1>7 DEF ObjectInv, DisputesInv
  <1>9. coming = Offers /\ rounds = 0
    BY DEF Init
  <1>10. QED
    BY <1>2, <1>8, <1>9 DEF ConsensusInv

(* A round begins (startRound).                                            *)
LEMMA StartRoundStep ==
    ASSUME ConsensusInv, NEW l \in Ledgers, NEW e \in Answers, StartRound(l, e)
    PROVE  Sound
  <1> DEFINE right == e.net \in held
             mode == IF ~right THEN "WrongLedger"
                     ELSE IF e.validator /\ e.net = l THEN "Proposing" ELSE "Observing"
             u == [c EXCEPT !.recent =
                     [p \in Peers |-> IF p \in e.untrusted THEN <<>> ELSE @[p]]]
             base == IF right THEN e.net ELSE l
  <1>1. c.phase = "Accepted" /\ c' = startRoundInternal(u, e.net, base, mode, e)
    BY DEF StartRound
  <1>2. Shape(c)
    BY DEF ConsensusInv, ObjectInv, DisputesInv
  <1>3. /\ Keeps(c, u, {"recent"})
        /\ u.recent = [p \in Peers |-> IF p \in e.untrusted THEN <<>> ELSE c.recent[p]]
    BY <1>2 DEF Shape, Keeps, Fields
  <1> HIDE DEF u
  <1>4. Shape(u)
    <2>1. /\ DOMAIN u = Fields /\ u.phase = c.phase /\ u.mode = c.mode /\ u.prev = c.prev
          /\ u.result = c.result
      BY <1>2, <1>3 DEF Shape, Keeps, Fields
    <2>2. ASSUME NEW p \in Peers PROVE u.recent[p] \in Seq(Seen) /\ Len(u.recent[p]) <= RecentMax
      <3>1. <<>> \in Seq(Seen) /\ Len(<<>>) <= RecentMax
        BY BoundsAssumption
      <3>2. c.recent[p] \in Seq(Seen) /\ Len(c.recent[p]) <= RecentMax
        BY <1>2 DEF Shape
      <3>3. u.recent[p] \in {<<>>, c.recent[p]}
        BY <1>3
      <3>4. QED
        BY <3>1, <3>2, <3>3, Zenon
    <2>3. u.recent \in [Peers -> Seq(Seen)]
      BY <1>3, <2>2
    <2>4. QED
      BY <1>2, <2>1, <2>2, <2>3, Zenon DEF Shape
  <1>5. e.net \in Ledgers
    BY AnswersAssumption
  <1>6. base \in Ledgers \cup {None} /\ (mode = "Proposing" => base = e.net)
    BY <1>5
  <1>7. mode \in {"Proposing", "Observing", "WrongLedger", "SwitchedLedger"}
    OBVIOUS
  <1> HIDE DEF base, mode
  <1>8. ObjectInv(c', {}) /\ c'.phase \in {"Open", "Establish"}
    BY <1>1, <1>4, <1>6, <1>7, StartInv
  <1>9. coming' \subseteq Offers /\ rounds' \in Nat /\ rounds' > 0
    BY DEF ConsensusInv, StartRound
  <1>10. c'.phase /= "Accepted" /\ rounds' /= 0
    BY <1>8, <1>9
  <1>11. ConsensusInv'
    BY <1>8, <1>9, <1>10, Zenon DEF ConsensusInv
  <1>12. QED
    BY <1>1, <1>10, <1>11 DEF Sound, Frozen, LeaveTold

(* Once in a round, it is seen in what the phase says.                     *)
LEMMA RoundsGoOn ==
    ASSUME ConsensusInv, ObjectInv(c', {}), c'.phase = c.phase,
           (c'.result = None) = (c.result = None), coming' \subseteq coming, rounds' = rounds
    PROVE  ConsensusInv'
  <1>1. coming' \subseteq Offers /\ rounds' \in Nat
    BY DEF ConsensusInv
  <1>2. /\ rounds' = 0 => c'.phase = "Accepted" /\ c'.result = None
        /\ (rounds' > 0 /\ c'.phase = "Accepted") => c'.result /= None
    BY Zenon DEF ConsensusInv
  <1>3. QED
    BY <1>1, <1>2, Zenon DEF ConsensusInv

(* A proposal comes in (peerProposal).                                     *)
LEMMA PeerProposalStep ==
    ASSUME ConsensusInv, NEW q \in Offers, PeerProposal(q)
    PROVE  Sound
  <1> DEFINE props == c.recent[q.node]
             kept == IF Len(props) >= RecentMax THEN Tail(props) ELSE props
             seen == [node |-> q.node, prev |-> q.prev, seq |-> q.seq,
                      set |-> q.set, ct |-> q.ct, age |-> 0]
             u == [c EXCEPT !.recent[q.node] = Append(kept, seen)]
  <1>1. c' = peerProposalInternal(u, seen) /\ coming' \subseteq coming /\ rounds' = rounds
    BY DEF PeerProposal
  <1>2. seen \in Seen /\ q.node \in Peers
    BY OffersAssumption DEF Seen
  <1>3. ObjectInv(c, {}) /\ Shape(c)
    BY DEF ConsensusInv, ObjectInv, DisputesInv
  <1>4. /\ Keeps(c, u, {"recent"})
        /\ u.recent = [c.recent EXCEPT ![q.node] = Append(kept, seen)]
    BY <1>3 DEF Shape, Keeps, Fields
  <1>5. Append(kept, seen) \in Seq(Seen) /\ Len(Append(kept, seen)) <= RecentMax
    <2>1. props \in Seq(Seen) /\ Len(props) <= RecentMax
      BY <1>2, <1>3 DEF Shape
    <2> HIDE DEF props, seen
    <2>2. kept \in Seq(Seen) /\ Len(kept) < RecentMax
      BY <2>1, BoundsAssumption
    <2> HIDE DEF kept
    <2>3. QED
      BY <1>2, <2>2, BoundsAssumption
  <1> HIDE DEF u, seen, kept, props
  <1>6. u.recent \in [Peers -> Seq(Seen)] /\ \A p \in Peers : Len(u.recent[p]) <= RecentMax
    BY <1>2, <1>3, <1>4, <1>5 DEF Shape
  <1>7. /\ ObjectInv(u, {}) /\ u.mode = c.mode /\ u.phase = c.phase /\ u.prevID = c.prevID
        /\ u.result = c.result /\ u.peers = c.peers
    <2>1. u.peers = c.peers /\ u.result = c.result
      BY <1>4 DEF Keeps, Fields
    <2>2. SamePeers(c, u) /\ SamePosition(c, u)
      BY <1>3, <2>1 DEF SamePeers, SamePosition, ObjectInv, DisputesInv, Positions
    <2>3. Keeps(c, u, Elsewhere)
      BY <1>4 DEF Keeps, Elsewhere
    <2>4. c.result /= None => u.result \in Results
      BY <1>3, <2>1, Zenon DEF Shape
    <2>5. QED
      BY <1>3, <1>6, <2>1, <2>2, <2>3, <2>4, TouchInv, Zenon
  <1>8. ObjectInv(c', {}) /\ SameRound(u, c') /\ (u.phase = "Accepted" => c' = u)
    BY <1>1, <1>2, <1>7, ProposalInv, Zenon
  <1>9. c'.phase = u.phase /\ c'.mode = u.mode /\ (c'.result = None) = (u.result = None)
    BY <1>8 DEF SameRound, SamePosition, Keeps, Fields
  <1>10. ConsensusInv'
    BY <1>1, <1>7, <1>8, <1>9, RoundsGoOn, Zenon
  <1>11. Frozen
    BY <1>7, <1>8, Zenon DEF Frozen
  <1>12. LeaveTold
    BY <1>7, <1>9, Zenon DEF LeaveTold, Proposing
  <1>13. QED
    BY <1>10, <1>11, <1>12 DEF Sound

(* A transaction set reaches the node, which has not told the consensus    *)
(* yet (InboundTransactions).                                              *)
LEMMA TxSetArrivesStep ==
    ASSUME ConsensusInv, NEW s, TxSetArrives(s)
    PROVE  Sound
  <1>1. ObjectInv(c, {}) /\ Shape(c)
    BY DEF ConsensusInv, ObjectInv, DisputesInv
  <1>2. /\ Keeps(c, c', {"inbound"}) /\ c'.recent = c.recent
        /\ c'.peers = c.peers /\ c'.result = c.result
    BY <1>1 DEF TxSetArrives, Shape, Keeps, Fields
  <1>3. coming' \subseteq coming /\ rounds' = rounds
    BY DEF TxSetArrives
  <1>4. SamePeers(c, c') /\ SamePosition(c, c')
    BY <1>1, <1>2 DEF SamePeers, SamePosition, ObjectInv, DisputesInv, Positions
  <1>5. Keeps(c, c', Elsewhere)
    BY <1>2 DEF Keeps, Elsewhere
  <1>6. /\ c'.recent \in [Peers -> Seq(Seen)] /\ \A p \in Peers : Len(c'.recent[p]) <= RecentMax
        /\ c.result /= None => c'.result \in Results
    BY <1>1, <1>2, Zenon DEF Shape
  <1>7. ObjectInv(c', {}) /\ c'.mode = c.mode /\ c'.phase = c.phase /\ c'.prevID = c.prevID
    BY <1>1, <1>2, <1>4, <1>5, <1>6, TouchInv, Zenon
  <1>8. ConsensusInv'
    BY <1>2, <1>3, <1>7, RoundsGoOn, Zenon
  <1>9. QED
    BY <1>2, <1>7, <1>8, Zenon DEF Sound, Frozen, LeaveTold, Proposing

(* The consensus is told of a transaction set (gotTxSet).                  *)
LEMMA GotTxSetStep ==
    ASSUME ConsensusInv, NEW s \in SUBSET Txs, GotTxSet(s)
    PROVE  Sound
  <1>1. /\ ObjectInv(c, {}) /\ c' = gotTxSet(c, s) /\ coming' \subseteq coming
        /\ rounds' = rounds
    BY DEF ConsensusInv, GotTxSet
  <1>2. ObjectInv(c', {}) /\ SameRound(c, c') /\ (c.phase = "Accepted" => c' = c)
    BY <1>1, GotTxSetInv, Zenon
  <1>3. c'.phase = c.phase /\ c'.mode = c.mode /\ (c'.result = None) = (c.result = None)
    BY <1>2 DEF SameRound, SamePosition, Keeps, Fields
  <1>4. ConsensusInv'
    BY <1>1, <1>2, <1>3, RoundsGoOn, Zenon
  <1>5. QED
    BY <1>2, <1>3, <1>4, Zenon DEF Sound, Frozen, LeaveTold, Proposing

(* A step of others, a ledger that arrives among them, changes none of     *)
(* this.                                                                   *)
LEMMA SameStep ==
    ASSUME ConsensusInv, UNCHANGED <<c, coming, rounds>>
    PROVE  Sound
  BY DEF ConsensusInv, ObjectInv, DisputesInv, Shape, Positions, Told, Disputing, Known,
         Proposing, Sound, Frozen, LeaveTold

(* The timer while a ledger is built: only time passes (timerEntry).       *)
LEMMA TimerIdleStep ==
    ASSUME ConsensusInv, TimerIdle
    PROVE  Sound
  <1>1. ObjectInv(c, {}) /\ Shape(c)
    BY DEF ConsensusInv, ObjectInv, DisputesInv
  <1>2. /\ Keeps(c, c', {"recent"}) /\ c'.recent = AgedProposals(c)
        /\ c'.peers = c.peers /\ c'.result = c.result
    BY <1>1 DEF TimerIdle, Shape, Keeps, Fields
  <1>3. coming' \subseteq coming /\ rounds' = rounds
    BY DEF TimerIdle
  <1>4. SamePeers(c, c') /\ SamePosition(c, c')
    BY <1>1, <1>2 DEF SamePeers, SamePosition, ObjectInv, DisputesInv, Positions
  <1>5. Keeps(c, c', Elsewhere)
    BY <1>2 DEF Keeps, Elsewhere
  <1>6. c'.recent \in [Peers -> Seq(Seen)] /\ \A p \in Peers : Len(c'.recent[p]) <= RecentMax
    BY <1>1, <1>2, AgedRecent, Zenon DEF Shape
  <1>7. c.result /= None => c'.result \in Results
    BY <1>1, <1>2, Zenon DEF Shape
  <1>8. ObjectInv(c', {}) /\ c'.mode = c.mode /\ c'.phase = c.phase /\ c'.prevID = c.prevID
    BY <1>1, <1>2, <1>4, <1>5, <1>6, <1>7, TouchInv, Zenon
  <1>9. ConsensusInv'
    BY <1>2, <1>3, <1>8, RoundsGoOn, Zenon
  <1>10. QED
    BY <1>2, <1>8, <1>9, Zenon DEF Sound, Frozen, LeaveTold, Proposing

(* The timer while a round is on: the ledger is checked and the phase      *)
(* taken a step further (timerEntry).                                      *)
LEMMA TimerEntryStep ==
    ASSUME ConsensusInv, NEW e \in Answers, TimerEntry(e)
    PROVE  Sound
  <1>1. PICK v : v = Aged(c)
    OBVIOUS
  <1>2. PICK u : u = checkLedger(v, e)
    OBVIOUS
  <1>3. /\ c.phase /= "Accepted" /\ coming' = coming /\ rounds' = rounds
        /\ c' = IF u.phase = "Open" THEN phaseOpen(u, e) ELSE phaseEstablish(u, e)
    BY <1>1, <1>2, Zenon DEF TimerEntry
  <1>4. ObjectInv(c, {})
    BY DEF ConsensusInv
  <1>5. /\ ObjectInv(v, {}) /\ v.mode = c.mode /\ v.sent = c.sent /\ v.phase = c.phase
        /\ v.prevID = c.prevID /\ (v.result = None) = (c.result = None)
    BY <1>1, <1>4, AgedInv, Zenon
  <1>6. ObjectInv(u, {}) /\ u.phase \in {"Open", "Establish"} /\ (u = v \/ BowedOut(v, u))
    BY <1>2, <1>3, <1>5, CheckLedgerInv, Zenon
  <1>7. /\ ObjectInv(c', {}) /\ Honest(u, c')
        /\ c'.phase \in {"Open", "Establish"} \/ (c'.phase = "Accepted" /\ c'.result /= None)
    <2>1. CASE u.phase = "Open"
      <3>1. c' = phaseOpen(u, e)
        BY <1>3, <2>1, Zenon
      <3>2. ObjectInv(c', {}) /\ Quiet(u, c') /\ c'.phase \in {"Open", "Establish"}
        BY <1>6, <2>1, <3>1, PhaseOpenInv, Zenon
      <3>3. QED
        BY <3>2, Zenon DEF Quiet, Honest, Proposing
    <2>2. CASE u.phase = "Establish"
      <3>1. c' = phaseEstablish(u, e)
        BY <1>3, <2>2
      <3>2. /\ ObjectInv(c', {}) /\ Honest(u, c') /\ c'.result /= None
            /\ c'.phase \in {"Establish", "Accepted"}
        BY <1>6, <2>2, <3>1, EstablishInv, Zenon
      <3>3. QED
        BY <3>2, Zenon
    <2>3. QED
      BY <1>6, <2>1, <2>2, Zenon
  <1>8. ConsensusInv'
    <2>1. rounds' /= 0 /\ rounds' \in Nat /\ coming' \subseteq Offers
      BY <1>3 DEF ConsensusInv
    <2>2. c'.phase = "Accepted" => c'.result /= None
      BY <1>7
    <2>3. QED
      BY <1>7, <2>1, <2>2, Zenon DEF ConsensusInv
  <1>9. Frozen
    BY <1>3, Zenon DEF Frozen
  <1>10. LeaveTold
    <2> SUFFICES ASSUME c.phase = "Establish", Proposing(c), ~Proposing(c')
                 PROVE  c'.sent.seq = Leave /\ c'.sent.prev = c.prevID
      BY DEF LeaveTold
    <2>1. Proposing(v) /\ v.result /= None
      BY <1>4, <1>5, Zenon DEF Proposing, ObjectInv, DisputesInv
    <2>2. CASE u = v
      BY <1>5, <1>7, <2>1, <2>2, Zenon DEF Honest
    <2>3. CASE BowedOut(v, u)
      BY <1>5, <1>7, <2>1, <2>3, Zenon DEF Honest, BowedOut
    <2>4. QED
      BY <1>6, <2>2, <2>3, Zenon
  <1>11. QED
    BY <1>8, <1>9, <1>10 DEF Sound

(* Every step keeps the invariant, leaves an accepted round alone and      *)
(* tells the peers when we stop proposing.                                 *)
LEMMA NextStep == ConsensusInv /\ [Next]_vars => Sound
  <1> SUFFICES ASSUME ConsensusInv, [Next]_vars PROVE Sound
    OBVIOUS
  <1>1. CASE TimerIdle
    BY <1>1, TimerIdleStep
  <1>2. CASE \E e \in Answers : TimerEntry(e)
    BY <1>2, TimerEntryStep
  <1>3. CASE \E l \in Ledgers, e \in Answers : StartRound(l, e)
    BY <1>3, StartRoundStep
  <1>4. CASE \E q \in Offers : PeerProposal(q)
    BY <1>4, PeerProposalStep
  <1>5. CASE \E s \in {q.set : q \in Offers} : TxSetArrives(s) \/ GotTxSet(s)
    <2>1. PICK s \in {q.set : q \in Offers} : TxSetArrives(s) \/ GotTxSet(s)
      BY <1>5
    <2>2. s \in SUBSET Txs
      BY OffersAssumption
    <2>3. QED
      BY <2>1, <2>2, TxSetArrivesStep, GotTxSetStep
  <1>6. CASE \E l \in Ledgers : LedgerArrives(l)
    <2>1. UNCHANGED <<c, coming, rounds>>
      BY <1>6 DEF LedgerArrives
    <2>2. QED
      BY <2>1, SameStep
  <1>7. CASE UNCHANGED vars
    <2>1. UNCHANGED <<c, coming, rounds>>
      BY <1>7 DEF vars
    <2>2. QED
      BY <2>1, SameStep
  <1>8. QED
    BY <1>1, <1>2, <1>3, <1>4, <1>5, <1>6, <1>7 DEF Next

(* The invariant holds at all times.                                       *)
LEMMA Invariance == Spec => []ConsensusInv
  <1>1. ConsensusInv /\ [Next]_vars => ConsensusInv'
    BY NextStep DEF Sound
  <1>2. QED
    BY InitInv, <1>1, PTL DEF Spec
-----------------------------------------------------------------------------
(* The members of the Consensus object have their types, a position is     *)
(* taken exactly when the ledger was closed, and the set we propose is one *)
(* we have, for any numbers of peers, proposals and rounds.                *)
THEOREM ConsensusTypes == Spec => []TypeOK
  <1>1. ConsensusInv => TypeOK
    <2> SUFFICES ASSUME ConsensusInv PROVE TypeOK
      OBVIOUS
    <2>1. Shape(c) /\ Positions(c)
      BY DEF ConsensusInv, ObjectInv, DisputesInv
    <2>2. rounds > 0 => (c.result = None <=> c.phase = "Open")
      <3>1. /\ c.phase = "Open" => c.result = None
            /\ c.phase = "Establish" => c.result /= None
            /\ (rounds > 0 /\ c.phase = "Accepted") => c.result /= None
        BY Zenon DEF ConsensusInv, ObjectInv, DisputesInv
      <3>2. c.phase \in {"Open", "Establish", "Accepted"}
        BY <2>1 DEF Shape
      <3>3. QED
        BY <3>1, <3>2
    <2>3. c.result /= None => c.result \in Results /\ c.result.txns \in c.acquired
      BY <2>1 DEF Shape, ConsensusInv, ObjectInv, DisputesInv
    <2>4. DOMAIN c.peers \cap c.dead = {}
      BY <2>1 DEF Positions
    <2>5. QED
      BY <2>1, <2>2, <2>3, <2>4, Zenon DEF TypeOK, Shape, Positions
  <1>2. QED
    BY Invariance, <1>1, PTL

(* Whatever the order in which proposals, transaction sets, changes of the *)
(* previous ledger and timer calls come, the disputes follow the           *)
(* positions: only current proposers vote, those whose set we have vote as *)
(* it says, all we differ on is disputed, and our votes are our set        *)
(* (createDisputes, updateDisputes, gotTxSet, updateOurPositions).         *)
THEOREM DisputesAlwaysMatch == Spec => []DisputesMatch
  <1>1. ConsensusInv => DisputesMatch
    <2> SUFFICES ASSUME ConsensusInv, c.result /= None
                 PROVE  /\ \A t \in DOMAIN c.result.disputes :
                              /\ DOMAIN c.result.disputes[t].votes \subseteq DOMAIN c.peers
                              /\ \A p \in Known(c) :
                                    /\ p \in DOMAIN c.result.disputes[t].votes
                                    /\ c.result.disputes[t].votes[p] <=> t \in c.peers[p].set
                              /\ c.result.disputes[t].ours <=> t \in c.result.txns
                        /\ \A p \in Known(c) : SymDiff(c.result.txns, c.peers[p].set)
                                                  \subseteq DOMAIN c.result.disputes
      BY Zenon DEF DisputesMatch
    <2>1. Disputing(c, {})
      BY DEF ConsensusInv, ObjectInv, DisputesInv
    <2>2. QED
      BY <2>1, Zenon DEF Disputing
  <1>2. QED
    BY Invariance, <1>1, PTL

(* While we propose, the peers were told the position we hold, for the     *)
(* ledger the network is on (closeLedger, updateOurPositions).             *)
THEOREM PositionAlwaysTold == Spec => []PositionTold
  <1>1. ConsensusInv => PositionTold
    <2> SUFFICES ASSUME ConsensusInv, c.result /= None, Proposing(c)
                 PROVE  /\ c.sent = [prev |-> c.prevID, seq |-> c.result.seq,
                                     set |-> c.result.txns, ct |-> c.result.ct]
                        /\ c.sent.seq /= Leave /\ c.prev = c.prevID
      BY DEF PositionTold
    <2>1. /\ c.prev = c.prevID /\ c.result.seq <= SeqCap /\ c.result.prev = c.prevID
          /\ c.sent = [prev |-> c.result.prev, seq |-> c.result.seq,
                       set |-> c.result.txns, ct |-> c.result.ct]
      BY Zenon DEF ConsensusInv, ObjectInv, Told
    <2>2. c.result \in Results
      BY DEF ConsensusInv, ObjectInv, DisputesInv, Shape
    <2>3. c.result.seq /= Leave
      <3>1. c.result.seq \in 0 .. Leave
        BY <2>2 DEF Results
      <3>2. QED
        BY <2>1, <3>1, BoundsAssumption DEF SeqCap
    <2>4. QED
      BY <2>1, <2>3
  <1>2. QED
    BY Invariance, <1>1, PTL

(* Who stops proposing in a round tells the peers in the same step, with a *)
(* proposal for the ledger they proposed for (leaveConsensus).             *)
THEOREM LeavingAlwaysTold == Spec => LeavingIsTold
  <1>1. ConsensusInv /\ [Next]_vars =>
           [(c.phase = "Establish" /\ Proposing(c) /\ ~Proposing(c')) =>
               c'.sent.seq = Leave /\ c'.sent.prev = c.prevID]_vars
    BY NextStep DEF Sound, LeaveTold
  <1>2. QED
    BY Invariance, <1>1, PTL DEF Spec, LeavingIsTold

(* While a ledger is built nothing that comes in changes the results of    *)
(* the round, which the thread that builds it reads                        *)
(* (peerProposalInternal, gotTxSet, timerEntry).                           *)
THEOREM AcceptedAlwaysFrozen == Spec => AcceptedIsFrozen
  <1>1. ConsensusInv /\ [Next]_vars =>
           [(c.phase = "Accepted" /\ c'.phase = "Accepted") =>
               /\ c'.result = c.result /\ c'.mode = c.mode
               /\ c'.prevID = c.prevID /\ c'.peers = c.peers]_vars
    BY NextStep DEF Sound, Frozen
  <1>2. QED
    BY Invariance, <1>1, PTL DEF Spec, AcceptedIsFrozen
==============================================================================
