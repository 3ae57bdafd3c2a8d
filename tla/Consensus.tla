------------------------------ MODULE Consensus ------------------------------
(***************************************************************************)
(* One node's side of a consensus round (Consensus.h): it closes the open  *)
(* ledger, takes a position, follows the positions of its peers, changes   *)
(* its own under the avalanche rules, and accepts; in between the network  *)
(* may turn out to work on another previous ledger.                        *)
(*                                                                         *)
(* c is the Consensus object. The members of the class are called with the *)
(* consensus mutex held, so each call from outside is one action, and each *)
(* function below takes the object to what the member of that name makes   *)
(* of it. A transaction set is a set of transactions and is its own id, a  *)
(* ledger is its own id. e holds what the calls into the adaptor answer.   *)
(*                                                                         *)
(* Time is counted in calls of timerEntry(). A peer's proposals may be     *)
(* lost, delayed and reordered; sets and ledgers arrive when they do.      *)
(***************************************************************************)
EXTENDS DisputedTx, Sequences, FiniteSetsExt, Functions

CONSTANTS
    None,
    Peers,
    Txs,
    Ledgers,
    Parent,             \* the parent of each ledger, if it is one of them
    Offers,             \* proposals of the peers, [node, prev, seq, set, ct]
    Answers,            \* what the caller and the adaptor may say during a call
    Have,               \* sets that are complete at first
    Held,               \* ledgers that are at hand at first
    LastProposers,      \* what prevProposers_ may be at first
    Leave,              \* kSeqLeave, above all other proposeSeq
    RecentMax,          \* proposals of a peer that are kept
    Resolution,         \* closeResolution_
    MinConsensus,       \* ledgerMinConsensus
    MaxConsensus,       \* ledgerMaxConsensus
    AbandonConsensus,   \* ledgerAbandonConsensus
    AvMinConsensusTime,
    MinClose,           \* ledgerMinClose
    IdleInterval,       \* ledgerIdleInterval, which is prevRoundTime_ at first
    ProposeFreshness,
    ProposeInterval,
    TimeCap,            \* bound: durations stop here
    MaxRounds           \* bound: calls of startRound()

PrevCap == TimeCap \div 2

(* Bound: our proposeSeq stops here.                                       *)
SeqCap == Leave - 1

(* Durations are compared with these limits, and with twice the time of    *)
(* the last round.                                                         *)
ASSUME TimesAssumption ==
    /\ MinConsensus <= MaxConsensus /\ MaxConsensus <= AbandonConsensus
    /\ AbandonConsensus < TimeCap /\ PrevCap + MinConsensus <= TimeCap
    /\ AvMinConsensusTime <= PrevCap /\ IdleInterval <= PrevCap
    /\ ProposeInterval <= ProposeFreshness

ASSUME BoundsAssumption ==
    /\ Leave \in Nat \ {0} /\ RecentMax \in Nat \ {0} /\ Resolution \in Nat \ {0}
    /\ IsFiniteSet(Peers)

ASSUME OffersAssumption ==
    /\ Parent \in [Ledgers -> Ledgers \cup {None}]
    /\ \A q \in Offers : /\ q.node \in Peers /\ q.prev \in Ledgers /\ q.ct \in Nat
                         /\ q.set \subseteq Txs /\ q.seq \in 0 .. Leave

(* Recent positions are played back peer by peer.                          *)
ASSUME AnswersAssumption ==
    \A e \in Answers : /\ e.net \in Ledgers /\ e.set \subseteq Txs /\ e.ct \in Nat
                       /\ e.order \in Seq(Peers)

(* Maps of transactions to disputes.                                       *)
DisputeMaps == UNION {[T -> DisputeType(Peers)] : T \in SUBSET Txs}

(* ConsensusResult, our position included.                                 *)
Results ==
    [prev : Ledgers \cup {None}, txns : SUBSET Txs, seq : 0 .. Leave, ct : Nat,
     told : Nat, time : Nat, compares : SUBSET SUBSET Txs, disputes : DisputeMaps,
     state : {"No", "MovedOn", "Expired", "Yes"}]

ASSUME NoneAssumption == None \notin Results

VARIABLES
    c,          \* the Consensus object
    held,       \* the ledgers acquireLedger() finds
    arriving,   \* complete sets for which gotTxSet() is still to be called
    coming,     \* proposals not delivered yet
    rounds,     \* calls of startRound()
    beat        \* parity of the calls of timerEntry()

vars == <<c, held, arriving, coming, rounds, beat>>

AbandonFactor == 10
CtConsensusPct == 75
MinimumCounter == Cardinality(Levels) * AvMinRounds

Proposing(o) == o.mode = "Proposing"

Without(f, S) == [x \in DOMAIN f \ S |-> f[x]]

(* The peers whose current position is a set we have.                      *)
Known(o) == {p \in DOMAIN o.peers : o.peers[p].set \in o.acquired}

(* roundCloseTime(): 0 means that there is no agreement.                   *)
asCloseTime(t) ==
    LET u == t + Resolution \div 2
    IN  IF t = 0 THEN 0 ELSE u - (u % Resolution)

(* Adaptor::propose(): what we last told our peers.                        *)
propose(o) ==
    [o EXCEPT !.sent = [prev |-> o.result.prev, seq |-> o.result.seq,
                        set |-> o.result.txns, ct |-> o.result.ct]]

(***************************************************************************)
(* Disputes                                                                *)
(***************************************************************************)
(* createDisputes() for each of some sets.                                 *)
createDisputes(o, sets) ==
    LET differing == {SymDiff(o.result.txns, s) : s \in sets \ o.result.compares}
        new == (UNION differing) \ DOMAIN o.result.disputes
        votes(t) == [p \in Known(o) |-> t \in o.peers[p].set]
    IN  [o EXCEPT
           !.result.compares = @ \cup sets,
           !.result.disputes =
               Over([t \in new |-> NewDispute(t \in o.result.txns, votes(t))], @),
           !.unchanged = IF new /= {} /\ Known(o) /= {} THEN 0 ELSE @]

(* updateDisputes() for each of some peers, which all propose s.           *)
updateDisputes(o, peers, s) ==
    LET d == createDisputes(o, {s})
    IN  [d EXCEPT
           !.result.disputes = [t \in DOMAIN @ |-> setVote(@[t], peers, t \in s)],
           !.unchanged = IF \E t \in DOMAIN d.result.disputes, p \in peers :
                               ChangesVote(d.result.disputes[t], p, t \in s)
                         THEN 0 ELSE @]

unVoteAll(o, peers) ==
    [o EXCEPT !.result.disputes = [t \in DOMAIN @ |-> unVote(@[t], peers)]]

(* The peers that propose s have their votes brought up to date.           *)
VotesOf(o, s) ==
    LET peers == {p \in DOMAIN o.peers : o.peers[p].set = s}
    IN  IF o.result = None \/ peers = {} THEN o ELSE updateDisputes(o, peers, s)

(* Mutant: the votes are left to the peers' next proposals.                *)
gotTxSetQuietly(o, s) ==
    IF o.phase = "Accepted" THEN o ELSE [o EXCEPT !.acquired = @ \cup {s}]

gotTxSet(o, s) ==
    IF o.phase = "Accepted" \/ s \in o.acquired THEN o
    ELSE VotesOf([o EXCEPT !.acquired = @ \cup {s}], s)

(***************************************************************************)
(* Proposals                                                               *)
(***************************************************************************)
(* Mutant: proposals are taken in while a ledger is built.                 *)
IgnoredIfOld(o, q) ==
    \/ q.prev /= o.prevID
    \/ q.node \in o.dead
    \/ q.node \in DOMAIN o.peers /\ q.seq <= o.peers[q.node].seq

Ignored(o, q) ==
    \/ o.phase = "Accepted"
    \/ q.prev /= o.prevID
    \/ q.node \in o.dead
    \/ q.node \in DOMAIN o.peers /\ q.seq <= o.peers[q.node].seq

(* Mutant: the position of the peer stays.                                 *)
bowsOutInPlace(o, p) ==
    [(IF o.result = None THEN o ELSE unVoteAll(o, {p})) EXCEPT !.dead = @ \cup {p}]

(* isBowOut()                                                              *)
bowsOut(o, p) ==
    LET u == IF o.result = None THEN o ELSE unVoteAll(o, {p})
    IN  [u EXCEPT !.peers = Without(@, {p}), !.dead = @ \cup {p}]

peerProposalInternal(o, q) ==
    LET u == [o EXCEPT !.peers = Over([p \in {q.node} |-> q], @)]
    IN  CASE Ignored(o, q) -> o
          [] ~Ignored(o, q) /\ q.seq = Leave -> bowsOut(o, q.node)
          [] OTHER ->
               IF q.set \notin u.acquired
               THEN IF q.set \in u.inbound THEN gotTxSet(u, q.set) ELSE u
               ELSE IF u.result = None THEN u ELSE updateDisputes(u, {q.node}, q.set)

(* The proposals of one peer, one after the other.                         *)
playback(o, props) ==
    LET upTo[i \in 0 .. Len(props)] ==
            IF i = 0 THEN o ELSE peerProposalInternal(upTo[i - 1], props[i])
    IN  upTo[Len(props)]

(* playbackProposals(): order is that of an unordered map.                 *)
playbackProposals(o, order) ==
    LET upTo[i \in 0 .. Len(order)] ==
            IF i = 0 THEN o ELSE playback(upTo[i - 1], o.recent[order[i]])
    IN  upTo[Len(order)]

(***************************************************************************)
(* The open phase                                                          *)
(***************************************************************************)
(* The time since the last close is "short", over the "idle" interval, or  *)
(* over ten minutes ("long").                                              *)
shouldCloseLedger(o, e) ==
    \/ e.since = "long"
    \/ Cardinality(DOMAIN o.peers) + e.validated > o.prevProposers \div 2
    \/ ~e.any /\ e.since = "idle"
    \/ e.any /\ o.openTime >= MinClose /\ 2 * o.openTime >= o.prevRound

closeLedger(o, e) ==
    LET u == [o EXCEPT
                !.phase = "Establish", !.unchanged = 0, !.established = 0,
                !.result = [prev |-> o.prev, txns |-> e.set, seq |-> 0, ct |-> e.ct,
                            told |-> 0, time |-> 0, disputes |-> <<>>,
                            compares |-> {}, state |-> "No"],
                !.acquired = @ \cup {e.set}, !.inbound = @ \cup {e.set}]
        v == IF Proposing(u) THEN propose(u) ELSE u
    IN  createDisputes(v, {v.peers[p].set : p \in Known(v)})

phaseOpen(o, e) == IF shouldCloseLedger(o, e) THEN closeLedger(o, e) ELSE o

(***************************************************************************)
(* The previous ledger                                                     *)
(***************************************************************************)
(* Mutant: the mode is left without telling the peers.                     *)
leaveConsensusSilently(o) == IF Proposing(o) THEN [o EXCEPT !.mode = "Observing"] ELSE o

leaveConsensus(o) ==
    IF ~Proposing(o) THEN o
    ELSE LET u == [o EXCEPT !.mode = "Observing"]
         IN  IF u.result = None THEN u
             ELSE IF u.result.seq = Leave THEN u
             ELSE propose([u EXCEPT !.result.seq = Leave, !.result.told = 0])

(* Its call of timerEntry() meets the answers the caller met, so all that  *)
(* is left of it is phaseOpen().                                           *)
startRoundInternal(o, id, ledger, mode, e) ==
    LET u == playbackProposals(
               [o EXCEPT !.phase = "Open", !.mode = mode, !.prevID = id, !.prev = ledger,
                         !.result = None, !.ctLevel = "Init", !.haveCT = FALSE,
                         !.openTime = 0, !.peers = <<>>, !.acquired = {}, !.dead = {}],
               e.order)
    IN  IF Cardinality(DOMAIN u.peers) > u.prevProposers \div 2 THEN phaseOpen(u, e) ELSE u

(* First time switching to this ledger.                                    *)
ForgetPeers(o, id) ==
    LET u == [o EXCEPT !.prevID = id, !.peers = <<>>, !.dead = {}]
    IN  IF u.result = None THEN u
        ELSE [u EXCEPT !.result.disputes = <<>>, !.result.compares = {}]

(* Mutant: the proposals already received for it are not looked at.        *)
SwitchUnsynced(o, id, e) == IF o.prevID = id THEN o ELSE ForgetPeers(o, id)

SwitchTo(o, id, e) ==
    IF o.prevID = id THEN o ELSE playbackProposals(ForgetPeers(o, id), e.order)

handleWrongLedger(o, e) ==
    LET u == SwitchTo(leaveConsensus(o), e.net, e)
    IN  IF u.prev = u.prevID THEN u
        ELSE IF e.net \in held
             THEN startRoundInternal(u, e.net, e.net, "SwitchedLedger", e)
             ELSE [u EXCEPT !.mode = "WrongLedger"]

checkLedger(o, e) ==
    IF e.net /= o.prevID \/ o.prev /= o.prevID THEN handleWrongLedger(o, e) ELSE o

(***************************************************************************)
(* The establish phase                                                     *)
(***************************************************************************)
(* convergePercent_                                                        *)
convergePercent(o) ==
    (o.result.time * 100)
        \div (IF o.prevRound > AvMinConsensusTime THEN o.prevRound ELSE AvMinConsensusTime)

participantsNeeded(n, percent) ==
    LET needed == (n * percent + percent \div 2) \div 100
    IN  IF needed = 0 THEN 1 ELSE needed

(* The close times that are voted for, our own included if we propose.     *)
closeTimeVotes(o) ==
    LET own == IF Proposing(o) THEN {None} ELSE {}
        vote(p) == asCloseTime(IF p = None THEN o.result.ct ELSE o.peers[p].ct)
        voters == DOMAIN o.peers \cup own
    IN  [t \in {vote(p) : p \in voters} |-> Cardinality({p \in voters : vote(p) = t})]

(* The close time to propose: the earliest with the most votes, if these   *)
(* are enough.                                                             *)
agreeOnCloseTime(o) ==
    LET level == NextLevel(o.ctLevel, convergePercent(o), 0, 0)
        n     == Cardinality(DOMAIN o.peers) + (IF Proposing(o) THEN 1 ELSE 0)
        votes == closeTimeVotes(o)
        most  == Max({votes[t] : t \in DOMAIN votes})
        agree == most >= participantsNeeded(n, Cutoffs[level].pct)
    IN  IF DOMAIN o.peers = {}
        THEN [have |-> TRUE, level |-> o.ctLevel, time |-> asCloseTime(o.result.ct)]
        ELSE [have |-> agree /\ most >= participantsNeeded(n, CtConsensusPct),
              level |-> level,
              time |-> IF agree THEN Min({t \in DOMAIN votes : votes[t] = most}) ELSE 0]

(* Mutant: the votes of a stale position are kept.                         *)
dropStalePosition(o) ==
    [o EXCEPT !.peers =
        Without(@, {p \in DOMAIN o.peers : o.peers[p].age >= ProposeFreshness})]

(* Stale positions go, with their votes.                                   *)
dropStale(o) ==
    LET stale == {p \in DOMAIN o.peers : o.peers[p].age >= ProposeFreshness}
    IN  [unVoteAll(o, stale) EXCEPT !.peers = Without(@, stale)]

(* Mutant: a changed position keeps its number.                            *)
changePositionUnnumbered(o, txns, ct) ==
    LET u == [o EXCEPT !.result.txns = txns, !.result.ct = ct, !.result.told = 0,
                       !.acquired = @ \cup {txns}]
    IN  IF u.result.seq /= Leave /\ Proposing(u) THEN propose(u) ELSE u

(* Mutant: the changed position is kept to ourselves.                      *)
changePositionQuietly(o, txns, ct) ==
    [o EXCEPT !.result.txns = txns, !.result.ct = ct, !.result.told = 0,
              !.result.seq = IF @ = Leave THEN @ ELSE CountTo(SeqCap, @),
              !.acquired = @ \cup {txns}]

(* changePosition() and what is shared after it.                           *)
changePosition(o, txns, ct) ==
    LET u == [o EXCEPT !.result.txns = txns, !.result.ct = ct, !.result.told = 0,
                       !.result.seq = IF @ = Leave THEN @ ELSE CountTo(SeqCap, @)]
        v == IF txns \in u.acquired THEN u
             ELSE VotesOf([u EXCEPT !.acquired = @ \cup {txns},
                                    !.inbound = IF u.result.seq = Leave THEN @
                                                ELSE @ \cup {txns}],
                          txns)
    IN  IF v.result.seq /= Leave /\ Proposing(v) THEN propose(v) ELSE v

updateOurPositions(o) ==
    LET u     == dropStale(o)
        old   == u.result.disputes
        new   == [t \in DOMAIN old |-> updateVote(old[t], convergePercent(o), Proposing(o))]
        flips == {t \in DOMAIN old : new[t].ours /= old[t].ours}
        close == agreeOnCloseTime(u)
        v     == [u EXCEPT !.result.disputes = new,
                           !.haveCT = close.have, !.ctLevel = close.level]
    IN  IF \/ flips /= {}
           \/ close.time /= asCloseTime(v.result.ct)
           \/ v.result.told >= ProposeInterval
        THEN changePosition(v, {t \in v.result.txns \cup flips : t \in flips => new[t].ours},
                            close.time)
        ELSE v

checkConsensusReached(agreeing, total, self, reachedMax, isStalled) ==
    IF total = 0 THEN reachedMax
    ELSE isStalled \/ ((agreeing + self) * 100) \div (total + self) >= MinConsensusPct

checkConsensus(o, finished) ==
    LET total   == Cardinality(DOMAIN o.peers)
        agree   == Cardinality({p \in DOMAIN o.peers : o.peers[p].set = o.result.txns})
        time    == o.result.time
        late    == time > MaxConsensus
        limit   == Max({MaxConsensus, Min({AbandonConsensus, o.prevRound * AbandonFactor})})
        isStalled == /\ o.haveCT /\ DOMAIN o.result.disputes /= {}
                     /\ \A t \in DOMAIN o.result.disputes :
                           stalled(o.result.disputes[t], Proposing(o), o.unchanged)
    IN  CASE \/ time <= MinConsensus
             \/ /\ total < (o.prevProposers * 3) \div 4
                /\ time < o.prevRound + MinConsensus
               -> "No"
          [] OTHER ->
               IF checkConsensusReached(agree, total, IF Proposing(o) THEN 1 ELSE 0,
                                        late, isStalled)
               THEN "Yes"
               ELSE IF checkConsensusReached(finished, total, 0, late, FALSE) THEN "MovedOn"
               ELSE IF time > limit THEN "Expired" ELSE "No"

(* haveConsensus(), and the end of phaseEstablish() if there is.           *)
haveConsensus(o, e) ==
    LET state == checkConsensus(o, e.finished)
        u == [o EXCEPT !.result.state = state]
        v == IF state = "Expired" THEN leaveConsensus(u) ELSE u
    IN  IF state = "No" \/ (state = "Expired" /\ u.established < MinimumCounter) THEN u
        ELSE IF ~v.haveCT THEN v
        ELSE [v EXCEPT !.phase = "Accepted",
                       !.prevProposers = Cardinality(DOMAIN v.peers),
                       !.prevRound = Min({v.result.time, PrevCap})]

(* Mutant: laggards are waited for without a limit.                        *)
shouldPauseForever(o, e) == e.pause

(* Whether there are too many laggards is the adaptor's answer.            *)
shouldPause(o, e) == e.pause /\ o.result.time <= MaxConsensus

phaseEstablish(o, e) ==
    LET u == [o EXCEPT !.unchanged = CountTo(AvStalledRounds, @),
                       !.established = CountTo(MinimumCounter, @)]
        v == updateOurPositions(u)
    IN  IF u.result.time < MinConsensus THEN u
        ELSE IF shouldPause(v, e) THEN v ELSE haveConsensus(v, e)

(***************************************************************************)
(* Actions                                                                 *)
(***************************************************************************)
(* Between two rounds; what startRound() resets is not told apart.         *)
Init ==
    /\ \E n \in LastProposers :
       c = [phase |-> "Accepted", mode |-> "Observing", prevID |-> None, prev |-> None,
            acquired |-> {}, inbound |-> Have, result |-> None, peers |-> <<>>,
            recent |-> [p \in Peers |-> <<>>], dead |-> {}, haveCT |-> FALSE,
            ctLevel |-> "Init", unchanged |-> 0, established |-> 0, openTime |-> 0,
            prevRound |-> IdleInterval, prevProposers |-> n, sent |-> None]
    /\ held = Held
    /\ arriving = {} /\ coming = Offers /\ rounds = 0 /\ beat = 0

(* getPreferred(): we stick with our ledger when the network is on its     *)
(* parent, or on a child of it that we may be about to build.              *)
Preferable(ledger, net) == Parent[net] /= ledger /\ net /= Parent[ledger]

(* endConsensus(): ledger is the last closed one, built on the ledger of   *)
(* the last round.                                                         *)
MayBegin(ledger, net) ==
    ledger \in held /\ Parent[ledger] = c.prev /\ Preferable(ledger, net)

(* startRound(), by a node that is in sync only if the network is on its   *)
(* last closed ledger. Proposals of nodes that are no longer trusted are   *)
(* not passed on.                                                          *)
StartRound(ledger, e) ==
    /\ c.phase = "Accepted" /\ rounds < MaxRounds
    /\ MayBegin(ledger, e.net)
    /\ LET right == e.net \in held
           mode == IF ~right THEN "WrongLedger"
                   ELSE IF e.validator /\ e.net = ledger THEN "Proposing" ELSE "Observing"
           u == [c EXCEPT !.recent =
                   [p \in Peers |-> IF p \in e.untrusted THEN <<>> ELSE @[p]]]
       IN  c' = startRoundInternal(u, e.net, IF right THEN e.net ELSE ledger, mode, e)
    /\ coming' = {q \in coming : q.node \notin e.untrusted}
    /\ rounds' = rounds + 1
    /\ UNCHANGED <<held, arriving, beat>>

(* peerProposal()                                                          *)
PeerProposal(q) ==
    /\ q \in coming
    /\ LET props == c.recent[q.node]
           kept == IF Len(props) >= RecentMax THEN Tail(props) ELSE props
           seen == [node |-> q.node, prev |-> q.prev, seq |-> q.seq,
                    set |-> q.set, ct |-> q.ct, age |-> 0]
       IN  c' = peerProposalInternal([c EXCEPT !.recent[q.node] = Append(kept, seen)], seen)
    /\ coming' = coming \ {q}
    /\ UNCHANGED <<held, arriving, rounds, beat>>

(* InboundTransactions completes a set, and has it passed on.              *)
TxSetArrives(s) ==
    /\ s \notin c.inbound
    /\ c' = [c EXCEPT !.inbound = @ \cup {s}]
    /\ arriving' = arriving \cup {s}
    /\ UNCHANGED <<held, coming, rounds, beat>>

GotTxSet(s) ==
    /\ s \in arriving
    /\ c' = gotTxSet(c, s)
    /\ arriving' = arriving \ {s}
    /\ UNCHANGED <<held, coming, rounds, beat>>

(* A ledger was built or acquired.                                         *)
LedgerArrives(l) ==
    /\ l \notin held
    /\ held' = held \cup {l}
    /\ UNCHANGED <<c, arriving, coming, rounds, beat>>

(* The time that passes up to a call of timerEntry().                      *)
Older(q) == [q EXCEPT !.age = CountTo(ProposeFreshness, @)]

AgedProposals(o) == [p \in Peers |-> [i \in DOMAIN o.recent[p] |-> Older(o.recent[p][i])]]

Aged(o) ==
    LET u == [o EXCEPT !.recent = AgedProposals(o),
                       !.peers = [p \in DOMAIN o.peers |-> Older(o.peers[p])],
                       !.openTime = CountTo(TimeCap, @)]
    IN  IF u.result = None THEN u
        ELSE [u EXCEPT !.result.time = CountTo(TimeCap, @),
                       !.result.told = CountTo(ProposeInterval, @)]

TimerEntry(e) ==
    /\ c.phase /= "Accepted"
    /\ Preferable(c.prev, e.net)
    /\ LET u == checkLedger(Aged(c), e)
       IN  c' = IF u.phase = "Open" THEN phaseOpen(u, e) ELSE phaseEstablish(u, e)
    /\ beat' = 1 - beat
    /\ UNCHANGED <<held, arriving, coming, rounds>>

(* timerEntry() has nothing to do while a ledger is built, but proposals   *)
(* get older.                                                              *)
TimerIdle ==
    /\ c.phase = "Accepted"
    /\ c' = [c EXCEPT !.recent = AgedProposals(c)]
    /\ beat' = 1 - beat
    /\ UNCHANGED <<held, arriving, coming, rounds>>

Next ==
    \/ TimerIdle
    \/ \E e \in Answers : TimerEntry(e)
    \/ \E l \in Ledgers, e \in Answers : StartRound(l, e)
    \/ \E q \in Offers : PeerProposal(q)
    \/ \E s \in {q.set : q \in Offers} : TxSetArrives(s) \/ GotTxSet(s)
    \/ \E l \in Ledgers : LedgerArrives(l)

(* The heartbeat timer is set again after each call of timerEntry(), which *)
(* is possible in every state.                                             *)
Heartbeat == []<><<beat' /= beat>>_beat

Spec == Init /\ [][Next]_vars /\ Heartbeat

(***************************************************************************)
(* Properties                                                              *)
(***************************************************************************)
(* The members have the shapes of their types, and a position is taken     *)
(* exactly when the ledger was closed.                                     *)
TypeOK ==
    /\ c.phase \in {"Open", "Establish", "Accepted"}
    /\ c.mode \in {"Proposing", "Observing", "WrongLedger", "SwitchedLedger"}
    /\ DOMAIN c.peers \cap c.dead = {}
    /\ \A p \in DOMAIN c.peers : c.peers[p].node = p /\ c.peers[p].prev = c.prevID
    /\ \A p \in Peers : Len(c.recent[p]) <= RecentMax
    /\ rounds > 0 => (c.result = None <=> c.phase = "Open")
    /\ c.result /= None => c.result \in Results /\ c.result.txns \in c.acquired

(* Disputes follow the positions, in whatever order proposals, sets and    *)
(* changes of the previous ledger come: only current proposers vote, one   *)
(* whose set we have votes on each dispute as its set says, whatever we    *)
(* and such a proposer disagree on is disputed, and our vote on a dispute  *)
(* is what our set says, so that a vote that changes does change our       *)
(* position (createDisputes, updateDisputes, gotTxSet, updateOurPositions).*)
DisputesMatch ==
    c.result /= None =>
        /\ \A t \in DOMAIN c.result.disputes :
              LET votes == c.result.disputes[t].votes
              IN  /\ DOMAIN votes \subseteq DOMAIN c.peers
                  /\ \A p \in Known(c) : /\ p \in DOMAIN votes
                                         /\ votes[p] <=> t \in c.peers[p].set
                  /\ c.result.disputes[t].ours <=> t \in c.result.txns
        /\ \A p \in Known(c) :
              SymDiff(c.result.txns, c.peers[p].set) \subseteq DOMAIN c.result.disputes

(* No proposal we kept for the ledger the network is on is overlooked,     *)
(* although it may have come before we knew that it is: its sender bowed   *)
(* out, or has a current position at least as new, or such a position has  *)
(* become stale (handleWrongLedger: "Get back in sync").                   *)
NothingOverlooked ==
    c.phase /= "Accepted" =>
        \A p \in Peers : \A q \in Range(c.recent[p]) :
            q.prev = c.prevID =>
                \/ p \in c.dead
                \/ p \in DOMAIN c.peers /\ c.peers[p].seq >= q.seq
                \/ \E r \in Range(c.recent[p]) :
                      r.prev = q.prev /\ r.seq >= q.seq /\ r.age >= ProposeFreshness

(* While we propose, our peers were told the position we hold, and it is   *)
(* for the ledger the network is on (closeLedger, updateOurPositions).     *)
PositionTold ==
    (c.result /= None /\ Proposing(c)) =>
        /\ c.sent = [prev |-> c.prevID, seq |-> c.result.seq,
                     set |-> c.result.txns, ct |-> c.result.ct]
        /\ c.sent.seq /= Leave /\ c.prev = c.prevID

(* Who stops proposing in a round, for another ledger or because it took   *)
(* too long, tells the peers, and they are not left to wait for a position *)
(* that is held no more (leaveConsensus).                                  *)
LeavingIsTold ==
    [][(c.phase = "Establish" /\ Proposing(c) /\ ~Proposing(c')) =>
          c'.sent.seq = Leave /\ c'.sent.prev = c.prevID]_vars

(* For a previous ledger, proposeSeq grows with each proposal we send, and *)
(* none follows the one that bows out, so that peers take each for newer   *)
(* than the ones before (changePosition, bowOut, peerProposalInternal).    *)
ProposalsOrdered ==
    [][(/\ c.sent /= None /\ c'.sent \notin {None, c.sent}
        /\ c'.sent.prev = c.sent.prev) => c'.sent.seq > c.sent.seq]_vars

(* "once a ledger is accepted, the consensus results and capture by        *)
(* reference state will not change until startRound is called": nothing    *)
(* that comes in while the ledger is built changes them                    *)
(* (RCLConsensus::Adaptor::onAccept).                                      *)
AcceptedIsFrozen ==
    [][(c.phase = "Accepted" /\ c'.phase = "Accepted") =>
          /\ c'.result = c.result /\ c'.mode = c.mode
          /\ c'.prevID = c.prevID /\ c'.peers = c.peers]_vars

(* A round that was closed ends, by consensus, because the others moved on *)
(* or because it took too long, unless the network changes to another      *)
(* ledger: neither disputes nor close times nor laggards hold it up        *)
(* forever once the peers fall silent (phaseEstablish, haveConsensus).     *)
RoundEnds ==
    \A l \in Ledgers : (c.phase = "Establish" /\ c.prevID = l)
                          ~> (c.phase /= "Establish" \/ c.prevID /= l)
==============================================================================
