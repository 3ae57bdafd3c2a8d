----------------------------- MODULE DisputedTx -----------------------------
(***************************************************************************)
(* A transaction on which proposers disagree: the peers' votes, our vote,  *)
(* and how our vote follows them as the required majority grows with time  *)
(* (DisputedTx.h, ConsensusParms.h).                                       *)
(***************************************************************************)
EXTENDS Naturals, FiniteSets

CONSTANTS
    AvMinRounds,        \* avMinRounds
    AvStalledRounds     \* avStalledRounds

ASSUME RoundsAssumption ==
    AvMinRounds \in Nat \ {0} /\ AvStalledRounds \in Nat /\ AvMinRounds <= AvStalledRounds

(* Counters are compared with these limits only and stop there.            *)
CountTo(limit, n) == IF n < limit THEN n + 1 ELSE n

(* f where it is defined, g elsewhere.                                     *)
Over(f, g) ==
    [x \in DOMAIN f \cup DOMAIN g |-> IF x \in DOMAIN f THEN f[x] ELSE g[x]]

(* minConsensusPct                                                         *)
MinConsensusPct == 80

(* avalancheCutoffs: the percentage of the last round's time after which a *)
(* level is reached, the majority it requires, and the level after it.     *)
Cutoffs ==
    [Init  |-> [time |-> 0,   pct |-> 50, next |-> "Mid"],
     Mid   |-> [time |-> 50,  pct |-> 65, next |-> "Late"],
     Late  |-> [time |-> 85,  pct |-> 70, next |-> "Stuck"],
     Stuck |-> [time |-> 200, pct |-> 95, next |-> "Stuck"]]

Levels == DOMAIN Cutoffs

(* getNeededWeight(): the level after tries attempts at this one.          *)
NextLevel(level, percent, tries, minTries) ==
    LET next == Cutoffs[level].next
    IN  IF next /= level /\ tries >= minTries /\ percent >= Cutoffs[next].time
        THEN next ELSE level

NewDispute(ours, votes) ==
    [ours |-> ours, votes |-> votes, level |-> "Init", tries |-> 0, kept |-> 0]

DisputeType(Peers) ==
    [ours : BOOLEAN, votes : UNION {[P -> BOOLEAN] : P \in SUBSET Peers},
     level : Levels, tries : 0 .. AvMinRounds, kept : 0 .. AvStalledRounds]

Yays(d) == Cardinality({p \in DOMAIN d.votes : d.votes[p]})
Nays(d) == Cardinality({p \in DOMAIN d.votes : ~d.votes[p]})

(* setVote() for some peers that vote alike.                               *)
setVote(d, peers, yes) == [d EXCEPT !.votes = Over([p \in peers |-> yes], @)]

(* setVote()'s return value.                                               *)
ChangesVote(d, p, yes) == p \notin DOMAIN d.votes \/ d.votes[p] /= yes

unVote(d, peers) ==
    [d EXCEPT !.votes = [p \in DOMAIN d.votes \ peers |-> d.votes[p]]]

(* The percentage in favour, ourselves included if we propose.             *)
Weight(d, proposing) ==
    LET self == IF proposing THEN 1 ELSE 0
    IN  ((Yays(d) + (IF d.ours THEN self ELSE 0)) * 100) \div (Yays(d) + Nays(d) + self)

(* updateVote()                                                            *)
updateVote(d, percent, proposing) ==
    LET tries == CountTo(AvMinRounds, d.tries)
        level == NextLevel(d.level, percent, tries, AvMinRounds)
        now   == IF proposing THEN Weight(d, TRUE) > Cutoffs[level].pct
                 ELSE Yays(d) > Nays(d)
    IN  IF (IF d.ours THEN Nays(d) ELSE Yays(d)) = 0
        THEN d
        ELSE [d EXCEPT !.ours = now,
                       !.level = level,
                       !.tries = IF level = d.level THEN tries ELSE 0,
                       !.kept = IF now = d.ours THEN CountTo(AvStalledRounds, @) ELSE 0]

(* stalled(): the vote is clear and neither we nor the peers are likely to *)
(* change it.                                                              *)
stalled(d, proposing, unchanged) ==
    /\ Cutoffs[Cutoffs[d.level].next].time <= Cutoffs[d.level].time
    /\ d.tries >= AvMinRounds
    /\ proposing => d.kept >= AvMinRounds
    /\ unchanged >= AvStalledRounds \/ ~proposing \/ d.kept >= AvStalledRounds
    /\ proposing \/ DOMAIN d.votes /= {}
    /\ \/ Weight(d, proposing) > MinConsensusPct
       \/ Weight(d, proposing) < 100 - MinConsensusPct
=============================================================================
