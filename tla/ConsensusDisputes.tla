-------------------------- MODULE ConsensusDisputes --------------------------
(***************************************************************************)
(* What proposals and transaction sets do to a node's side of a consensus  *)
(* round (module Consensus), for any numbers of peers, transactions and    *)
(* proposals: the invariant of the object, and the lemmas about votes,     *)
(* disputes, close times, the playback of proposals and the updates of our *)
(* own position.                                                           *)
(***************************************************************************)
EXTENDS Consensus, FiniteSetTheorems, WellFoundedInduction, TLAPS

(* The members of the object, and the proposals it may hold.               *)
Fields ==
    {"phase", "mode", "prevID", "prev", "acquired", "inbound", "result", "peers", "recent",
     "dead", "haveCT", "ctLevel", "unchanged", "established", "openTime", "prevRound",
     "prevProposers", "sent"}

Seen ==
    {[node |-> q.node, prev |-> q.prev, seq |-> q.seq, set |-> q.set, ct |-> q.ct, age |-> a] :
        q \in Offers, a \in Nat}

(* What the members may be, whatever they say of each other.               *)
Shape(o) ==
    /\ DOMAIN o = Fields
    /\ o.phase \in {"Open", "Establish", "Accepted"}
    /\ o.mode \in {"Proposing", "Observing", "WrongLedger", "SwitchedLedger"}
    /\ o.prev \in Ledgers \cup {None}
    /\ o.result \in Results \cup {None}
    /\ o.recent \in [Peers -> Seq(Seen)]
    /\ \A p \in Peers : Len(o.recent[p]) <= RecentMax

(* Positions are those of peers that are still in this round.              *)
Positions(o) ==
    /\ DOMAIN o.peers \subseteq Peers \ o.dead
    /\ \A p \in DOMAIN o.peers :
          o.peers[p] \in Seen /\ o.peers[p].node = p /\ o.peers[p].prev = o.prevID

(* The disputes are right, but for what the peers in P have just told us:  *)
(* DisputesMatch, and whatever we differ on from a set compared with ours  *)
(* is disputed, although ours may have changed since.                      *)
Disputing(o, P) ==
    /\ \A t \in DOMAIN o.result.disputes :
          /\ DOMAIN o.result.disputes[t].votes \subseteq DOMAIN o.peers
          /\ \A p \in Known(o) \ P : /\ p \in DOMAIN o.result.disputes[t].votes
                                     /\ o.result.disputes[t].votes[p] <=> t \in o.peers[p].set
          /\ o.result.disputes[t].ours <=> t \in o.result.txns
    /\ \A s \in o.result.compares : SymDiff(o.result.txns, s) \subseteq DOMAIN o.result.disputes
    /\ \A p \in Known(o) \ P :
          SymDiff(o.result.txns, o.peers[p].set) \subseteq DOMAIN o.result.disputes

(* The peers were told our position while we propose it.                   *)
Told(o) ==
    /\ Proposing(o) => o.prev = o.prevID
    /\ (o.result /= None /\ Proposing(o)) =>
          /\ o.result.seq <= SeqCap /\ o.result.prev = o.prevID
          /\ o.sent = [prev |-> o.result.prev, seq |-> o.result.seq,
                       set |-> o.result.txns, ct |-> o.result.ct]

(* The object between two calls, but for the votes of the peers in P and   *)
(* for what is told to the peers.                                          *)
DisputesInv(o, P) ==
    /\ Shape(o) /\ Positions(o)
    /\ o.phase = "Open" => o.result = None
    /\ o.phase = "Establish" => o.result /= None
    /\ o.result /= None => o.result.txns \in o.acquired /\ Disputing(o, P)

ObjectInv(o, P) == DisputesInv(o, P) /\ Told(o)

-----------------------------------------------------------------------------
(* A set of numbers that is not empty has a least one.                     *)
LEMMA LeastNumber ==
    ASSUME NEW T \in SUBSET Nat, T /= {}
    PROVE  \E m \in T : \A n \in T : ~(n < m)
  <1> DEFINE R == OpToRel(<, Nat)
  <1>1. IsWellFoundedOn(R, Nat)
    BY NatLessThanWellFounded, Zenon
  <1>2. \A m, n \in Nat : <<n, m>> \in R <=> n < m
    BY DEF OpToRel
  <1> HIDE DEF R
  <1>3. PICK m \in T : \A n \in T : ~(<<n, m>> \in R)
    BY <1>1, WFMin, Zenon
  <1>4. \A n \in T : ~(n < m)
    BY <1>2, <1>3, Zenon
  <1>5. QED
    BY <1>4

(* Induction, for the numbers of which something holds taken as a set.     *)
LEMMA Induction ==
    ASSUME NEW S, 0 \in S, \A n \in Nat : n \in S => n + 1 \in S
    PROVE  \A n \in Nat : n \in S
  <1> DEFINE T == Nat \ S
  <1>1. SUFFICES ASSUME T /= {} PROVE FALSE
    BY Zenon
  <1>2. T \in SUBSET Nat
    OBVIOUS
  <1>3. PICK m \in T : \A n \in T : ~(n < m)
    <2> HIDE DEF T
    <2>1. QED
      BY <1>1, <1>2, LeastNumber, Zenon
  <1>4. m \in Nat /\ m \notin S /\ m /= 0
    BY <1>3
  <1>5. m - 1 \in Nat /\ m - 1 < m /\ (m - 1) + 1 = m
    BY <1>4, SMT
  <1>6. m - 1 \in S
    BY <1>3, <1>5, Zenon
  <1>7. QED
    BY <1>4, <1>5, <1>6, Zenon

(* A finite set of numbers that is not empty has a greatest one.           *)
LEMMA GreatestNumber ==
    ASSUME NEW V \in SUBSET Nat, V /= {}, IsFiniteSet(V)
    PROVE  \E m \in V : \A n \in V : m >= n
  <1> DEFINE Bounded(T) == \E m \in T : \A n \in T : m >= n
             S == {k \in Nat : \A T \in SUBSET Nat :
                      (IsFiniteSet(T) /\ Cardinality(T) = k + 1) => Bounded(T)}
  <1>1. ASSUME NEW T \in SUBSET Nat, NEW x \in T, Bounded(T \ {x}) PROVE Bounded(T)
    BY <1>1, SMT
  <1>2. ASSUME NEW T \in SUBSET Nat, NEW x \in T, T \ {x} = {} PROVE Bounded(T)
    BY <1>2, SMT
  <1> HIDE DEF Bounded
  <1>3. 0 \in S
    <2>1. SUFFICES ASSUME NEW T \in SUBSET Nat, IsFiniteSet(T), Cardinality(T) = 0 + 1
                   PROVE  Bounded(T)
      BY Zenon
    <2>2. PICK x \in T : TRUE
      <3>1. Cardinality(T) /= 0
        BY <2>1, SMT
      <3>2. QED
        BY <3>1, FS_EmptySet
    <2>3. IsFiniteSet(T \ {x}) /\ Cardinality(T \ {x}) = 0
      BY <2>1, FS_RemoveElement
    <2>4. T \ {x} = {}
      BY <2>3, FS_EmptySet
    <2>5. QED
      BY <1>2, <2>4
  <1>4. ASSUME NEW k \in Nat, k \in S PROVE k + 1 \in S
    <2>1. SUFFICES ASSUME NEW T \in SUBSET Nat, IsFiniteSet(T), Cardinality(T) = (k + 1) + 1
                   PROVE  Bounded(T)
      BY k + 1 \in Nat, Zenon
    <2>2. PICK x \in T : TRUE
      <3>1. Cardinality(T) /= 0
        BY <2>1, SMT
      <3>2. QED
        BY <3>1, FS_EmptySet
    <2>3. IsFiniteSet(T \ {x}) /\ Cardinality(T \ {x}) = k + 1
      BY <2>1, FS_RemoveElement
    <2>4. Bounded(T \ {x})
      BY <1>4, <2>3
    <2>5. QED
      BY <1>1, <2>4
  <1> HIDE DEF S
  <1>5. \A k \in Nat : k \in S
    BY <1>3, <1>4, Induction, Zenon
  <1>6. PICK k \in Nat : Cardinality(V) = k + 1
    <2>1. Cardinality(V) \in Nat /\ Cardinality(V) /= 0
      BY FS_CardinalityType, FS_EmptySet
    <2>2. Cardinality(V) - 1 \in Nat /\ Cardinality(V) = (Cardinality(V) - 1) + 1
      BY <2>1, SMT
    <2>3. QED
      BY <2>2
  <1>7. Bounded(V)
    BY <1>5, <1>6, Zenon DEF S
  <1>8. QED
    BY <1>7 DEF Bounded
-----------------------------------------------------------------------------
(* What playing back some proposals keeps: all that the peers' positions   *)
(* and the disputes are not part of.                                       *)
Keeps(o, u, F) == DOMAIN u = DOMAIN o /\ \A f \in Fields \ F : u[f] = o[f]

SamePosition(o, u) ==
    /\ (o.result = None) = (u.result = None)
    /\ o.result /= None =>
          /\ u.result.prev = o.result.prev /\ u.result.txns = o.result.txns
          /\ u.result.seq = o.result.seq /\ u.result.ct = o.result.ct

SameRound(o, u) ==
    /\ Keeps(o, u, {"result", "peers", "dead", "acquired", "unchanged"})
    /\ SamePosition(o, u)

(* What we and the owners of some sets differ on.                          *)
Differing(o, sets) == UNION {SymDiff(o.result.txns, s) : s \in sets \ o.result.compares}

Created(o, sets, d) ==
    /\ Keeps(o, d, {"result", "unchanged"})
    /\ d.result = [o.result EXCEPT !.compares = d.result.compares,
                                   !.disputes = d.result.disputes]
    /\ d.result.compares = o.result.compares \cup sets
    /\ DOMAIN d.result.disputes = DOMAIN o.result.disputes \cup Differing(o, sets)
    /\ d.result.disputes = [t \in DOMAIN d.result.disputes |-> d.result.disputes[t]]
    /\ \A t \in DOMAIN o.result.disputes : d.result.disputes[t] = o.result.disputes[t]
    /\ \A t \in DOMAIN d.result.disputes \ DOMAIN o.result.disputes :
          d.result.disputes[t] =
             NewDispute(t \in o.result.txns, [p \in Known(o) |-> t \in o.peers[p].set])

(* createDisputes changes only the disputes, the sets compared and the     *)
(* counter of rounds without a change.                                     *)
LEMMA CreateFields ==
    ASSUME NEW o, NEW sets, DOMAIN o = Fields, o.result \in Results
    PROVE  Created(o, sets, createDisputes(o, sets))
  <1> DEFINE d == createDisputes(o, sets)
             new == Differing(o, sets) \ DOMAIN o.result.disputes
             votes(t) == [p \in Known(o) |-> t \in o.peers[p].set]
             f == [t \in new |-> NewDispute(t \in o.result.txns, votes(t))]
  <1>1. Keeps(o, d, {"result", "unchanged"})
    BY DEF createDisputes, Keeps, Fields
  <1>2. /\ d.result = [o.result EXCEPT !.compares = d.result.compares,
                                       !.disputes = d.result.disputes]
        /\ d.result.compares = o.result.compares \cup sets
    BY DEF createDisputes, Fields, Results
  <1>3. d.result.disputes = Over(f, o.result.disputes)
    BY DEF createDisputes, Fields, Results, Differing
  <1>4. \A g : /\ DOMAIN Over(f, g) = new \cup DOMAIN g
               /\ \A t \in DOMAIN g \ new : Over(f, g)[t] = g[t]
               /\ \A t \in new : Over(f, g)[t] = f[t]
    <2> HIDE DEF new, votes
    <2>1. QED
      BY DEF Over
  <1>5. \A t \in new : f[t] = NewDispute(t \in o.result.txns,
                                         [p \in Known(o) |-> t \in o.peers[p].set])
    OBVIOUS
  <1>6. /\ DOMAIN d.result.disputes = new \cup DOMAIN o.result.disputes
        /\ \A t \in DOMAIN o.result.disputes \ new : d.result.disputes[t] = o.result.disputes[t]
        /\ \A t \in new : d.result.disputes[t] = f[t]
    <2> HIDE DEF new, f, d
    <2>1. QED
      BY <1>3, <1>4, Zenon
  <1>7. d.result.disputes = [t \in DOMAIN d.result.disputes |-> d.result.disputes[t]]
    <2> HIDE DEF f, d
    <2>1. QED
      BY <1>3 DEF Over
  <1> HIDE DEF f, d
  <1>8. QED
    BY <1>1, <1>2, <1>5, <1>6, <1>7 DEF Created, d

(* A map of transactions to disputes.                                      *)
LEMMA DisputeMap ==
    ASSUME NEW f, f = [t \in DOMAIN f |-> f[t]], DOMAIN f \subseteq Txs,
           \A t \in DOMAIN f : f[t] \in DisputeType(Peers)
    PROVE  f \in DisputeMaps
  <1>1. f \in [DOMAIN f -> DisputeType(Peers)]
    OBVIOUS
  <1>2. QED
    BY <1>1, Zenon DEF DisputeMaps

(* What a map of disputes is, the converse of DisputeMap.                  *)
LEMMA MapOfDisputes ==
    ASSUME NEW f \in DisputeMaps
    PROVE  /\ f = [t \in DOMAIN f |-> f[t]] /\ DOMAIN f \subseteq Txs
           /\ \A t \in DOMAIN f : f[t] \in DisputeType(Peers)
  BY DEF DisputeMaps

(* What the peers were told stays true while our position does.            *)
LEMMA ToldStays ==
    ASSUME NEW o, NEW u, Told(o), SameRound(o, u)
    PROVE  Told(u)
  <1>1. u.mode = o.mode /\ u.prev = o.prev /\ u.prevID = o.prevID /\ u.sent = o.sent
    BY DEF SameRound, Keeps, Fields
  <1>2. QED
    BY <1>1, Zenon DEF Told, Proposing, SameRound, SamePosition

(* The disputes created are on what we and the owner of a set differ.      *)
LEMMA CreateInv ==
    ASSUME NEW o, NEW P, NEW sets \in SUBSET SUBSET Txs, DisputesInv(o, P), o.result /= None,
           NEW d, d = createDisputes(o, sets)
    PROVE  /\ DisputesInv(d, P) /\ SameRound(o, d) /\ d.result /= None
           /\ d.peers = o.peers /\ d.acquired = o.acquired
           /\ \A s \in sets : SymDiff(d.result.txns, s) \subseteq DOMAIN d.result.disputes
  <1>1. DOMAIN o = Fields /\ o.result \in Results
    BY DEF DisputesInv, Shape
  <1>2. Created(o, sets, d)
    BY <1>1, CreateFields, Zenon
  <1>3. /\ d.phase = o.phase /\ d.mode = o.mode /\ d.prevID = o.prevID /\ d.prev = o.prev
        /\ d.acquired = o.acquired /\ d.peers = o.peers /\ d.recent = o.recent
        /\ d.dead = o.dead /\ d.sent = o.sent /\ DOMAIN d = Fields
    BY <1>1, <1>2 DEF Keeps, Fields, Created
  <1>4. /\ d.result.prev = o.result.prev /\ d.result.txns = o.result.txns
        /\ d.result.seq = o.result.seq /\ d.result.ct = o.result.ct
    BY <1>1, <1>2 DEF Results, Created
  <1>5. Known(d) = Known(o) /\ Known(o) \subseteq DOMAIN o.peers /\ DOMAIN o.peers \subseteq Peers
    BY <1>3 DEF Known, DisputesInv, Positions
  <1>6. DOMAIN d.result.disputes \subseteq Txs
    <2>1. o.result.txns \subseteq Txs /\ DOMAIN o.result.disputes \subseteq Txs
      BY <1>1, MapOfDisputes DEF Results
    <2>2. QED
      BY <1>2, <2>1 DEF SymDiff, Differing, Created
  <1>7. \A t \in DOMAIN d.result.disputes : d.result.disputes[t] \in DisputeType(Peers)
    <2>1. ASSUME NEW t
          PROVE  NewDispute(t \in o.result.txns, [p \in Known(o) |-> t \in o.peers[p].set])
                    \in DisputeType(Peers)
      <3>1. [p \in Known(o) |-> t \in o.peers[p].set] \in [Known(o) -> BOOLEAN]
        OBVIOUS
      <3>2. "Init" \in Levels
        BY DEF Levels, Cutoffs
      <3>3. QED
        BY <1>5, <3>1, <3>2, RoundsAssumption DEF NewDispute, DisputeType
    <2>2. \A t \in DOMAIN o.result.disputes : o.result.disputes[t] \in DisputeType(Peers)
      BY <1>1, MapOfDisputes DEF Results
    <2>3. ASSUME NEW t \in DOMAIN d.result.disputes
          PROVE  d.result.disputes[t] \in DisputeType(Peers)
      <3>1. CASE t \in DOMAIN o.result.disputes
        BY <1>2, <2>2, <3>1, Zenon DEF Created
      <3>2. CASE t \notin DOMAIN o.result.disputes
        <4>1. d.result.disputes[t] = NewDispute(t \in o.result.txns,
                                        [p \in Known(o) |-> t \in o.peers[p].set])
          BY <1>2, <3>2, Zenon DEF Created
        <4>2. QED
          BY <2>1, <4>1, Zenon
      <3>3. QED
        BY <3>1, <3>2, Zenon
    <2>4. QED
      BY <2>3, Zenon
  <1>8. d.result \in Results
    <2>1. d.result.disputes \in DisputeMaps
      BY <1>2, <1>6, <1>7, DisputeMap, Zenon DEF Created
    <2>2. d.result.compares \in SUBSET SUBSET Txs
      BY <1>1, <1>2 DEF Created, Results
    <2>3. QED
      BY <1>1, <1>2, <2>1, <2>2 DEF Created, Results
  <1>9. Disputing(d, P)
    <2>1. ASSUME NEW t \in DOMAIN d.result.disputes
          PROVE  /\ DOMAIN d.result.disputes[t].votes \subseteq DOMAIN d.peers
                 /\ \A p \in Known(d) \ P : /\ p \in DOMAIN d.result.disputes[t].votes
                                            /\ d.result.disputes[t].votes[p] <=> t \in d.peers[p].set
                 /\ d.result.disputes[t].ours <=> t \in d.result.txns
      <3>1. CASE t \in DOMAIN o.result.disputes
        BY <1>2, <1>3, <1>4, <1>5, <3>1, Zenon DEF Created, DisputesInv, Disputing
      <3>2. CASE t \notin DOMAIN o.result.disputes
        <4>1. d.result.disputes[t] = NewDispute(t \in o.result.txns,
                                        [p \in Known(o) |-> t \in o.peers[p].set])
          BY <1>2, <3>2, Zenon DEF Created
        <4>2. /\ d.result.disputes[t].ours = (t \in o.result.txns)
              /\ d.result.disputes[t].votes = [p \in Known(o) |-> t \in o.peers[p].set]
          BY <4>1 DEF NewDispute
        <4>3. /\ DOMAIN d.result.disputes[t].votes = Known(o)
              /\ \A p \in Known(o) : d.result.disputes[t].votes[p] = (t \in o.peers[p].set)
          BY <4>2, Zenon
        <4>4. QED
          BY <1>3, <1>4, <1>5, <4>2, <4>3, Zenon
      <3>3. QED
        BY <3>1, <3>2
    <2>2. \A s \in d.result.compares : SymDiff(d.result.txns, s) \subseteq DOMAIN d.result.disputes
      <3>1. \A s \in o.result.compares :
               SymDiff(o.result.txns, s) \subseteq DOMAIN o.result.disputes
        BY DEF DisputesInv, Disputing
      <3>2. QED
        BY <1>2, <1>4, <3>1 DEF Created, Differing
    <2>3. \A p \in Known(d) \ P :
             SymDiff(d.result.txns, d.peers[p].set) \subseteq DOMAIN d.result.disputes
      <3>1. \A p \in Known(o) \ P :
               SymDiff(o.result.txns, o.peers[p].set) \subseteq DOMAIN o.result.disputes
        BY DEF DisputesInv, Disputing
      <3>2. DOMAIN o.result.disputes \subseteq DOMAIN d.result.disputes
        BY <1>2 DEF Created
      <3>3. QED
        BY <1>3, <1>4, <1>5, <3>1, <3>2
    <2>4. QED
      BY <2>1, <2>2, <2>3 DEF Disputing
  <1>10. d.result /= None
    BY <1>8, NoneAssumption
  <1>11. SameRound(o, d)
    BY <1>2, <1>4, <1>10 DEF SameRound, SamePosition, Created, Keeps
  <1>12. \A s \in sets : SymDiff(d.result.txns, s) \subseteq DOMAIN d.result.disputes
    BY <1>2, <1>9 DEF Disputing, Created
  <1>13. Shape(d) /\ Positions(d)
    BY <1>3, <1>8 DEF DisputesInv, Shape, Positions
  <1>14. QED
    BY <1>3, <1>4, <1>9, <1>10, <1>11, <1>12, <1>13 DEF DisputesInv

(* A vote is set for the peers in P and stays for the others.              *)
VoteSet(d, P, yes, u) ==
    /\ u \in DisputeType(Peers) /\ u.ours = d.ours
    /\ DOMAIN u.votes = DOMAIN d.votes \cup P
    /\ \A p \in P : u.votes[p] = yes
    /\ \A p \in DOMAIN d.votes \ P : u.votes[p] = d.votes[p]

(* setVote records the vote of the peers in P and keeps the others         *)
(* (DisputedTx::setVote).                                                  *)
LEMMA SetVote ==
    ASSUME NEW d, NEW P, NEW yes, d \in DisputeType(Peers), P \subseteq Peers, yes \in BOOLEAN
    PROVE  VoteSet(d, P, yes, setVote(d, P, yes))
  <1>1. PICK u : u = setVote(d, P, yes)
    OBVIOUS
  <1> DEFINE g == [p \in P |-> yes]
  <1>2. PICK Q \in SUBSET Peers : d.votes \in [Q -> BOOLEAN]
    BY DEF DisputeType
  <1>3. /\ Over(g, d.votes) \in [Q \cup P -> BOOLEAN]
        /\ \A p \in P : Over(g, d.votes)[p] = yes
        /\ \A p \in Q \ P : Over(g, d.votes)[p] = d.votes[p]
    BY <1>2 DEF Over
  <1>4. Q \cup P \in SUBSET Peers /\ DOMAIN d.votes = Q /\ DOMAIN Over(g, d.votes) = Q \cup P
    BY <1>2, <1>3
  <1>5. u.votes = Over(g, d.votes) /\ u.ours = d.ours
    BY <1>1 DEF setVote, DisputeType
  <1>6. Over(g, d.votes) \in UNION {[R -> BOOLEAN] : R \in SUBSET Peers}
    BY <1>3, <1>4, Zenon
  <1> HIDE DEF g
  <1>7. u = [d EXCEPT !.votes = Over(g, d.votes)]
    BY <1>1 DEF setVote, g
  <1>8. u \in DisputeType(Peers)
    BY <1>6, <1>7 DEF DisputeType
  <1>9. QED
    BY <1>1, <1>3, <1>4, <1>5, <1>8 DEF VoteSet

(* The votes of peers that all propose s follow s.                         *)
LEMMA UpdateInv ==
    ASSUME NEW o, NEW s \in SUBSET Txs, NEW P, DisputesInv(o, P), o.result /= None,
           P \subseteq {p \in DOMAIN o.peers : o.peers[p].set = s},
           NEW u, u = updateDisputes(o, P, s)
    PROVE  /\ DisputesInv(u, {}) /\ SameRound(o, u)
           /\ u.peers = o.peers /\ u.acquired = o.acquired
  <1>1. PICK d : d = createDisputes(o, {s})
    OBVIOUS
  <1> DEFINE old == d.result.disputes
             new == [t \in DOMAIN old |-> setVote(old[t], P, t \in s)]
  <1>2. /\ DisputesInv(d, P) /\ SameRound(o, d) /\ d.result /= None
        /\ d.peers = o.peers /\ d.acquired = o.acquired
        /\ SymDiff(d.result.txns, s) \subseteq DOMAIN old
    <2>1. PICK sets : sets = {s}
      OBVIOUS
    <2>2. sets \in SUBSET SUBSET Txs /\ s \in sets
      BY <2>1
    <2>3. d = createDisputes(o, sets)
      BY <1>1, <2>1, Zenon
    <2>4. QED
      BY <2>2, <2>3, CreateInv
  <1>3. DOMAIN d = Fields /\ d.result \in Results /\ old \in DisputeMaps
    BY <1>2 DEF DisputesInv, Shape, Results
  <1>4. u.result = [d.result EXCEPT !.disputes = new] /\ Keeps(d, u, {"result", "unchanged"})
    <2>1. u.result = [d.result EXCEPT !.disputes = new]
      BY <1>1, <1>3 DEF updateDisputes, Fields, Results
    <2>2. Keeps(d, u, {"result", "unchanged"})
      BY <1>1, <1>3 DEF updateDisputes, Fields, Keeps
    <2>3. QED
      BY <2>1, <2>2
  <1>5. P \subseteq Peers /\ \A p \in P : p \in DOMAIN d.peers /\ d.peers[p].set = s
    BY <1>2 DEF DisputesInv, Positions
  <1>6. \A t \in DOMAIN old : VoteSet(old[t], P, t \in s, new[t])
    <2>1. \A t \in DOMAIN old : old[t] \in DisputeType(Peers)
      BY <1>3, MapOfDisputes, Zenon
    <2>2. \A t \in DOMAIN old : new[t] = setVote(old[t], P, t \in s)
      OBVIOUS
    <2>3. \A t : (t \in s) \in BOOLEAN
      OBVIOUS
    <2> HIDE DEF old, new
    <2>4. ASSUME NEW t \in DOMAIN old PROVE VoteSet(old[t], P, t \in s, new[t])
      <3>1. VoteSet(old[t], P, t \in s, setVote(old[t], P, t \in s))
        BY <1>5, <2>1, <2>3, SetVote
      <3>2. QED
        BY <2>2, <3>1, Zenon
    <2>5. QED
      BY <2>4, Zenon
  <1>7. /\ u.phase = d.phase /\ u.mode = d.mode /\ u.prevID = d.prevID /\ u.prev = d.prev
        /\ u.acquired = d.acquired /\ u.peers = d.peers /\ u.recent = d.recent
        /\ u.dead = d.dead /\ u.sent = d.sent /\ DOMAIN u = Fields
    BY <1>3, <1>4 DEF Keeps, Fields
  <1>8. /\ u.result.prev = d.result.prev /\ u.result.txns = d.result.txns
        /\ u.result.seq = d.result.seq /\ u.result.ct = d.result.ct
        /\ u.result.compares = d.result.compares /\ u.result.disputes = new
    BY <1>3, <1>4 DEF Results
  <1>9. new \in DisputeMaps
    <2>1. DOMAIN old \subseteq Txs
      BY <1>3, MapOfDisputes, Zenon
    <2>2. DOMAIN new = DOMAIN old /\ new = [t \in DOMAIN new |-> new[t]]
      OBVIOUS
    <2> HIDE DEF new, old
    <2>3. QED
      BY <1>6, <2>1, <2>2, DisputeMap, Zenon DEF VoteSet
  <1>10. u.result \in Results /\ u.result /= None
    BY <1>3, <1>4, <1>9, NoneAssumption DEF Results
  <1>11. DOMAIN new = DOMAIN old
    OBVIOUS
  <1> HIDE DEF new
  <1>12. Known(u) = Known(d)
    BY <1>7 DEF Known
  <1>13. Disputing(u, {})
    <2>1. ASSUME NEW t \in DOMAIN old
          PROVE  /\ DOMAIN new[t].votes \subseteq DOMAIN d.peers
                 /\ \A p \in Known(d) : p \in DOMAIN new[t].votes
                                        /\ (new[t].votes[p] <=> t \in d.peers[p].set)
                 /\ new[t].ours <=> t \in d.result.txns
      <3>1. /\ DOMAIN old[t].votes \subseteq DOMAIN d.peers
            /\ \A p \in Known(d) \ P : p \in DOMAIN old[t].votes
                                       /\ (old[t].votes[p] <=> t \in d.peers[p].set)
            /\ old[t].ours <=> t \in d.result.txns
        BY <1>2, Zenon DEF DisputesInv, Disputing
      <3> HIDE DEF old
      <3>2. /\ new[t].ours = old[t].ours /\ DOMAIN new[t].votes = DOMAIN old[t].votes \cup P
            /\ \A p \in P : new[t].votes[p] = (t \in s)
            /\ \A p \in DOMAIN old[t].votes \ P : new[t].votes[p] = old[t].votes[p]
        BY <1>6, Zenon DEF VoteSet
      <3>3. ASSUME NEW p \in Known(d)
            PROVE  p \in DOMAIN new[t].votes /\ (new[t].votes[p] <=> t \in d.peers[p].set)
        <4>1. CASE p \in P
          <5>1. new[t].votes[p] = (t \in s) /\ d.peers[p].set = s
            BY <1>5, <3>2, <4>1, Zenon
          <5>2. QED
            BY <3>2, <4>1, <5>1, Zenon
        <4>2. CASE p \notin P
          BY <3>1, <3>2, <4>2, Zenon
        <4>3. QED
          BY <4>1, <4>2
      <3>4. DOMAIN new[t].votes \subseteq DOMAIN d.peers
        BY <1>5, <3>1, <3>2, Zenon
      <3>5. QED
        BY <3>1, <3>2, <3>3, <3>4, Zenon
    <2>2. \A q \in d.result.compares : SymDiff(d.result.txns, q) \subseteq DOMAIN old
      BY <1>2 DEF DisputesInv, Disputing
    <2>3. \A p \in Known(d) : SymDiff(d.result.txns, d.peers[p].set) \subseteq DOMAIN old
      <3>1. \A p \in Known(d) \ P : SymDiff(d.result.txns, d.peers[p].set) \subseteq DOMAIN old
        BY <1>2 DEF DisputesInv, Disputing
      <3>2. \A p \in P : SymDiff(d.result.txns, d.peers[p].set) \subseteq DOMAIN old
        BY <1>2, <1>5, Zenon
      <3>3. QED
        BY <3>1, <3>2, Zenon
    <2> HIDE DEF old
    <2>4. QED
      BY <1>7, <1>8, <1>11, <1>12, <2>1, <2>2, <2>3, Zenon DEF Disputing
  <1>14. SameRound(o, u)
    <2>1. Keeps(o, u, {"result", "peers", "dead", "acquired", "unchanged"})
      BY <1>2, <1>4 DEF SameRound, Keeps
    <2>2. SamePosition(o, u)
      BY <1>2, <1>8, <1>10 DEF SameRound, SamePosition
    <2>3. QED
      BY <2>1, <2>2 DEF SameRound
  <1>15. Shape(u) /\ Positions(u)
    BY <1>2, <1>7, <1>10 DEF DisputesInv, Shape, Positions
  <1>16. QED
    BY <1>2, <1>7, <1>8, <1>10, <1>13, <1>14, <1>15 DEF DisputesInv

(* A call that does nothing leaves the round as it is.                     *)
LEMMA SameRoundSelf == ASSUME NEW o PROVE SameRound(o, o)
  BY DEF SameRound, SamePosition, Keeps

(* So do two calls that each leave it as it is.                            *)
LEMMA SameRoundTwice ==
    ASSUME NEW o, NEW u, NEW v, SameRound(o, u), SameRound(u, v)
    PROVE  SameRound(o, v)
  BY DEF SameRound, SamePosition, Keeps

(* Without a position of ours there are no votes to be right.              *)
LEMMA NoVotes ==
    ASSUME NEW o, NEW P, DisputesInv(o, P), o.result = None \/ P = {}
    PROVE  DisputesInv(o, {})
  BY Zenon DEF DisputesInv

(* Once the votes of those that propose s are brought up to date, all are. *)
LEMMA VotesInv ==
    ASSUME NEW o, NEW s \in SUBSET Txs, NEW P, P = {p \in DOMAIN o.peers : o.peers[p].set = s},
           DisputesInv(o, P), NEW u, u = VotesOf(o, s)
    PROVE  DisputesInv(u, {}) /\ SameRound(o, u) /\ u.acquired = o.acquired
  <1>1. u = IF o.result = None \/ P = {} THEN o ELSE updateDisputes(o, P, s)
    BY DEF VotesOf
  <1>2. P \subseteq {p \in DOMAIN o.peers : o.peers[p].set = s}
    BY Zenon
  <1>3. CASE o.result = None \/ P = {}
    BY <1>1, <1>3, NoVotes, SameRoundSelf, Zenon
  <1>4. CASE ~(o.result = None \/ P = {})
    <2>1. u = updateDisputes(o, P, s) /\ o.result /= None
      BY <1>1, <1>4, Zenon
    <2>2. QED
      BY <1>2, <2>1, UpdateInv
  <1>5. QED
    BY <1>3, <1>4

(* A set that was acquired, or that is ours: its owners are known now.     *)
LEMMA AcquiredInv ==
    ASSUME NEW o, NEW s, ObjectInv(o, {}), NEW u, Keeps(o, u, {"acquired", "inbound"}),
           u.acquired = o.acquired \cup {s},
           NEW P, P = {p \in DOMAIN u.peers : u.peers[p].set = s}
    PROVE  ObjectInv(u, P)
  <1>1. DOMAIN o = Fields
    BY DEF ObjectInv, DisputesInv, Shape
  <1>2. /\ u.phase = o.phase /\ u.mode = o.mode /\ u.prevID = o.prevID /\ u.prev = o.prev
        /\ u.peers = o.peers /\ u.recent = o.recent /\ u.result = o.result
        /\ u.dead = o.dead /\ u.sent = o.sent /\ DOMAIN u = Fields
    BY <1>1 DEF Keeps, Fields
  <1>3. Known(u) \ P \subseteq Known(o)
    BY <1>2 DEF Known
  <1>4. o.result /= None => Disputing(u, P)
    BY <1>2, <1>3, Zenon DEF ObjectInv, DisputesInv, Disputing
  <1>5. Shape(u) /\ Positions(u) /\ Told(u)
    BY <1>2, Zenon DEF ObjectInv, DisputesInv, Shape, Positions, Told, Proposing
  <1>6. o.result /= None => o.result.txns \in u.acquired
    BY DEF ObjectInv, DisputesInv
  <1>7. QED
    BY <1>2, <1>4, <1>5, <1>6, Zenon DEF ObjectInv, DisputesInv

(* gotTxSet keeps the invariant, and does nothing while a ledger is built. *)
LEMMA GotTxSetInv ==
    ASSUME NEW o, NEW s \in SUBSET Txs, ObjectInv(o, {}), NEW u, u = gotTxSet(o, s)
    PROVE  ObjectInv(u, {}) /\ SameRound(o, u) /\ (o.phase = "Accepted" => u = o)
  <1>1. CASE o.phase = "Accepted" \/ s \in o.acquired
    <2>1. u = o
      BY <1>1 DEF gotTxSet
    <2>2. QED
      BY <2>1, SameRoundSelf, Zenon
  <1>2. CASE ~(o.phase = "Accepted" \/ s \in o.acquired)
    <2>1. PICK v : v = [o EXCEPT !.acquired = @ \cup {s}]
      OBVIOUS
    <2>2. u = VotesOf(v, s)
      BY <1>2, <2>1 DEF gotTxSet
    <2>3. DOMAIN o = Fields
      BY DEF ObjectInv, DisputesInv, Shape
    <2>4. Keeps(o, v, {"acquired", "inbound"}) /\ v.acquired = o.acquired \cup {s}
      BY <2>1, <2>3 DEF Keeps, Fields
    <2>5. PICK P : P = {p \in DOMAIN v.peers : v.peers[p].set = s}
      OBVIOUS
    <2>6. ObjectInv(v, P)
      BY <2>4, <2>5, AcquiredInv
    <2>7. ObjectInv(u, {}) /\ SameRound(v, u)
      <3>1. DisputesInv(v, P) /\ Told(v)
        BY <2>6 DEF ObjectInv
      <3>2. DisputesInv(u, {}) /\ SameRound(v, u)
        BY <2>2, <2>5, <3>1, VotesInv
      <3>3. QED
        BY <3>1, <3>2, ToldStays DEF ObjectInv
    <2>8. SameRound(o, v)
      BY <2>1, <2>3 DEF SameRound, SamePosition, Keeps, Fields
    <2>9. QED
      BY <1>2, <2>7, <2>8, SameRoundTwice
  <1>3. QED
    BY <1>1, <1>2

(* The votes of the peers in P are taken back.                             *)
Unvoted(d, P, u) ==
    /\ u \in DisputeType(Peers) /\ u.ours = d.ours
    /\ DOMAIN u.votes = DOMAIN d.votes \ P
    /\ \A p \in DOMAIN d.votes \ P : u.votes[p] = d.votes[p]

(* unVote takes back the votes of the peers in P (DisputedTx::unVote).     *)
LEMMA UnVote ==
    ASSUME NEW d, NEW P, d \in DisputeType(Peers)
    PROVE  Unvoted(d, P, unVote(d, P))
  <1>1. PICK u : u = unVote(d, P)
    OBVIOUS
  <1>2. PICK Q \in SUBSET Peers : d.votes \in [Q -> BOOLEAN]
    BY DEF DisputeType
  <1>3. PICK v : v = [p \in DOMAIN d.votes \ P |-> d.votes[p]]
    OBVIOUS
  <1>4. v \in [Q \ P -> BOOLEAN] /\ DOMAIN v = DOMAIN d.votes \ P
        /\ \A p \in DOMAIN d.votes \ P : v[p] = d.votes[p]
    BY <1>2, <1>3
  <1>5. v \in UNION {[R -> BOOLEAN] : R \in SUBSET Peers}
    BY <1>2, <1>4, Q \ P \in SUBSET Peers, Zenon
  <1>6. u = [d EXCEPT !.votes = v]
    BY <1>1, <1>3 DEF unVote
  <1>7. u \in DisputeType(Peers) /\ u.ours = d.ours /\ u.votes = v
    BY <1>5, <1>6 DEF DisputeType
  <1>8. QED
    BY <1>1, <1>4, <1>7, Zenon DEF Unvoted

(* The positions of the peers in P are dropped with their votes.           *)
LEMMA DropInv ==
    ASSUME NEW o, NEW P, ObjectInv(o, {}), NEW u,
           Keeps(o, u, {"result", "peers", "dead"}),
           u.peers = Without(o.peers, P), DOMAIN u.peers \cap u.dead = {},
           o.result = None => u.result = None,
           o.result /= None =>
              u.result = [o.result EXCEPT !.disputes = [t \in DOMAIN @ |-> unVote(@[t], P)]]
    PROVE  ObjectInv(u, {}) /\ SameRound(o, u)
  <1>1. DOMAIN o = Fields
    BY DEF ObjectInv, DisputesInv, Shape
  <1>2. /\ u.phase = o.phase /\ u.mode = o.mode /\ u.prevID = o.prevID /\ u.prev = o.prev
        /\ u.acquired = o.acquired /\ u.recent = o.recent
        /\ u.sent = o.sent /\ DOMAIN u = Fields
    BY <1>1 DEF Keeps, Fields
  <1>3. DOMAIN u.peers = DOMAIN o.peers \ P /\ \A p \in DOMAIN u.peers : u.peers[p] = o.peers[p]
    BY DEF Without
  <1>4. Positions(u)
    BY <1>2, <1>3 DEF ObjectInv, DisputesInv, Positions
  <1>5. CASE o.result = None
    <2>1. Shape(u) /\ Told(u)
      BY <1>2, <1>5, Zenon DEF ObjectInv, DisputesInv, Shape, Told, Proposing
    <2>2. SameRound(o, u)
      BY <1>5 DEF SameRound, SamePosition, Keeps
    <2>3. QED
      BY <1>2, <1>4, <1>5, <2>1, <2>2, Zenon DEF ObjectInv, DisputesInv
  <1>6. CASE o.result /= None
    <2>1. PICK old, new : /\ old = o.result.disputes
                          /\ new = [t \in DOMAIN old |-> unVote(old[t], P)]
      OBVIOUS
    <2>2. u.result = [o.result EXCEPT !.disputes = new] /\ o.result \in Results
      BY <1>6, <2>1 DEF ObjectInv, DisputesInv, Shape
    <2>3. old \in DisputeMaps
      BY <2>1, <2>2 DEF Results
    <2>4. /\ u.result.prev = o.result.prev /\ u.result.txns = o.result.txns
          /\ u.result.seq = o.result.seq /\ u.result.ct = o.result.ct
          /\ u.result.compares = o.result.compares /\ u.result.disputes = new
      BY <2>2 DEF Results
    <2>5. DOMAIN new = DOMAIN old /\ new = [t \in DOMAIN new |-> new[t]]
          /\ \A t \in DOMAIN old : new[t] = unVote(old[t], P)
      BY <2>1
    <2>6. DOMAIN old \subseteq Txs /\ \A t \in DOMAIN old : old[t] \in DisputeType(Peers)
      BY <2>3, MapOfDisputes, Zenon
    <2>7. \A t \in DOMAIN old : Unvoted(old[t], P, new[t])
      <3>1. ASSUME NEW t \in DOMAIN old PROVE Unvoted(old[t], P, new[t])
        <4>1. Unvoted(old[t], P, unVote(old[t], P))
          BY <2>6, UnVote
        <4>2. QED
          BY <2>5, <4>1, Zenon
      <3>2. QED
        BY <3>1, Zenon
    <2>8. new \in DisputeMaps
      BY <2>5, <2>6, <2>7, DisputeMap, Zenon DEF Unvoted
    <2>9. u.result \in Results /\ u.result /= None
      BY <2>2, <2>8, NoneAssumption DEF Results
    <2>10. Known(u) = Known(o) \ P
      BY <1>2, <1>3 DEF Known
    <2>11. Disputing(u, {})
      <3>1. ASSUME NEW t \in DOMAIN old
            PROVE  /\ DOMAIN new[t].votes \subseteq DOMAIN u.peers
                   /\ \A p \in Known(u) : p \in DOMAIN new[t].votes
                                          /\ (new[t].votes[p] <=> t \in u.peers[p].set)
                   /\ new[t].ours <=> t \in o.result.txns
        <4>1. /\ DOMAIN old[t].votes \subseteq DOMAIN o.peers
              /\ \A p \in Known(o) : p \in DOMAIN old[t].votes
                                     /\ (old[t].votes[p] <=> t \in o.peers[p].set)
              /\ old[t].ours <=> t \in o.result.txns
          BY <1>6, <2>1, Zenon DEF ObjectInv, DisputesInv, Disputing
        <4>2. /\ new[t].ours = old[t].ours /\ DOMAIN new[t].votes = DOMAIN old[t].votes \ P
              /\ \A p \in DOMAIN old[t].votes \ P : new[t].votes[p] = old[t].votes[p]
          BY <2>7, Zenon DEF Unvoted
        <4>3. Known(u) \subseteq DOMAIN u.peers
          BY DEF Known
        <4>4. \A p \in Known(u) : u.peers[p].set = o.peers[p].set /\ p \in Known(o) \ P
          BY <1>3, <2>10, <4>3, Zenon
        <4>5. QED
          BY <1>3, <4>1, <4>2, <4>4, Zenon
      <3>2. \A s \in o.result.compares : SymDiff(o.result.txns, s) \subseteq DOMAIN new
        BY <1>6, <2>1, <2>5, Zenon DEF ObjectInv, DisputesInv, Disputing
      <3>3. \A p \in Known(u) : SymDiff(o.result.txns, u.peers[p].set) \subseteq DOMAIN new
        <4>1. \A p \in Known(o) : SymDiff(o.result.txns, o.peers[p].set) \subseteq DOMAIN old
          BY <1>6, <2>1, Zenon DEF ObjectInv, DisputesInv, Disputing
        <4>2. Known(u) \subseteq DOMAIN u.peers
          BY DEF Known
        <4>3. QED
          BY <1>3, <2>5, <2>10, <4>1, <4>2, Zenon
      <3>4. QED
        BY <2>4, <2>5, <3>1, <3>2, <3>3, Zenon DEF Disputing
    <2>12. SameRound(o, u)
      BY <1>6, <2>4, <2>9 DEF SameRound, SamePosition, Keeps
    <2>13. Shape(u)
      BY <1>2, <2>9, Zenon DEF ObjectInv, DisputesInv, Shape
    <2>14. Told(u)
      BY <1>2, <1>6, <2>4, <2>9, Zenon DEF ObjectInv, DisputesInv, Told, Proposing
    <2>15. QED
      BY <1>2, <1>4, <1>6, <2>4, <2>9, <2>11, <2>12, <2>13, <2>14, Zenon DEF ObjectInv, DisputesInv
  <1>7. QED
    BY <1>5, <1>6

(* A peer that bows out takes its position and its votes with it           *)
(* (peerProposalInternal).                                                 *)
LEMMA BowsOutInv ==
    ASSUME NEW o, NEW p, ObjectInv(o, {}), NEW u, u = bowsOut(o, p)
    PROVE  ObjectInv(u, {}) /\ SameRound(o, u)
  <1>1. DOMAIN o = Fields /\ DOMAIN o.peers \cap o.dead = {}
    BY DEF ObjectInv, DisputesInv, Shape, Positions
  <1>2. o.result /= None => o.result \in Results
    BY DEF ObjectInv, DisputesInv, Shape
  <1>3. PICK v : v = IF o.result = None THEN o ELSE unVoteAll(o, {p})
    OBVIOUS
  <1>4. u = [v EXCEPT !.peers = Without(@, {p}), !.dead = @ \cup {p}]
    BY <1>3 DEF bowsOut
  <1>5. /\ Keeps(o, v, {"result"}) /\ (o.result = None => v.result = None)
        /\ o.result /= None =>
              v.result = [o.result EXCEPT !.disputes = [t \in DOMAIN @ |-> unVote(@[t], {p})]]
    BY <1>1, <1>2, <1>3 DEF unVoteAll, Keeps, Fields, Results
  <1>6. /\ Keeps(v, u, {"peers", "dead"}) /\ u.peers = Without(v.peers, {p})
        /\ u.dead = v.dead \cup {p} /\ u.result = v.result
    BY <1>1, <1>4, <1>5 DEF Keeps, Fields
  <1>7. v.peers = o.peers /\ v.dead = o.dead
    BY <1>5 DEF Keeps, Fields
  <1>8. Keeps(o, u, {"result", "peers", "dead"})
    BY <1>5, <1>6 DEF Keeps
  <1>9. u.peers = Without(o.peers, {p}) /\ DOMAIN u.peers \cap u.dead = {}
    BY <1>1, <1>6, <1>7 DEF Without
  <1>10. QED
    BY <1>5, <1>6, <1>8, <1>9, DropInv

(* A proposal is taken in.                                                 *)
TakenIn(o, q) == [o EXCEPT !.peers = Over([p \in {q.node} |-> q], @)]

(* A proposal that is not ignored becomes the position of its peer, whose  *)
(* votes are still to be counted (peerProposalInternal).                   *)
LEMMA PositionInv ==
    ASSUME NEW o, NEW q \in Seen, ObjectInv(o, {}), ~Ignored(o, q),
           NEW u, u = TakenIn(o, q)
    PROVE  ObjectInv(u, {q.node}) /\ SameRound(o, u) /\ u.acquired = o.acquired
           /\ q.node \in DOMAIN u.peers /\ u.peers[q.node] = q /\ u.inbound = o.inbound
           /\ u.phase = o.phase /\ u.result = o.result
  <1>1. DOMAIN o = Fields
    BY DEF ObjectInv, DisputesInv, Shape
  <1>2. /\ u.phase = o.phase /\ u.mode = o.mode /\ u.prevID = o.prevID /\ u.prev = o.prev
        /\ u.acquired = o.acquired /\ u.recent = o.recent /\ u.result = o.result
        /\ u.inbound = o.inbound
        /\ u.dead = o.dead /\ u.sent = o.sent /\ DOMAIN u = Fields
        /\ u.peers = Over([p \in {q.node} |-> q], o.peers)
    BY <1>1 DEF Fields, TakenIn
  <1>3. /\ DOMAIN u.peers = DOMAIN o.peers \cup {q.node} /\ u.peers[q.node] = q
        /\ \A p \in DOMAIN o.peers \ {q.node} : u.peers[p] = o.peers[p]
    BY <1>2 DEF Over
  <1>4. q.node \in Peers \ o.dead /\ q.prev = o.prevID
    BY OffersAssumption DEF Seen, Ignored
  <1>5. Positions(u)
    BY <1>2, <1>3, <1>4 DEF ObjectInv, DisputesInv, Positions
  <1>6. Known(u) \ {q.node} \subseteq Known(o) /\ Known(o) \subseteq DOMAIN o.peers
    BY <1>2, <1>3 DEF Known
  <1>7. ASSUME o.result /= None PROVE Disputing(u, {q.node})
    <2>1. Disputing(o, {})
      BY <1>7 DEF ObjectInv, DisputesInv
    <2>2. \A p \in Known(u) \ {q.node} : p \in Known(o) \ {} /\ u.peers[p] = o.peers[p]
      BY <1>3, <1>6
    <2>3. QED
      BY <1>2, <1>3, <2>1, <2>2, Zenon DEF Disputing
  <1>8. Shape(u) /\ Told(u)
    BY <1>2, Zenon DEF ObjectInv, DisputesInv, Shape, Told, Proposing
  <1>9. ObjectInv(u, {q.node})
    BY <1>2, <1>5, <1>7, <1>8, Zenon DEF ObjectInv, DisputesInv
  <1>10. SameRound(o, u)
    BY <1>1 DEF SameRound, SamePosition, Keeps, Fields, TakenIn
  <1>11. QED
    BY <1>2, <1>3, <1>9, <1>10

(* peerProposalInternal() keeps positions, votes and disputes in step, and *)
(* does nothing while a ledger is built.                                   *)
LEMMA ProposalInv ==
    ASSUME NEW o, NEW q \in Seen, ObjectInv(o, {}), NEW u, u = peerProposalInternal(o, q)
    PROVE  ObjectInv(u, {}) /\ SameRound(o, u) /\ (o.phase = "Accepted" => u = o)
  <1>1. CASE Ignored(o, q)
    <2>1. u = o
      BY <1>1 DEF peerProposalInternal
    <2>2. QED
      BY <2>1, SameRoundSelf, Zenon
  <1>2. CASE ~Ignored(o, q) /\ q.seq = Leave
    <2>1. u = bowsOut(o, q.node)
      BY <1>2 DEF peerProposalInternal
    <2>2. o.phase /= "Accepted"
      BY <1>2 DEF Ignored
    <2>3. QED
      BY <2>1, <2>2, BowsOutInv
  <1>3. CASE ~Ignored(o, q) /\ q.seq /= Leave
    <2>1. PICK v : v = TakenIn(o, q)
      OBVIOUS
    <2>2. u = IF q.set \notin v.acquired
              THEN IF q.set \in v.inbound THEN gotTxSet(v, q.set) ELSE v
              ELSE IF v.result = None THEN v ELSE updateDisputes(v, {q.node}, q.set)
      BY <1>3, <2>1 DEF peerProposalInternal, TakenIn
    <2>3. /\ ObjectInv(v, {q.node}) /\ SameRound(o, v) /\ v.acquired = o.acquired
          /\ q.node \in DOMAIN v.peers /\ v.peers[q.node] = q
      BY <1>3, <2>1, PositionInv
    <2>4. q.set \in SUBSET Txs
      BY OffersAssumption DEF Seen
    <2>5. o.phase /= "Accepted"
      BY <1>3 DEF Ignored
    <2>6. CASE q.set \notin v.acquired
      <3>1. ObjectInv(v, {})
        <4>1. Known(v) \ {} = Known(v) \ {q.node}
          BY <2>3, <2>6 DEF Known
        <4>2. QED
          BY <2>3, <4>1, Zenon DEF ObjectInv, DisputesInv, Disputing
      <3>2. CASE q.set \in v.inbound
        <4>1. u = gotTxSet(v, q.set)
          BY <2>2, <2>6, <3>2, Zenon
        <4>2. ObjectInv(u, {}) /\ SameRound(v, u)
          BY <2>4, <3>1, <4>1, GotTxSetInv
        <4>3. QED
          BY <2>3, <2>5, <4>2, SameRoundTwice
      <3>3. CASE q.set \notin v.inbound
        <4>1. u = v
          BY <2>2, <2>6, <3>3, Zenon
        <4>2. QED
          BY <2>3, <2>5, <3>1, <4>1, Zenon
      <3>4. QED
        BY <3>2, <3>3
    <2>7. CASE q.set \in v.acquired
      <3>1. CASE v.result = None
        <4>1. u = v
          BY <2>2, <2>7, <3>1, Zenon
        <4>2. ObjectInv(u, {})
          BY <2>3, <3>1, <4>1, NoVotes, Zenon DEF ObjectInv
        <4>3. QED
          BY <2>3, <2>5, <4>1, <4>2, Zenon
      <3>2. CASE v.result /= None
        <4>1. u = updateDisputes(v, {q.node}, q.set)
          BY <2>2, <2>7, <3>2, Zenon
        <4>2. {q.node} \subseteq {p \in DOMAIN v.peers : v.peers[p].set = q.set}
          BY <2>3
        <4>3. ObjectInv(u, {}) /\ SameRound(v, u)
          <5>1. DisputesInv(v, {q.node}) /\ Told(v)
            BY <2>3 DEF ObjectInv
          <5>2. DisputesInv(u, {}) /\ SameRound(v, u)
            BY <2>3, <2>4, <3>2, <4>1, <4>2, <5>1, UpdateInv
          <5>3. QED
            BY <5>1, <5>2, ToldStays DEF ObjectInv
        <4>4. QED
          BY <2>3, <2>5, <4>3, SameRoundTwice
      <3>3. QED
        BY <3>1, <3>2
    <2>8. QED
      BY <2>6, <2>7
  <1>4. QED
    BY <1>1, <1>2, <1>3

(* The proposals of one peer are played back one after the other: what is  *)
(* computed recursively exists, and each object on the way is right.       *)
Replay(o, props, n, f) ==
    f = [i \in 0 .. n |-> IF i = 0 THEN o ELSE peerProposalInternal(f[i - 1], props[i])]

(* The recursion of playback is well founded.                              *)
LEMMA ReplayExists ==
    ASSUME NEW o, NEW props, NEW n \in Nat
    PROVE  \E f : Replay(o, props, n, f)
  <1> DEFINE S == {k \in Nat : \E f : Replay(o, props, k, f)}
  <1>1. 0 \in S
    <2> DEFINE f == [i \in 0 .. 0 |-> o]
    <2>1. f = [i \in 0 .. 0 |->
                  IF i = 0 THEN o ELSE peerProposalInternal(f[i - 1], props[i])]
      BY SMT
    <2>2. QED
      BY <2>1, Zenon DEF Replay
  <1>2. ASSUME NEW k \in Nat, k \in S PROVE k + 1 \in S
    <2>1. PICK g : Replay(o, props, k, g)
      BY <1>2, Zenon
    <2> DEFINE f == [i \in 0 .. k + 1 |->
                        IF i = k + 1 THEN peerProposalInternal(g[k], props[i]) ELSE g[i]]
    <2>2. ASSUME NEW i \in 0 .. k + 1
          PROVE  f[i] = IF i = 0 THEN o ELSE peerProposalInternal(f[i - 1], props[i])
      <3>1. CASE i = k + 1
        BY <3>1, SMT
      <3>2. CASE i # k + 1
        <4>1. i \in 0 .. k
          BY <3>2, SMT
        <4>2. f[i] = g[i] /\ (i # 0 => f[i - 1] = g[i - 1])
          BY <4>1, SMT
        <4>3. g[i] = IF i = 0 THEN o ELSE peerProposalInternal(g[i - 1], props[i])
          BY <2>1, <4>1, Zenon DEF Replay
        <4>4. QED
          BY <4>2, <4>3, Zenon
      <3>3. QED
        BY <3>1, <3>2
    <2>3. f = [i \in 0 .. k + 1 |->
                  IF i = 0 THEN o ELSE peerProposalInternal(f[i - 1], props[i])]
      BY <2>2, Zenon
    <2>4. Replay(o, props, k + 1, f) /\ k + 1 \in Nat
      BY <2>3, SMT DEF Replay
    <2>5. QED
      BY <2>4, Zenon
  <1> HIDE DEF S
  <1>3. n \in S
    BY <1>1, <1>2, Induction, Zenon
  <1>4. QED
    BY <1>3, Zenon DEF S

(* Taking in the recent proposals of one peer keeps the invariant          *)
(* (playbackProposals).                                                    *)
LEMMA PlaybackInv ==
    ASSUME NEW o, NEW props \in Seq(Seen), ObjectInv(o, {}), NEW u, u = playback(o, props)
    PROVE  ObjectInv(u, {}) /\ SameRound(o, u)
  <1>1. PICK n \in Nat : n = Len(props)
    OBVIOUS
  <1>2. PICK f : Replay(o, props, n, f) /\ u = f[n]
    <2>1. u = (CHOOSE f : Replay(o, props, n, f))[n]
      BY <1>1, Zenon DEF playback, Replay
    <2>2. PICK f : f = CHOOSE g : Replay(o, props, n, g)
      OBVIOUS
    <2>3. Replay(o, props, n, f)
      BY <2>2, ReplayExists, Zenon
    <2>4. QED
      BY <2>1, <2>2, <2>3, Zenon
  <1> DEFINE S == {k \in Nat : k <= n => ObjectInv(f[k], {}) /\ SameRound(o, f[k])}
  <1>3. 0 \in S
    <2>1. f[0] = o
      BY <1>2 DEF Replay
    <2>2. QED
      BY <2>1, SameRoundSelf, Zenon
  <1>4. ASSUME NEW k \in Nat, k \in S PROVE k + 1 \in S
    <2>1. SUFFICES ASSUME k + 1 <= n
                   PROVE  ObjectInv(f[k + 1], {}) /\ SameRound(o, f[k + 1])
      BY k + 1 \in Nat, Zenon
    <2>2. ObjectInv(f[k], {}) /\ SameRound(o, f[k])
      BY <1>4, <2>1
    <2>3. props[k + 1] \in Seen
      BY <1>1, <2>1
    <2>4. f[k + 1] = peerProposalInternal(f[k], props[k + 1])
      BY <1>2, <2>1 DEF Replay
    <2>5. PICK v, w, q : v = f[k] /\ w = f[k + 1] /\ q = props[k + 1]
      OBVIOUS
    <2>6. ObjectInv(w, {}) /\ SameRound(v, w)
      BY <2>2, <2>3, <2>4, <2>5, ProposalInv
    <2>7. QED
      BY <2>2, <2>5, <2>6, SameRoundTwice, Zenon
  <1> HIDE DEF S
  <1>5. n \in S
    BY <1>3, <1>4, Induction, Zenon
  <1>6. QED
    BY <1>2, <1>5 DEF S

(* ... and so are those of all peers, in the order of the map.             *)
ReplayAll(o, order, n, f) ==
    f = [i \in 0 .. n |-> IF i = 0 THEN o ELSE playback(f[i - 1], o.recent[order[i]])]

(* The recursion of playbackProposals is well founded.                     *)
LEMMA ReplayAllExists ==
    ASSUME NEW o, NEW order, NEW n \in Nat
    PROVE  \E f : ReplayAll(o, order, n, f)
  <1> DEFINE S == {k \in Nat : \E f : ReplayAll(o, order, k, f)}
  <1>1. 0 \in S
    <2> DEFINE f == [i \in 0 .. 0 |-> o]
    <2>1. f = [i \in 0 .. 0 |-> IF i = 0 THEN o ELSE playback(f[i - 1], o.recent[order[i]])]
      BY SMT
    <2>2. QED
      BY <2>1, Zenon DEF ReplayAll
  <1>2. ASSUME NEW k \in Nat, k \in S PROVE k + 1 \in S
    <2>1. PICK g : ReplayAll(o, order, k, g)
      BY <1>2, Zenon
    <2> DEFINE f == [i \in 0 .. k + 1 |->
                        IF i = k + 1 THEN playback(g[k], o.recent[order[i]]) ELSE g[i]]
    <2>2. ASSUME NEW i \in 0 .. k + 1
          PROVE  f[i] = IF i = 0 THEN o ELSE playback(f[i - 1], o.recent[order[i]])
      <3>1. CASE i = k + 1
        BY <3>1, SMT
      <3>2. CASE i # k + 1
        <4>1. i \in 0 .. k
          BY <3>2, SMT
        <4>2. f[i] = g[i] /\ (i # 0 => f[i - 1] = g[i - 1])
          BY <4>1, SMT
        <4>3. g[i] = IF i = 0 THEN o ELSE playback(g[i - 1], o.recent[order[i]])
          BY <2>1, <4>1, Zenon DEF ReplayAll
        <4>4. QED
          BY <4>2, <4>3, Zenon
      <3>3. QED
        BY <3>1, <3>2
    <2>3. f = [i \in 0 .. k + 1 |->
                  IF i = 0 THEN o ELSE playback(f[i - 1], o.recent[order[i]])]
      BY <2>2, Zenon
    <2>4. ReplayAll(o, order, k + 1, f) /\ k + 1 \in Nat
      BY <2>3, SMT DEF ReplayAll
    <2>5. QED
      BY <2>4, Zenon
  <1> HIDE DEF S
  <1>3. n \in S
    BY <1>1, <1>2, Induction, Zenon
  <1>4. QED
    BY <1>3, Zenon DEF S

(* So does taking in those of all the peers, in any order                  *)
(* (playbackProposals).                                                    *)
LEMMA PlaybackAllInv ==
    ASSUME NEW o, NEW order \in Seq(Peers), ObjectInv(o, {}),
           NEW u, u = playbackProposals(o, order)
    PROVE  ObjectInv(u, {}) /\ SameRound(o, u)
  <1>1. PICK n \in Nat : n = Len(order)
    OBVIOUS
  <1>2. PICK f : ReplayAll(o, order, n, f) /\ u = f[n]
    <2>1. u = (CHOOSE f : ReplayAll(o, order, n, f))[n]
      BY <1>1, Zenon DEF playbackProposals, ReplayAll
    <2>2. PICK f : f = CHOOSE g : ReplayAll(o, order, n, g)
      OBVIOUS
    <2>3. ReplayAll(o, order, n, f)
      BY <2>2, ReplayAllExists, Zenon
    <2>4. QED
      BY <2>1, <2>2, <2>3, Zenon
  <1> DEFINE S == {k \in Nat : k <= n => ObjectInv(f[k], {}) /\ SameRound(o, f[k])}
  <1>3. 0 \in S
    <2>1. f[0] = o
      BY <1>2 DEF ReplayAll
    <2>2. QED
      BY <2>1, SameRoundSelf, Zenon
  <1>4. ASSUME NEW k \in Nat, k \in S PROVE k + 1 \in S
    <2>1. SUFFICES ASSUME k + 1 <= n
                   PROVE  ObjectInv(f[k + 1], {}) /\ SameRound(o, f[k + 1])
      BY k + 1 \in Nat, Zenon
    <2>2. ObjectInv(f[k], {}) /\ SameRound(o, f[k])
      BY <1>4, <2>1
    <2>3. o.recent[order[k + 1]] \in Seq(Seen)
      <3>1. order[k + 1] \in Peers
        BY <1>1, <2>1
      <3>2. QED
        BY <3>1 DEF ObjectInv, DisputesInv, Shape
    <2>4. f[k + 1] = playback(f[k], o.recent[order[k + 1]])
      BY <1>2, <2>1 DEF ReplayAll
    <2>5. PICK v, w, q : v = f[k] /\ w = f[k + 1] /\ q = o.recent[order[k + 1]]
      OBVIOUS
    <2>6. ObjectInv(w, {}) /\ SameRound(v, w)
      BY <2>2, <2>3, <2>4, <2>5, PlaybackInv
    <2>7. QED
      BY <2>2, <2>5, <2>6, SameRoundTwice, Zenon
  <1> HIDE DEF S
  <1>5. n \in S
    BY <1>3, <1>4, Induction, Zenon
  <1>6. QED
    BY <1>2, <1>5 DEF S
-----------------------------------------------------------------------------
(* Close times are numbers, so the ones with the most votes have a least.  *)
LEMMA CloseTimeType == ASSUME NEW t \in Nat PROVE asCloseTime(t) \in Nat
  <1>1. Resolution \div 2 \in Nat
    <2>1. \A r \in Nat : r \div 2 \in Nat
      BY SMT
    <2>2. QED
      BY <2>1, BoundsAssumption, Zenon
  <1>2. PICK u \in Nat : u = t + Resolution \div 2
    BY <1>1, SMT
  <1>3. u % Resolution \in Nat /\ u % Resolution <= u
    BY BoundsAssumption, SMT
  <1>4. QED
    BY <1>2, <1>3, SMT DEF asCloseTime

(* The positions of the peers, to be counted.                              *)
LEMMA PeersFinite ==
    ASSUME NEW o, Positions(o)
    PROVE  /\ IsFiniteSet(DOMAIN o.peers)
           /\ \A p \in DOMAIN o.peers : o.peers[p].ct \in Nat /\ o.peers[p].set \in SUBSET Txs
  <1>1. DOMAIN o.peers \subseteq Peers
    BY DEF Positions
  <1>2. IsFiniteSet(DOMAIN o.peers)
    BY <1>1, FS_Subset, BoundsAssumption
  <1>3. \A q \in Seen : q.ct \in Nat /\ q.set \in SUBSET Txs
    BY OffersAssumption DEF Seen
  <1>4. QED
    BY <1>2, <1>3 DEF Positions

(* The close time we come to is a number: among those voted for there is   *)
(* one with the most votes.                                                *)
LEMMA AgreedTimeType ==
    ASSUME NEW o, Positions(o), o.result.ct \in Nat
    PROVE  agreeOnCloseTime(o).time \in Nat
  <1> DEFINE own == IF Proposing(o) THEN {None} ELSE {}
             vote(p) == asCloseTime(IF p = None THEN o.result.ct ELSE o.peers[p].ct)
             voters == DOMAIN o.peers \cup own
             votes == closeTimeVotes(o)
             most == Max({votes[t] : t \in DOMAIN votes})
  <1>1. CASE DOMAIN o.peers = {}
    <2>1. agreeOnCloseTime(o).time = asCloseTime(o.result.ct)
      BY <1>1 DEF agreeOnCloseTime
    <2>2. QED
      BY <2>1, CloseTimeType
  <1>2. CASE DOMAIN o.peers /= {}
    <2>1. IsFiniteSet(voters) /\ voters /= {}
      <3>1. IsFiniteSet(own)
        BY FS_EmptySet, FS_Singleton
      <3>2. IsFiniteSet(DOMAIN o.peers)
        BY PeersFinite
      <3> HIDE DEF own
      <3>3. QED
        BY <1>2, <3>1, <3>2, FS_Union
    <2>2. \A p \in voters : vote(p) \in Nat
      <3>1. \A p \in DOMAIN o.peers : o.peers[p].ct \in Nat
        BY PeersFinite
      <3>2. \A p \in own : p = None
        OBVIOUS
      <3> HIDE DEF own
      <3>3. \A p \in voters : (IF p = None THEN o.result.ct ELSE o.peers[p].ct) \in Nat
        BY <3>1, <3>2
      <3>4. QED
        BY <3>3, CloseTimeType, Zenon
    <2>3. votes = [t \in {vote(p) : p \in voters} |->
                      Cardinality({p \in voters : vote(p) = t})]
      BY DEF closeTimeVotes
    <2> HIDE DEF voters, vote, votes
    <2>4. DOMAIN votes = {vote(p) : p \in voters}
      BY <2>3
    <2>5. DOMAIN votes /= {} /\ DOMAIN votes \subseteq Nat
      BY <2>1, <2>2, <2>4
    <2>6. \A t \in DOMAIN votes : votes[t] \in 0 .. Cardinality(voters)
      <3>1. ASSUME NEW t \in DOMAIN votes PROVE votes[t] \in 0 .. Cardinality(voters)
        <4>1. votes[t] = Cardinality({p \in voters : vote(p) = t})
          BY <2>3, <2>4
        <4>2. PICK T : T = {p \in voters : vote(p) = t}
          OBVIOUS
        <4>3. T \subseteq voters
          BY <4>2
        <4>4. IsFiniteSet(T) /\ Cardinality(T) <= Cardinality(voters)
          BY <2>1, <4>3, FS_Subset
        <4>5. Cardinality(T) \in Nat /\ Cardinality(voters) \in Nat
          BY <2>1, <4>4, FS_CardinalityType
        <4>6. QED
          BY <4>1, <4>2, <4>4, <4>5
      <3>2. QED
        BY <3>1
    <2>7. PICK V : V = {votes[t] : t \in DOMAIN votes}
      OBVIOUS
    <2>8. \E m \in V : \A n \in V : m >= n
      <3>1. Cardinality(voters) \in Nat
        BY <2>1, FS_CardinalityType
      <3>2. V \subseteq 0 .. Cardinality(voters) /\ V /= {}
        BY <2>5, <2>6, <2>7
      <3>3. IsFiniteSet(V)
        <4>1. IsFiniteSet(0 .. Cardinality(voters))
          BY <3>1, FS_Interval, SMT
        <4>2. QED
          BY <3>2, <4>1, FS_Subset, Zenon
      <3>4. V \in SUBSET Nat
        BY <3>1, <3>2
      <3>5. QED
        BY <3>2, <3>3, <3>4, GreatestNumber
    <2>9. Max(V) \in V
      BY <2>8 DEF Max
    <2>10. PICK T : T = {t \in DOMAIN votes : votes[t] = Max(V)}
      OBVIOUS
    <2>11. T /= {} /\ T \in SUBSET Nat
      BY <2>5, <2>7, <2>9, <2>10
    <2>12. \E m \in T : \A n \in T : m =< n
      <3>1. \E m \in T : \A n \in T : ~(n < m)
        BY <2>11, LeastNumber
      <3>2. QED
        BY <2>11, <3>1
    <2>13. Min(T) \in T
      BY <2>12 DEF Min
    <2>14. agreeOnCloseTime(o).time \in {0, Min(T)}
      <3>1. T = {t \in DOMAIN closeTimeVotes(o) : closeTimeVotes(o)[t] =
                    Max({closeTimeVotes(o)[x] : x \in DOMAIN closeTimeVotes(o)})}
        BY <2>7, <2>10, Zenon DEF votes
      <3>2. PICK agree : agreeOnCloseTime(o).time = IF agree THEN Min(T) ELSE 0
        BY <1>2, <3>1, Zenon DEF agreeOnCloseTime
      <3>3. QED
        BY <3>2
    <2>15. Min(T) \in Nat /\ 0 \in Nat
      BY <2>11, <2>13
    <2>16. QED
      BY <2>14, <2>15, Zenon
  <1>3. QED
    BY <1>1, <1>2
-----------------------------------------------------------------------------
(* Our vote on a dispute follows those of the peers, which stay.           *)
Revoted(d, u) == u \in DisputeType(Peers) /\ u.votes = d.votes

(* updateVote changes nothing but our own vote and the counters            *)
(* (DisputedTx::updateVote).                                               *)
LEMMA UpdateVote ==
    ASSUME NEW d \in DisputeType(Peers), NEW percent, NEW proposing
    PROVE  Revoted(d, updateVote(d, percent, proposing))
  <1>1. PICK tries : tries = CountTo(AvMinRounds, d.tries)
    OBVIOUS
  <1>2. PICK level : level = NextLevel(d.level, percent, tries, AvMinRounds)
    OBVIOUS
  <1>3. PICK now : now = IF proposing THEN Weight(d, TRUE) > Cutoffs[level].pct
                         ELSE Yays(d) > Nays(d)
    OBVIOUS
  <1>4. PICK kept : kept = IF now = d.ours THEN CountTo(AvStalledRounds, d.kept) ELSE 0
    OBVIOUS
  <1>5. d.tries \in 0 .. AvMinRounds /\ d.kept \in 0 .. AvStalledRounds /\ d.level \in Levels
    BY DEF DisputeType
  <1>6. tries \in 0 .. AvMinRounds
    BY <1>1, <1>5, RoundsAssumption DEF CountTo
  <1>7. level \in Levels
    BY <1>2, <1>5 DEF NextLevel, Levels, Cutoffs
  <1>8. now \in BOOLEAN
    <2>1. \A T \in SUBSET DOMAIN d.votes : Cardinality(T) \in Nat
      <3>1. DOMAIN d.votes \subseteq Peers
        BY DEF DisputeType
      <3>2. QED
        BY <3>1, BoundsAssumption, FS_Subset, FS_CardinalityType
    <2>2. Yays(d) \in Nat /\ Nays(d) \in Nat
      BY <2>1 DEF Yays, Nays
    <2>3. Weight(d, TRUE) \in Int
      <3>1. PICK a \in Nat : a = (Yays(d) + (IF d.ours THEN 1 ELSE 0)) * 100
        BY <2>2
      <3>2. PICK b \in Nat \ {0} : b = Yays(d) + Nays(d) + 1
        BY <2>2
      <3>3. Weight(d, TRUE) = a \div b
        BY <3>1, <3>2 DEF Weight
      <3>4. a \div b \in Int
        BY SMT
      <3>5. QED
        BY <3>3, <3>4
    <2>4. Cutoffs[level].pct \in Nat
      BY <1>7 DEF Levels, Cutoffs
    <2>5. \A x, y \in Int : (x > y) \in BOOLEAN
      OBVIOUS
    <2>6. Yays(d) \in Int /\ Nays(d) \in Int /\ Cutoffs[level].pct \in Int
      BY <2>2, <2>4
    <2>7. QED
      BY <1>3, <2>3, <2>5, <2>6, Zenon
  <1>9. kept \in 0 .. AvStalledRounds
    BY <1>4, <1>5, RoundsAssumption DEF CountTo
  <1>10. \/ updateVote(d, percent, proposing) = d
         \/ updateVote(d, percent, proposing) =
               [d EXCEPT !.ours = now, !.level = level,
                         !.tries = IF level = d.level THEN tries ELSE 0, !.kept = kept]
    BY <1>1, <1>2, <1>3, <1>4 DEF updateVote
  <1>11. PICK n \in 0 .. AvMinRounds : n = IF level = d.level THEN tries ELSE 0
    BY <1>6, RoundsAssumption
  <1>12. PICK w : w = [d EXCEPT !.ours = now, !.level = level, !.tries = n, !.kept = kept]
    OBVIOUS
  <1>13. w \in DisputeType(Peers) /\ w.votes = d.votes
    BY <1>7, <1>8, <1>9, <1>12 DEF DisputeType
  <1>14. updateVote(d, percent, proposing) \in {d, w}
    BY <1>10, <1>11, <1>12
  <1>15. QED
    BY <1>13, <1>14, Zenon DEF Revoted
-----------------------------------------------------------------------------
(* Stale positions go with their votes.                                    *)
LEMMA StaleInv ==
    ASSUME NEW o, ObjectInv(o, {}), o.result /= None, NEW u, u = dropStale(o)
    PROVE  ObjectInv(u, {}) /\ SameRound(o, u)
  <1>1. DOMAIN o = Fields /\ DOMAIN o.peers \cap o.dead = {} /\ o.result \in Results
    BY DEF ObjectInv, DisputesInv, Shape, Positions
  <1>2. PICK P : P = {p \in DOMAIN o.peers : o.peers[p].age >= ProposeFreshness}
    OBVIOUS
  <1>3. PICK v : v = unVoteAll(o, P)
    OBVIOUS
  <1>4. u = [v EXCEPT !.peers = Without(@, P)]
    BY <1>2, <1>3, Zenon DEF dropStale
  <1>5. /\ Keeps(o, v, {"result"})
        /\ v.result = [o.result EXCEPT !.disputes = [t \in DOMAIN @ |-> unVote(@[t], P)]]
    BY <1>1, <1>3 DEF unVoteAll, Keeps, Fields, Results
  <1>6. /\ Keeps(v, u, {"peers"}) /\ u.peers = Without(v.peers, P)
        /\ u.dead = v.dead /\ u.result = v.result
    BY <1>1, <1>4, <1>5 DEF Keeps, Fields
  <1>7. v.peers = o.peers /\ v.dead = o.dead
    BY <1>5 DEF Keeps, Fields
  <1>8. Keeps(o, u, {"result", "peers", "dead"})
    BY <1>5, <1>6 DEF Keeps
  <1>9. u.peers = Without(o.peers, P) /\ DOMAIN u.peers \cap u.dead = {}
    BY <1>1, <1>6, <1>7 DEF Without
  <1>10. QED
    BY <1>5, <1>6, <1>8, <1>9, DropInv

(* Our set changes by the votes that changed, so our votes and our set     *)
(* agree again, and what is not disputed stays as it was.                  *)
LEMMA RepositionInv ==
    ASSUME NEW o, ObjectInv(o, {}), o.result /= None, NEW u,
           Keeps(o, u, {"result", "haveCT", "ctLevel", "acquired", "inbound", "sent"}),
           u.result \in Results, u.result.compares = o.result.compares,
           DOMAIN u.result.disputes = DOMAIN o.result.disputes,
           \A t \in DOMAIN o.result.disputes :
              u.result.disputes[t].votes = o.result.disputes[t].votes,
           \A t \in DOMAIN o.result.disputes :
              u.result.disputes[t].ours <=> t \in u.result.txns,
           \A t : t \notin DOMAIN o.result.disputes =>
              (t \in u.result.txns <=> t \in o.result.txns),
           u.result.txns \in u.acquired, NEW P, Known(u) \ P \subseteq Known(o)
    PROVE  DisputesInv(u, P)
  <1>1. /\ u.phase = o.phase /\ u.mode = o.mode /\ u.prevID = o.prevID /\ u.prev = o.prev
        /\ u.peers = o.peers /\ u.recent = o.recent /\ u.dead = o.dead /\ DOMAIN u = Fields
    BY DEF Keeps, Fields, ObjectInv, DisputesInv, Shape
  <1>2. Disputing(o, {}) /\ o.result \in Results
    BY Zenon DEF ObjectInv, DisputesInv, Shape
  <1>3. \A s : SymDiff(o.result.txns, s) \subseteq DOMAIN o.result.disputes =>
                  SymDiff(u.result.txns, s) \subseteq DOMAIN o.result.disputes
    BY Zenon DEF SymDiff
  <1>4. Disputing(u, P)
    <2>1. ASSUME NEW t \in DOMAIN o.result.disputes
          PROVE  /\ DOMAIN u.result.disputes[t].votes \subseteq DOMAIN u.peers
                 /\ \A p \in Known(u) \ P :
                       /\ p \in DOMAIN u.result.disputes[t].votes
                       /\ u.result.disputes[t].votes[p] <=> t \in u.peers[p].set
      <3>1. u.result.disputes[t].votes = o.result.disputes[t].votes
        BY Zenon
      <3>2. QED
        BY <1>1, <1>2, <3>1, Zenon DEF Disputing
    <2>2. \A s \in u.result.compares : SymDiff(u.result.txns, s) \subseteq DOMAIN o.result.disputes
      BY <1>2, <1>3, Zenon DEF Disputing
    <2>3. \A p \in Known(u) \ P :
             SymDiff(u.result.txns, u.peers[p].set) \subseteq DOMAIN o.result.disputes
      BY <1>1, <1>2, <1>3, Zenon DEF Disputing
    <2>4. QED
      BY <2>1, <2>2, <2>3, Zenon DEF Disputing
  <1>5. Shape(u)
    BY <1>1 DEF ObjectInv, DisputesInv, Shape
  <1>6. Positions(u)
    BY <1>1, Zenon DEF ObjectInv, DisputesInv, Positions
  <1>7. u.result /= None
    BY NoneAssumption, Zenon
  <1>8. QED
    BY <1>1, <1>4, <1>5, <1>6, <1>7, Zenon DEF ObjectInv, DisputesInv

(* What is told is the position as it is then.                             *)
LEMMA ProposeInv ==
    ASSUME NEW o, DisputesInv(o, {}), o.result /= None,
           Proposing(o) => /\ o.prev = o.prevID /\ o.result.prev = o.prevID
                           /\ o.result.seq <= SeqCap,
           NEW u, u = IF o.result.seq /= Leave /\ Proposing(o) THEN propose(o) ELSE o
    PROVE  /\ ObjectInv(u, {}) /\ u.mode = o.mode /\ u.phase = o.phase
           /\ u.prevID = o.prevID /\ (~Proposing(o) => u.sent = o.sent)
  <1>1. CASE ~Proposing(o)
    <2>1. u = o
      BY <1>1, Zenon
    <2>2. Told(o)
      BY <1>1, Zenon DEF Told
    <2>3. QED
      BY <2>1, <2>2, Zenon DEF ObjectInv
  <1>2. CASE Proposing(o)
    <2>1. DOMAIN o = Fields /\ o.result \in Results
      BY DEF DisputesInv, Shape
    <2>2. o.result.seq /= Leave
      BY <1>2, <2>1, BoundsAssumption DEF SeqCap, Results
    <2>3. u = propose(o)
      BY <1>2, <2>2, Zenon
    <2>4. /\ u.phase = o.phase /\ u.mode = o.mode /\ u.prevID = o.prevID
          /\ u.prev = o.prev /\ u.acquired = o.acquired /\ u.peers = o.peers
          /\ u.recent = o.recent /\ u.dead = o.dead /\ u.result = o.result
          /\ DOMAIN u = Fields
      BY <2>1, <2>3 DEF Fields, propose
    <2>5. u.sent = [prev |-> o.result.prev, seq |-> o.result.seq,
                    set |-> o.result.txns, ct |-> o.result.ct]
      BY <2>1, <2>3 DEF Fields, propose
    <2>6. Told(u)
      BY <1>2, <2>4, <2>5, Zenon DEF Told, Proposing
    <2>7. Known(u) = Known(o)
      BY <2>4 DEF Known
    <2>8. Disputing(u, {})
      BY <2>4, <2>7, Zenon DEF DisputesInv, Disputing
    <2>9. Shape(u) /\ Positions(u)
      BY <2>4, Zenon DEF DisputesInv, Shape, Positions
    <2>10. DisputesInv(u, {})
      BY <2>4, <2>8, <2>9, Zenon DEF DisputesInv
    <2>11. QED
      BY <1>2, <2>4, <2>6, <2>10, Zenon DEF ObjectInv
  <1>3. QED
    BY <1>1, <1>2

(* The new position, before it is told.                                    *)
Moved(o, txns, ct) ==
    [o EXCEPT !.result.txns = txns, !.result.ct = ct, !.result.told = 0,
              !.result.seq = IF @ = Leave THEN @ ELSE CountTo(SeqCap, @)]

(* A new position keeps the disputes and never has the number of a bow-out *)
(* (ConsensusProposal::changePosition).                                    *)
LEMMA MovedFields ==
    ASSUME NEW o, DOMAIN o = Fields, o.result \in Results, NEW txns \in SUBSET Txs,
           NEW ct \in Nat, NEW u, u = Moved(o, txns, ct)
    PROVE  /\ Keeps(o, u, {"result"}) /\ u.result \in Results
           /\ u.result.txns = txns /\ u.result.prev = o.result.prev
           /\ u.result.disputes = o.result.disputes /\ u.result.compares = o.result.compares
           /\ o.result.seq <= SeqCap => u.result.seq <= SeqCap
  <1>1. PICK n : n = IF o.result.seq = Leave THEN o.result.seq ELSE CountTo(SeqCap, o.result.seq)
    OBVIOUS
  <1>2. n \in 0 .. Leave /\ (o.result.seq <= SeqCap => n <= SeqCap)
    BY <1>1, BoundsAssumption DEF CountTo, SeqCap, Results
  <1>3. u = [o EXCEPT !.result.txns = txns, !.result.ct = ct, !.result.told = 0,
                      !.result.seq = n]
    BY <1>1, Zenon DEF Moved
  <1>4. u.result = [o.result EXCEPT !.txns = txns, !.ct = ct, !.told = 0, !.seq = n]
    BY <1>3 DEF Fields
  <1>5. Keeps(o, u, {"result"})
    BY <1>3 DEF Fields, Keeps
  <1>6. u.result \in Results
    <2>1. \A r \in Results : [r EXCEPT !.txns = txns] \in Results
      BY DEF Results
    <2>2. \A r \in Results : [r EXCEPT !.ct = ct] \in Results
      BY DEF Results
    <2>3. \A r \in Results : [r EXCEPT !.told = 0] \in Results
      BY DEF Results
    <2>4. \A r \in Results : [r EXCEPT !.seq = n] \in Results
      BY <1>2 DEF Results
    <2>5. u.result = [[[[o.result EXCEPT !.txns = txns] EXCEPT !.ct = ct] EXCEPT !.told = 0]
                         EXCEPT !.seq = n]
      BY <1>4, Zenon
    <2>6. QED
      BY <2>1, <2>2, <2>3, <2>4, <2>5, Zenon
  <1>7. /\ u.result.txns = txns /\ u.result.prev = o.result.prev /\ u.result.seq = n
        /\ u.result.disputes = o.result.disputes /\ u.result.compares = o.result.compares
    BY <1>4 DEF Results
  <1>8. QED
    BY <1>2, <1>5, <1>6, <1>7, Zenon

(* Our votes on the disputes changed, our set did not yet.                 *)
Voted(o, v) ==
    /\ Keeps(o, v, {"result", "haveCT", "ctLevel"})
    /\ v.result \in Results /\ v.result.compares = o.result.compares
    /\ v.result.prev = o.result.prev /\ v.result.txns = o.result.txns
    /\ v.result.seq = o.result.seq /\ v.result.ct = o.result.ct
    /\ DOMAIN v.result.disputes = DOMAIN o.result.disputes
    /\ \A t \in DOMAIN o.result.disputes :
          v.result.disputes[t].votes = o.result.disputes[t].votes

Flips(o, v) ==
    {t \in DOMAIN o.result.disputes : v.result.disputes[t].ours /= o.result.disputes[t].ours}

(* Our set with these votes.                                               *)
Turned(o, v) ==
    {t \in o.result.txns \cup Flips(o, v) : t \in Flips(o, v) => v.result.disputes[t].ours}

(* The disputes match the set we turn to: it is ours but for the           *)
(* transactions whose vote we changed (updateOurPositions).                *)
LEMMA VotedInv ==
    ASSUME NEW o, ObjectInv(o, {}), o.result /= None, NEW v, Voted(o, v), NEW z,
           Keeps(v, z, {"result", "acquired", "inbound"}), z.result \in Results,
           z.result.compares = v.result.compares, z.result.disputes = v.result.disputes,
           z.result.txns = Turned(o, v), z.result.txns \in z.acquired,
           NEW P, Known(z) \ P \subseteq Known(o)
    PROVE  DisputesInv(z, P)
  <1>1. Keeps(o, z, {"result", "haveCT", "ctLevel", "acquired", "inbound", "sent"})
    BY DEF Voted, Keeps
  <1>2. /\ DOMAIN z.result.disputes = DOMAIN o.result.disputes
        /\ z.result.compares = o.result.compares
        /\ \A t \in DOMAIN o.result.disputes :
              z.result.disputes[t].votes = o.result.disputes[t].votes
    BY Zenon DEF Voted
  <1>3. \A t \in DOMAIN o.result.disputes :
           o.result.disputes[t].ours \in BOOLEAN /\ z.result.disputes[t].ours \in BOOLEAN
    <2>1. o.result.disputes \in DisputeMaps /\ z.result.disputes \in DisputeMaps
      BY DEF Results, ObjectInv, DisputesInv, Shape
    <2>2. \A d \in DisputeType(Peers) : d.ours \in BOOLEAN
      BY DEF DisputeType
    <2>3. QED
      BY <1>2, <2>1, <2>2, MapOfDisputes, Zenon
  <1>4. ASSUME NEW t \in DOMAIN o.result.disputes
        PROVE  z.result.disputes[t].ours <=> t \in z.result.txns
    <2>1. o.result.disputes[t].ours <=> t \in o.result.txns
      BY Zenon DEF ObjectInv, DisputesInv, Disputing
    <2>2. QED
      BY <1>3, <2>1, Zenon DEF Turned, Flips
  <1>5. \A t : t \notin DOMAIN o.result.disputes =>
                  (t \in z.result.txns <=> t \in o.result.txns)
    BY Zenon DEF Turned, Flips
  <1>6. QED
    BY <1>1, <1>2, <1>4, <1>5, RepositionInv, Zenon

(* A changed position is compared with those of the peers that have the    *)
(* same set, and told to the peers (updateOurPositions).                   *)
LEMMA ChangeInv ==
    ASSUME NEW o, ObjectInv(o, {}), o.phase = "Establish", NEW v, Voted(o, v),
           NEW txns, txns = Turned(o, v), NEW ct \in Nat, NEW w, w = changePosition(v, txns, ct)
    PROVE  /\ ObjectInv(w, {}) /\ w.mode = o.mode /\ w.phase = o.phase /\ w.prevID = o.prevID
           /\ (~Proposing(o) => w.sent = o.sent)
  <1>1. o.result /= None /\ o.result \in Results /\ DOMAIN v = Fields
    BY DEF ObjectInv, DisputesInv, Shape, Voted, Keeps
  <1>2. txns \in SUBSET Txs
    <2>1. DOMAIN o.result.disputes \subseteq Txs /\ o.result.txns \subseteq Txs
      BY <1>1, MapOfDisputes DEF Results
    <2>2. QED
      BY <2>1 DEF Flips, Turned
  <1> DEFINE u == Moved(v, txns, ct)
             y == [u EXCEPT !.acquired = @ \cup {txns},
                            !.inbound = IF u.result.seq = Leave THEN @ ELSE @ \cup {txns}]
             x == IF txns \in u.acquired THEN u ELSE VotesOf(y, txns)
  <1>3. w = IF x.result.seq /= Leave /\ Proposing(x) THEN propose(x) ELSE x
    BY Zenon DEF changePosition, Moved
  <1>4. y = [u EXCEPT !.acquired = @ \cup {txns},
                      !.inbound = IF u.result.seq = Leave THEN @ ELSE @ \cup {txns}]
    OBVIOUS
  <1>5. x = IF txns \in u.acquired THEN u ELSE VotesOf(y, txns)
    OBVIOUS
  <1> HIDE DEF x, y
  <1>6. u = Moved(v, txns, ct)
    OBVIOUS
  <1> HIDE DEF u
  <1>7. /\ Keeps(v, u, {"result"}) /\ u.result \in Results
        /\ u.result.txns = txns /\ u.result.prev = v.result.prev
        /\ u.result.disputes = v.result.disputes /\ u.result.compares = v.result.compares
        /\ v.result.seq <= SeqCap => u.result.seq <= SeqCap
    BY <1>1, <1>2, <1>6, MovedFields DEF Voted
  <1>8. ASSUME NEW z, Keeps(u, z, {"acquired", "inbound"}), txns \in z.acquired,
               NEW P, Known(z) \ P \subseteq Known(o)
        PROVE  DisputesInv(z, P)
    <2>1. Keeps(v, z, {"result", "acquired", "inbound"}) /\ z.result = u.result
      BY <1>7, <1>8 DEF Keeps, Fields
    <2>2. /\ z.result \in Results /\ z.result.compares = v.result.compares
          /\ z.result.txns = Turned(o, v) /\ z.result.disputes = v.result.disputes
          /\ z.result.txns \in z.acquired
      BY <1>7, <1>8, <2>1, Zenon
    <2>3. QED
      BY <1>1, <1>8, <2>1, <2>2, VotedInv, Zenon
  <1>9. /\ u.acquired = o.acquired /\ u.peers = o.peers /\ u.mode = o.mode
        /\ u.phase = o.phase /\ u.prevID = o.prevID /\ u.prev = o.prev /\ u.sent = o.sent
        /\ DOMAIN u = Fields
    BY <1>1, <1>7 DEF Voted, Keeps, Fields
  <1>10. u.result /= None
    BY <1>7, NoneAssumption, Zenon
  <1>11. /\ DisputesInv(x, {}) /\ x.result /= None /\ x.mode = o.mode /\ x.phase = o.phase
         /\ x.prevID = o.prevID /\ x.prev = o.prev /\ x.sent = o.sent
         /\ x.result.prev = u.result.prev /\ x.result.seq = u.result.seq
    <2>1. CASE txns \in u.acquired
      <3>1. x = u
        BY <1>5, <2>1, Zenon
      <3>2. Keeps(u, u, {"acquired", "inbound"}) /\ Known(u) \ {} \subseteq Known(o)
        BY <1>9 DEF Keeps, Known
      <3>3. DisputesInv(u, {})
        BY <1>8, <2>1, <3>2, Zenon
      <3>4. QED
        BY <1>9, <1>10, <3>1, <3>3, Zenon
    <2>2. CASE txns \notin u.acquired
      <3>1. x = VotesOf(y, txns)
        BY <1>5, <2>2, Zenon
      <3>2. PICK P : P = {p \in DOMAIN y.peers : y.peers[p].set = txns}
        OBVIOUS
      <3>3. Keeps(u, y, {"acquired", "inbound"}) /\ y.acquired = u.acquired \cup {txns}
        BY <1>4, <1>9 DEF Keeps, Fields
      <3>4. /\ y.peers = o.peers /\ y.result = u.result /\ y.mode = o.mode
            /\ y.phase = o.phase /\ y.prevID = o.prevID /\ y.prev = o.prev /\ y.sent = o.sent
        BY <1>9, <3>3 DEF Keeps, Fields
      <3>5. txns \in y.acquired /\ Known(y) \ P \subseteq Known(o)
        BY <1>9, <3>2, <3>3, <3>4 DEF Known
      <3>6. DisputesInv(y, P)
        BY <1>8, <3>3, <3>5, Zenon
      <3>7. DisputesInv(x, {}) /\ SameRound(y, x)
        BY <1>2, <3>1, <3>2, <3>6, VotesInv
      <3>8. /\ x.mode = y.mode /\ x.phase = y.phase /\ x.prevID = y.prevID
            /\ x.prev = y.prev /\ x.sent = y.sent
        BY <3>7 DEF SameRound, Keeps, Fields
      <3>9. y.result /= None
        BY <1>10, <3>4, Zenon
      <3>10. /\ x.result /= None /\ x.result.prev = y.result.prev
             /\ x.result.seq = y.result.seq
        BY <3>7, <3>9, Zenon DEF SameRound, SamePosition
      <3>11. QED
        BY <3>4, <3>7, <3>8, <3>10, Zenon
    <2>3. QED
      BY <2>1, <2>2
  <1>12. Proposing(x) => /\ x.prev = x.prevID /\ x.result.prev = x.prevID
                         /\ x.result.seq <= SeqCap
    <2>1. Proposing(o) => /\ o.prev = o.prevID /\ o.result.prev = o.prevID
                          /\ o.result.seq <= SeqCap
      BY <1>1, Zenon DEF ObjectInv, Told
    <2>2. v.result.prev = o.result.prev /\ v.result.seq = o.result.seq
      BY DEF Voted
    <2>3. QED
      BY <1>7, <1>11, <2>1, <2>2, Zenon DEF Proposing
  <1>13. /\ ObjectInv(w, {}) /\ w.mode = x.mode /\ w.phase = x.phase
         /\ w.prevID = x.prevID /\ (~Proposing(x) => w.sent = x.sent)
    BY <1>3, <1>11, <1>12, ProposeInv
  <1>14. QED
    BY <1>11, <1>13, Zenon DEF Proposing

(* updateOurPositions drops stale peers, changes our votes and moves to a  *)
(* new position when they say so, and keeps the invariant.                 *)
LEMMA OurPositionsInv ==
    ASSUME NEW o, ObjectInv(o, {}), o.phase = "Establish", NEW w, w = updateOurPositions(o)
    PROVE  /\ ObjectInv(w, {}) /\ w.mode = o.mode /\ w.phase = o.phase /\ w.prevID = o.prevID
           /\ (~Proposing(o) => w.sent = o.sent)
  <1> DEFINE u == dropStale(o)
             old == u.result.disputes
             new == [t \in DOMAIN old |-> updateVote(old[t], convergePercent(o), Proposing(o))]
             flips == {t \in DOMAIN old : new[t].ours /= old[t].ours}
             close == agreeOnCloseTime(u)
             v == [u EXCEPT !.result.disputes = new,
                            !.haveCT = close.have, !.ctLevel = close.level]
             txns == {t \in v.result.txns \cup flips : t \in flips => new[t].ours}
  <1>1. w = IF \/ flips /= {}
               \/ close.time /= asCloseTime(v.result.ct)
               \/ v.result.told >= ProposeInterval
            THEN changePosition(v, txns, close.time) ELSE v
    BY Zenon DEF updateOurPositions
  <1>2. o.result /= None
    BY DEF ObjectInv, DisputesInv
  <1>3. u = dropStale(o)
    OBVIOUS
  <1>4. old = u.result.disputes
    OBVIOUS
  <1>5. flips = {t \in DOMAIN old : new[t].ours /= old[t].ours}
    OBVIOUS
  <1>6. close = agreeOnCloseTime(u)
    OBVIOUS
  <1>7. v = [u EXCEPT !.result.disputes = new,
                      !.haveCT = close.have, !.ctLevel = close.level]
    OBVIOUS
  <1>8. txns = {t \in v.result.txns \cup flips : t \in flips => new[t].ours}
    OBVIOUS
  <1> HIDE DEF txns, v, close, flips, new, old, u
  <1>9. PICK percent : percent = convergePercent(o)
    OBVIOUS
  <1>10. new = [t \in DOMAIN old |-> updateVote(old[t], percent, Proposing(o))]
    BY <1>9, Zenon DEF new
  <1>11. ObjectInv(u, {}) /\ SameRound(o, u)
    BY <1>2, <1>3, StaleInv, Zenon
  <1>12. /\ u.mode = o.mode /\ u.phase = o.phase /\ u.prevID = o.prevID /\ u.sent = o.sent
         /\ u.result /= None
    BY <1>2, <1>11 DEF SameRound, SamePosition, Keeps, Fields
  <1>13. DOMAIN u = Fields /\ u.result \in Results /\ Positions(u)
    BY <1>11, <1>12 DEF ObjectInv, DisputesInv, Shape
  <1>14. old \in DisputeMaps
    BY <1>4, <1>13 DEF Results
  <1>15. \A t \in DOMAIN old : Revoted(old[t], new[t])
    <2>1. \A t \in DOMAIN old : old[t] \in DisputeType(Peers)
      BY <1>14, MapOfDisputes, Zenon
    <2>2. ASSUME NEW t \in DOMAIN old PROVE Revoted(old[t], new[t])
      <3>1. new[t] = updateVote(old[t], percent, Proposing(o))
        BY <1>10
      <3>2. old[t] \in DisputeType(Peers)
        BY <2>1
      <3>3. QED
        BY <3>1, <3>2, UpdateVote, Zenon
    <2>3. QED
      BY <2>2
  <1>16. new \in DisputeMaps /\ DOMAIN new = DOMAIN old
    <2>1. DOMAIN new = DOMAIN old /\ new = [t \in DOMAIN new |-> new[t]]
      BY <1>10
    <2>2. DOMAIN old \subseteq Txs
      BY <1>14, MapOfDisputes, Zenon
    <2>3. QED
      BY <1>15, <2>1, <2>2, DisputeMap, Zenon DEF Revoted
  <1>17. close.time \in Nat
    BY <1>6, <1>13, AgreedTimeType DEF Results
  <1>18. Voted(u, v) /\ v.result.disputes = new
    <2>1. /\ Keeps(u, v, {"result", "haveCT", "ctLevel"})
          /\ v.result = [u.result EXCEPT !.disputes = new]
      BY <1>7, <1>13 DEF Keeps, Fields
    <2>2. /\ v.result \in Results /\ v.result.compares = u.result.compares
          /\ v.result.prev = u.result.prev /\ v.result.txns = u.result.txns
          /\ v.result.seq = u.result.seq /\ v.result.ct = u.result.ct
          /\ v.result.disputes = new
      BY <1>13, <1>16, <2>1 DEF Results
    <2>3. QED
      BY <1>4, <1>15, <1>16, <2>1, <2>2, Zenon DEF Voted, Revoted
  <1>19. flips = Flips(u, v)
    BY <1>4, <1>5, <1>18, Zenon DEF Flips
  <1>20. txns = Turned(u, v)
    BY <1>8, <1>18, <1>19, Zenon DEF Voted, Turned
  <1>21. CASE w = changePosition(v, txns, close.time)
    <2>1. /\ ObjectInv(w, {}) /\ w.mode = u.mode /\ w.phase = u.phase /\ w.prevID = u.prevID
          /\ (~Proposing(u) => w.sent = u.sent)
      BY <1>11, <1>12, <1>17, <1>18, <1>20, <1>21, ChangeInv
    <2>2. QED
      BY <1>12, <2>1, Zenon DEF Proposing
  <1>22. CASE w = v /\ flips = {}
    <2>1. Keeps(v, v, {"result", "acquired", "inbound"})
      BY DEF Keeps
    <2>2. /\ v.acquired = u.acquired /\ v.peers = u.peers /\ v.mode = u.mode /\ v.phase = u.phase
          /\ v.prevID = u.prevID /\ v.prev = u.prev /\ v.sent = u.sent
      BY <1>18 DEF Voted, Keeps, Fields
    <2>3. Known(v) \ {} \subseteq Known(u)
      BY <2>2 DEF Known
    <2>4. v.result.txns = txns /\ v.result.txns \in v.acquired
      <3>1. v.result.txns = u.result.txns /\ u.result.txns \in u.acquired
        BY <1>11, <1>12, <1>18 DEF Voted, ObjectInv, DisputesInv
      <3>2. txns = u.result.txns
        BY <1>19, <1>20, <1>22 DEF Turned
      <3>3. QED
        BY <2>2, <3>1, <3>2, Zenon
    <2>5. DisputesInv(v, {})
      <3>1. v.result \in Results /\ v.result.txns = Turned(u, v)
        BY <1>18, <1>20, <2>4, Zenon DEF Voted
      <3>2. QED
        BY <1>11, <1>12, <1>18, <2>1, <2>3, <2>4, <3>1, VotedInv, Zenon
    <2>6. Told(v)
      BY <1>11, <1>12, <1>18, <2>2, Zenon DEF ObjectInv, Told, Proposing, Voted
    <2>7. QED
      BY <1>12, <1>22, <2>2, <2>5, <2>6, Zenon DEF ObjectInv
  <1>23. QED
    BY <1>1, <1>21, <1>22, Zenon
==============================================================================
